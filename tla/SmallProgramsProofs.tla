------------------------- MODULE SmallProgramsProofs -------------------------
(***************************************************************************)
(* The small programs of MCSmallPrograms compute and clean up what they    *)
(* should, for any number of processes, any sizes of buffers, words, lines *)
(* and directories, and any failures: one section, with an inductive       *)
(* invariant, for each program. Where a property only looks at the last    *)
(* state of a program, its invariant says what holds at every statement on *)
(* the way.                                                                *)
(***************************************************************************)
EXTENDS MCSmallPrograms, FiniteSetTheorems, FunctionTheorems, SequenceTheorems,
        NumberLemmas, TLAPS

-----------------------------------------------------------------------------
(* sem01_asm/t2.S, with the invariant IInv of Collatz *)

\* Three times an odd number below Half, plus 1: if it does not fit, the
\* register holds less than the number.
LEMMA TripleFits ==
  ASSUME NEW n \in Nat, n < Half
  PROVE  /\ 3 * n + 1 < Modulus => Add(Add(Add(n, n), n), 1) = 3 * n + 1
         /\ 3 * n + 1 >= Modulus =>
              /\ Add(Add(Add(n, n), n), 1) = 3 * n + 1 - Modulus
              /\ Add(Add(Add(n, n), n), 1) < n
  BY CollatzAssumption DEF Add, Modulus

\* The first state.
LEMMA InitInv == Init => IInv
  BY CollatzAssumption DEF Init, IInv, Modulus

\* Every step keeps the invariant.
LEMMA StepInv == IInv /\ [Next]_vars => IInv'
<1> SUFFICES ASSUME IInv, [Next]_vars
             PROVE  IInv'
  OBVIOUS
<1> USE CollatzAssumption DEF IInv, Modulus
<1>1. CASE Odd
  <2>1. eax \in Nat /\ eax < Half /\ eax = term /\ eax % 2 = 1
    BY <1>1 DEF Odd
  <2>2. term' = 3 * eax + 1
    BY <1>1, <2>1 DEF Odd, C
  <2>3. CASE 3 * eax + 1 < Modulus
    <3>1. eax' = 3 * eax + 1 /\ label' = "loop_1"
      BY <1>1, <2>1, <2>3, TripleFits DEF Odd, Overflowed
    <3>2. eax' % 2 = 0
      BY <2>1, <3>1
    <3> QED BY <2>1, <2>2, <2>3, <3>1, <3>2
  <2>4. CASE 3 * eax + 1 >= Modulus
    <3>1. eax' = 3 * eax + 1 - Modulus /\ eax' < eax
      BY <1>1, <2>1, <2>4, TripleFits DEF Odd
    <3>2. label' = "overflow"
      BY <1>1, <3>1 DEF Odd, Overflowed
    <3> QED BY <2>1, <2>2, <2>4, <3>1, <3>2
  <2> QED BY <2>1, <2>3, <2>4
<1>2. CASE Even
  <2>1. eax \in Nat /\ eax = term /\ eax > 0 /\ eax % 2 = 0
    BY <1>2 DEF Even
  <2>2. /\ eax' = eax \div 2 /\ term' = eax' /\ label' = "loop_1"
    BY <1>2, <2>1 DEF Even, C
  <2>3. eax' \in Nat /\ eax' > 0 /\ eax' < Half
    BY <2>1, <2>2
  <2> QED BY <2>2, <2>3
<1>3. CASE Loop_1
  BY <1>3 DEF Loop_1
<1>4. CASE Overflow
  BY <1>4 DEF Overflow
<1>5. CASE UNCHANGED vars
  BY <1>5 DEF vars
<1> QED BY <1>1, <1>2, <1>3, <1>4, <1>5 DEF Next

(* The invariant of t2.S: among others, an odd term is below half the range
   whenever it is about to be tripled. *)
THEOREM Inductive == Spec => []IInv
  BY InitInv, StepInv, PTL DEF Spec

(* t2.S prints 0 exactly when the next term of the sequence does not fit into
   the register, and no wrong term ever. *)
THEOREM ExactOverflow == Spec => []OverflowIsExact
<1>1. IInv => OverflowIsExact
  BY DEF IInv, OverflowIsExact
<1> QED BY <1>1, Inductive, PTL

-----------------------------------------------------------------------------
(* sem16_signals/race_condition *)

\* The store that is next and the words in memory tell which copy main is in
\* and how far it has got.
RacInv ==
  /\ memory \in [{"a", "b"} -> {0, 1}] /\ next \in Rac!Stores
  /\ next.word = "a" => memory["a"] = memory["b"]
  /\ next.word = "b" => memory["a"] = next.value
  /\ Rac!TornInsideACopy

(* Whenever the signal comes, the handler of race_condition prints two
   different words only from between the two stores of one copy, and then
   the first of them is the newer (race_condition.c:16-19, 36-39). *)
THEOREM TearsOnlyInsideACopy == Rac!Spec => []TornInsideACopy
<1>1. Rac!Init => RacInv
  BY DEF Rac!Init, RacInv, Rac!TornInsideACopy, Rac!Stores
<1>2. RacInv /\ [Rac!Next]_(Rac!vars) => RacInv'
  <2> SUFFICES ASSUME RacInv, [Rac!Next]_(Rac!vars) PROVE RacInv'
    OBVIOUS
  <2> USE DEF RacInv, Rac!TornInsideACopy
  <2>1. CASE Rac!Store
    <3>1. CASE next.word = "a"
      BY <2>1, <3>1 DEF Rac!Store, Rac!Stores
    <3>2. CASE next.word = "b"
      BY <2>1, <3>2 DEF Rac!Store, Rac!Stores
    <3> QED BY <3>1, <3>2 DEF Rac!Stores
  <2>2. CASE Rac!AlarmExpires
    BY <2>2 DEF Rac!AlarmExpires
  <2>3. CASE Rac!Handler
    BY <2>3 DEF Rac!Handler, Rac!Stores
  <2>4. CASE UNCHANGED Rac!vars
    BY <2>4 DEF Rac!vars
  <2> QED BY <2>1, <2>2, <2>3, <2>4 DEF Rac!Next
<1>3. RacInv => TornInsideACopy
  BY DEF TornInsideACopy, RacInv
<1> QED BY <1>1, <1>2, <1>3, PTL DEF Rac!Spec

-----------------------------------------------------------------------------
(* sem13_fork/parallel_op *)

\* The blocks of the children lie in the array one behind the other, and
\* leave out nothing below block_size * PROCESS_COUNT.
LEMMA ChildBlocks ==
  /\ POp!block_size \in Nat /\ POp!block_size * ProcessCount \in Nat
  /\ POp!block_size * ProcessCount <= ArrLen
  /\ \A b \in POp!Child :
       /\ POp!begin_block(b) \in Nat /\ POp!end_block(b) \in Nat
       /\ POp!begin_block(b) <= POp!end_block(b)
       /\ POp!end_block(b) <= POp!block_size * ProcessCount
  /\ \A b, d \in POp!Child : b < d => POp!end_block(b) <= POp!begin_block(d)
  /\ \A e \in Nat : e < POp!block_size * ProcessCount =>
       \E b \in POp!Child : POp!begin_block(b) <= e /\ e < POp!end_block(b)
<1>1. /\ POp!block_size \in Nat /\ POp!block_size * ProcessCount \in Nat
      /\ POp!block_size * ProcessCount <= ArrLen
  BY MCAssumption DEF POp!ConstantsOK, POp!block_size
<1>2. \A m, n \in Nat :
        /\ POp!block_size * m \in Nat
        /\ m <= n => POp!block_size * m <= POp!block_size * n
  BY <1>1
<1>3. \A b \in POp!Child : /\ b \in Nat /\ b + 1 \in Nat /\ b <= b + 1
                       /\ b + 1 <= ProcessCount /\ ProcessCount \in Nat
  BY MCAssumption DEF POp!ConstantsOK, POp!Child
<1>4. \A b, d \in POp!Child : b < d => b + 1 <= d
  BY <1>3
<1>5. ASSUME NEW e \in Nat, e < POp!block_size * ProcessCount
      PROVE  \E b \in POp!Child : POp!begin_block(b) <= e /\ e < POp!end_block(b)
  <2>1. POp!block_size # 0
    BY <1>1, <1>5, MCAssumption DEF POp!ConstantsOK
  <2>2. PICK b \in Nat : POp!block_size * b <= e /\ e < POp!block_size * (b + 1)
    <3>1. e \div POp!block_size \in Nat
      BY <1>1, <2>1
    <3>2. /\ POp!block_size * (e \div POp!block_size) <= e
          /\ e < POp!block_size * (e \div POp!block_size + 1)
      BY <1>1, <2>1, <3>1
    <3> QED BY <3>1, <3>2
  <2>3. b < ProcessCount
    BY <1>2, <1>5, <2>2, MCAssumption DEF POp!ConstantsOK
  <2> QED BY <2>2, <2>3, MCAssumption
          DEF POp!Child, POp!begin_block, POp!end_block, POp!ConstantsOK
<1> QED BY <1>1, <1>2, <1>3, <1>4, <1>5 DEF POp!begin_block, POp!end_block

\* The parent has forked child b.
IsForked(b) == IF parent = "print" THEN b <= i ELSE b < i

\* An element of a child's block is doubled exactly if the child exists and
\* its index is past the element; elements beyond the blocks are untouched.
OpInv ==
  /\ parent \in {"map", "fork", "print", "wait", "0", "1"}
  /\ i \in 0..ProcessCount /\ (parent = "print" => i < ProcessCount)
  /\ (parent = "map" => i = 0) /\ (parent \in {"wait", "0"} => i = ProcessCount)
  /\ child \in [POp!Child -> {"none", "running", "exited", "killed", "reaped"}]
  /\ index \in [POp!Child -> Int] /\ arr \in [POp!Element -> Nat]
  /\ \A b \in POp!Child :
       /\ child[b] # "none" <=> IsForked(b)
       /\ child[b] # "none" => POp!begin_block(b) <= index[b] /\ index[b] <= POp!end_block(b)
       /\ child[b] = "killed" => killed
       /\ child[b] \in {"exited", "reaped"} /\ ~killed => index[b] = POp!end_block(b)
       /\ parent = "0" => child[b] = "reaped"
       /\ \A e \in POp!Element : POp!begin_block(b) <= e /\ e < POp!end_block(b) =>
            arr[e] = IF child[b] # "none" /\ e < index[b] THEN 1 ELSE 0
  /\ \A e \in POp!Element : e >= POp!block_size * ProcessCount => arr[e] = 0

\* No child exists at first and no element is doubled.
LEMMA OpInitInv == POp!Init => OpInv
  BY MCAssumption, ChildBlocks DEF POp!Init, OpInv, IsForked, POp!Child, POp!ConstantsOK

\* Every step of the parent and of its children preserves the invariant.
LEMMA OpStepInv == OpInv /\ [POp!Next]_(POp!vars) => OpInv'
<1> SUFFICES ASSUME OpInv, [POp!Next]_(POp!vars) PROVE OpInv'
  OBVIOUS
<1> USE DEF OpInv
<1>0. /\ ProcessCount \in Nat \ {0} /\ ArrLen \in Nat
      /\ POp!Child \subseteq Nat /\ POp!Element \subseteq Nat
      /\ \A n \in Nat : n \in POp!Child <=> n < ProcessCount
      /\ \A n \in Nat : n \in POp!Element <=> n < ArrLen
  BY MCAssumption DEF POp!ConstantsOK, POp!Child, POp!Element
<1>1. CASE POp!Map
  BY <1>0, <1>1 DEF POp!Map, IsForked
<1>2. CASE POp!Fork
  <2>1. PICK d \in POp!Child : d = i
    BY <1>0, <1>2 DEF POp!Fork
  <2>2. /\ parent = "fork" /\ parent' = "print" /\ UNCHANGED <<i, arr, killed>>
        /\ child' = [child EXCEPT ![d] = "running"]
        /\ index' = [index EXCEPT ![d] = POp!begin_block(d)]
    BY <1>2, <2>1 DEF POp!Fork
  <2>3. \A e \in POp!Element : POp!begin_block(d) <= e /\ e < POp!end_block(d) => arr[e] = 0
    BY <1>0, <2>1, <2>2 DEF IsForked
  <2> QED BY <1>0, <2>1, <2>2, <2>3, ChildBlocks DEF IsForked
<1>3. CASE POp!ForkFails \/ POp!PrintRange \/ POp!AllForked
  BY <1>0, <1>3 DEF POp!ForkFails, POp!PrintRange, POp!AllForked, IsForked
<1>4. CASE POp!Wait
  BY <1>0, <1>4 DEF POp!Wait, IsForked
<1>5. ASSUME NEW d \in POp!Child, POp!Double(d) PROVE OpInv'
  <2>0. child[d] = "running" /\ index[d] # POp!end_block(d)
    BY <1>5 DEF POp!Double
  <2>1. /\ index[d] \in POp!Element /\ POp!begin_block(d) <= index[d]
        /\ index[d] < POp!end_block(d)
    <3>1. /\ POp!begin_block(d) \in Nat /\ POp!end_block(d) \in Nat
          /\ POp!end_block(d) <= ArrLen
      BY <1>0, ChildBlocks
    <3>2. index[d] \in Int /\ POp!begin_block(d) <= index[d] /\ index[d] <= POp!end_block(d)
      BY <2>0
    <3> QED BY <1>0, <2>0, <3>1, <3>2
  <2>2. PICK x \in POp!Element : x = index[d] /\ arr' = [arr EXCEPT ![x] = @ + 1]
    BY <1>5, <2>1 DEF POp!Double
  <2>3. /\ index' = [index EXCEPT ![d] = @ + 1] /\ UNCHANGED <<parent, i, child, killed>>
    BY <1>5 DEF POp!Double
  <2>4. \A b \in POp!Child : b # d => ~(POp!begin_block(b) <= x /\ x < POp!end_block(b))
    BY <1>0, <2>1, <2>2, ChildBlocks
  <2>5. x < POp!block_size * ProcessCount
    BY <1>0, <2>1, <2>2, ChildBlocks
  <2>6. /\ arr' \in [POp!Element -> Nat] /\ arr'[x] = 1
        /\ \A e \in POp!Element : e # x => arr'[e] = arr[e]
    BY <1>0, <2>1, <2>2
  <2>7. /\ index'[d] = x + 1 /\ index' \in [POp!Child -> Int]
        /\ \A b \in POp!Child : b # d => index'[b] = index[b]
    BY <2>2, <2>3
  <2>8. \A b \in POp!Child : \A e \in POp!Element :
          POp!begin_block(b) <= e /\ e < POp!end_block(b) =>
          arr'[e] = IF child[b] # "none" /\ e < index'[b] THEN 1 ELSE 0
    <3>1. TAKE b \in POp!Child
    <3>2. CASE b = d
      BY <1>0, <2>0, <2>1, <2>2, <2>6, <2>7, <3>2
    <3>3. CASE b # d
      BY <1>0, <2>4, <2>6, <2>7, <3>3
    <3> QED BY <3>2, <3>3
  <2>9. \A b \in POp!Child : child[b] # "none" =>
          POp!begin_block(b) <= index'[b] /\ index'[b] <= POp!end_block(b)
    <3>1. POp!begin_block(d) \in Nat /\ POp!end_block(d) \in Nat
      BY ChildBlocks
    <3> QED BY <1>0, <2>1, <2>2, <2>7, <3>1
  <2>10. \A b \in POp!Child :
           child[b] \in {"exited", "reaped"} /\ ~killed => index'[b] = POp!end_block(b)
    BY <2>0, <2>7
  <2>11. \A e \in POp!Element : e >= POp!block_size * ProcessCount => arr'[e] = 0
    BY <1>0, <2>2, <2>5, <2>6, ChildBlocks
  <2>12. \A b \in POp!Child : IsForked(b)' <=> IsForked(b)
    BY <2>3 DEF IsForked
  <2> QED BY <2>3, <2>6, <2>7, <2>8, <2>9, <2>10, <2>11, <2>12
<1>6. ASSUME NEW d \in POp!Child, POp!Return(d) PROVE OpInv'
  BY <1>0, <1>6 DEF POp!Return, IsForked
<1>7. ASSUME NEW d \in POp!Child, POp!Killed(d) PROVE OpInv'
  BY <1>0, <1>7 DEF POp!Killed, IsForked
<1>8. CASE UNCHANGED POp!vars
  BY <1>8 DEF POp!vars, IsForked
<1> QED BY <1>1, <1>2, <1>3, <1>4, <1>5, <1>6, <1>7, <1>8 DEF POp!Next

(* For any length of the array and any number of processes: when the parent
   of parallel_op returns 0 and no child was killed, every element of every
   block has been doubled once, and what the division leaves over not at
   all (parallel_op.c:47-70). *)
THEOREM ElementsAreDoubledOnce == POp!Spec => []DoubledOnce
<1>1. OpInv => DoubledOnce
  BY MCAssumption, ChildBlocks
  DEF DoubledOnce, OpInv, POp!DoubledOnce, POp!Element, POp!ConstantsOK
<1> QED BY <1>1, OpInitInv, OpStepInv, PTL DEF POp!Spec

\* The copy h of stdout holds byte b.
Holds(h, b) == h.from <= b /\ b < h.to

\* The children that have written out their copy of stdout.
Ended == {d \in POp!Child : child[d] \in {"exited", "reaped"}}
\* Those of them that had inherited byte b.
Heirs(b) == {d \in Ended : POp!IsInherited(b, d)}

\* What is printed before the fork of child n and has not been written out
\* begins where a buffer does, and is no longer than one.
IsWindow(h, n) ==
  /\ h.to = LineLen * n
  /\ \E m \in Nat : h.from = StdoutSize * m
  /\ h.from <= h.to /\ h.to <= h.from + StdoutSize
  /\ h.from < h.to \/ h.to = 0

(* Elsewhere than on a terminal the parent holds the bytes of the last buffer,
   a running child those the parent held at the fork, and each byte has come
   out once for each child that had inherited it and has ended, and once if
   the parent has written it out. *)
OutInv ==
  /\ held \in [POp!Child \cup {POp!Parent} -> [from : Nat, to : Nat]]
  /\ shown \in [POp!LineByte -> Nat]
  /\ terminal =>
       /\ \A p \in POp!Child \cup {POp!Parent} : held[p].from = 0 /\ held[p].to = 0
       /\ \A b \in POp!LineByte : shown[b] = IF b < LineLen * i THEN 1 ELSE 0
  /\ ~terminal =>
       /\ parent \notin {"0", "1"} => IsWindow(held[POp!Parent], i)
       /\ parent \in {"0", "1"} => LineLen * i <= held[POp!Parent].from
       /\ \A d \in POp!Child : child[d] = "running" =>
            \A b \in POp!LineByte : Holds(held[d], b) <=> POp!IsInherited(b, d)
       /\ ~killed => \A b \in POp!LineByte :
            shown[b] = Cardinality(Heirs(b)) + (IF b < held[POp!Parent].from THEN 1 ELSE 0)

\* The constants, and the bytes printed before each line.
LEMMA LinesLie ==
  /\ StdoutSize \in Nat \ {0} /\ LineLen \in Nat \ {0} /\ LineLen <= StdoutSize
  /\ POp!LineByte \subseteq Nat
  /\ \A n \in Nat : LineLen * n \in Nat /\ LineLen * (n + 1) = LineLen * n + LineLen
  /\ \A n \in 0..ProcessCount : LineLen * n <= LineLen * ProcessCount
<1>1. StdoutSize \in Nat \ {0} /\ LineLen \in Nat \ {0} /\ LineLen <= StdoutSize
      /\ ProcessCount \in Nat \ {0}
  BY MCAssumption DEF POp!ConstantsOK
<1>2. \A m, n \in Nat : m <= n => LineLen * m <= LineLen * n
  BY <1>1
<1>3. \A n \in Nat : LineLen * n \in Nat /\ LineLen * (n + 1) = LineLen * n + LineLen
  BY <1>1
<1>4. POp!LineByte \subseteq Nat
  BY <1>1, <1>3 DEF POp!LineByte
<1> QED BY <1>1, <1>2, <1>3, <1>4

\* The bytes of the last buffer are those that a child forked now inherits.
LEMMA WindowIsInherited ==
  ASSUME NEW h \in [from : Nat, to : Nat], NEW n \in Nat, IsWindow(h, n), NEW b \in Nat
  PROVE  Holds(h, b) <=> POp!IsInherited(b, n)
<1>1. PICK m \in Nat : h.from = StdoutSize * m
  BY DEF IsWindow
<1>2. PICK f \in Nat, t \in Nat : f = h.from /\ t = h.to
  OBVIOUS
<1>3. PICK q \in Nat : q = b \div StdoutSize
                       /\ StdoutSize * q <= b /\ b < StdoutSize * q + StdoutSize
  <2>1. StdoutSize \in Nat \ {0}
    BY LinesLie
  <2>2. b \div StdoutSize \in Nat
    BY <2>1
  <2>3. /\ StdoutSize * (b \div StdoutSize) <= b
        /\ b < StdoutSize * (b \div StdoutSize) + StdoutSize
    BY <2>1, <2>2
  <2> QED BY <2>2, <2>3
<1>4. PICK x \in Nat : x = StdoutSize * q /\ StdoutSize * (q + 1) = x + StdoutSize
  BY LinesLie
<1>5. /\ q >= m => x >= f
      /\ q < m => x + StdoutSize <= f
  <2>1. \A j, k \in Nat : j <= k => StdoutSize * j <= StdoutSize * k
    BY LinesLie
  <2>2. CASE q >= m
    BY <1>1, <1>2, <1>4, <2>1, <2>2
  <2>3. CASE q < m
    <3>1. StdoutSize * (q + 1) <= StdoutSize * m
      BY <2>1, <2>3
    <3> QED BY <1>1, <1>2, <1>4, <2>3, <3>1
  <2> QED BY <2>2, <2>3
<1>6. t = LineLen * n /\ f <= t /\ t <= f + StdoutSize /\ (f < t \/ t = 0)
  BY <1>2 DEF IsWindow
<1>7. x <= b /\ b < x + StdoutSize /\ StdoutSize \in Nat
  BY <1>3, <1>4, LinesLie
<1>8. (f <= b /\ b < t) <=> (b < t /\ t <= x + StdoutSize)
  BY <1>5, <1>6, <1>7
<1>9. POp!IsInherited(b, n) <=> (b < t /\ t <= x + StdoutSize)
  BY <1>3, <1>4, <1>6 DEF POp!IsInherited
<1> QED BY <1>2, <1>8, <1>9 DEF Holds

\* The heirs of a byte can be counted.
LEMMA HeirsFinite ==
  ASSUME NEW b
  PROVE  IsFiniteSet(Heirs(b)) /\ Cardinality(Heirs(b)) \in Nat
<1>1. IsFiniteSet(POp!Child)
  BY FS_Interval, MCAssumption DEF POp!ConstantsOK, POp!Child
<1>2. Heirs(b) \subseteq POp!Child
  BY DEF Heirs, Ended
<1> QED BY <1>1, <1>2, FS_Subset, FS_CardinalityType

\* When child q ends, the bytes it has inherited come out once more.
LEMMA HeirsGrow ==
  ASSUME NEW q \in POp!Child, q \notin Ended, Ended' = Ended \cup {q}, NEW b
  PROVE  Cardinality(Heirs(b)') =
           Cardinality(Heirs(b)) + (IF POp!IsInherited(b, q) THEN 1 ELSE 0)
<1>1. CASE POp!IsInherited(b, q)
  <2>1. Heirs(b)' = Heirs(b) \cup {q} /\ q \notin Heirs(b)
    BY <1>1 DEF Heirs, POp!IsInherited
  <2> QED BY <1>1, <2>1, HeirsFinite, FS_AddElement
<1>2. CASE ~POp!IsInherited(b, q)
  <2>1. Heirs(b)' = Heirs(b)
    BY <1>2 DEF Heirs, POp!IsInherited
  <2> QED BY <1>2, <2>1, HeirsFinite
<1> QED BY <1>1, <1>2

\* No byte has been printed at first.
LEMMA OutInitInv == POp!Init => OutInv
<1> SUFFICES ASSUME POp!Init PROVE OutInv
  OBVIOUS
<1>1. /\ held = [p \in POp!Child \cup {POp!Parent} |-> [from |-> 0, to |-> 0]]
      /\ shown = [b \in POp!LineByte |-> 0] /\ i = 0 /\ parent = "map"
      /\ \A d \in POp!Child : child[d] = "none"
  BY DEF POp!Init
<1>2. \A b : Cardinality(Heirs(b)) = 0
  <2>1. \A b : Heirs(b) = {}
    BY <1>1 DEF Heirs, Ended
  <2> QED BY <2>1, FS_EmptySet
<1>3. LineLen * 0 = 0 /\ StdoutSize * 0 = 0 /\ StdoutSize \in Nat
  BY LinesLie
<1>4. IsWindow(held[POp!Parent], i)
  BY <1>1, <1>3 DEF IsWindow
<1>5. \A b \in POp!LineByte : b \in Nat
  BY LinesLie
<1> QED BY <1>1, <1>2, <1>3, <1>4, <1>5 DEF OutInv

\* A step that touches no copy of stdout and ends no child.
LEMMA OutUntouched ==
  ASSUME OutInv, UNCHANGED <<i, terminal, held, shown, killed>>,
         parent' \notin {"0", "1"} => parent \notin {"0", "1"},
         parent' \in {"0", "1"} => parent \in {"0", "1"} \/ i = 0,
         ~killed => Ended' = Ended,
         \A d \in POp!Child : child'[d] = "running" => child[d] = "running"
  PROVE  OutInv'
<1>1. ~killed => \A b : Heirs(b)' = Heirs(b)
  BY DEF Heirs, POp!IsInherited
<1>2. ~terminal /\ parent' \in {"0", "1"} => LineLen * i <= held[POp!Parent].from
  <2>1. LineLen * 0 = 0 /\ held[POp!Parent].from \in Nat
    BY LinesLie DEF OutInv
  <2> QED BY <2>1 DEF OutInv
<1> QED BY <1>1, <1>2 DEF OutInv, IsWindow, Holds, POp!IsInherited

\* The parent ends: what it holds comes out.
LEMMA ParentFlushes ==
  ASSUME OpInv, OutInv, POp!Flush(POp!Parent), UNCHANGED <<i, child, terminal, killed>>,
         parent \notin {"0", "1"}, parent' \in {"0", "1"}
  PROVE  OutInv'
<1>1. PICK f \in Nat, t \in Nat : held[POp!Parent] = [from |-> f, to |-> t]
  BY DEF OutInv
<1>2. /\ shown' = [b \in POp!LineByte |-> shown[b] + (IF f <= b /\ b < t THEN 1 ELSE 0)]
      /\ held' = [held EXCEPT ![POp!Parent].from = t]
  BY <1>1 DEF POp!Flush, POp!Show
<1>3. /\ held' \in [POp!Child \cup {POp!Parent} -> [from : Nat, to : Nat]]
      /\ held'[POp!Parent].from = t /\ held'[POp!Parent].to = t
      /\ \A p \in POp!Child : p # POp!Parent => held'[p] = held[p]
  BY <1>1, <1>2 DEF OutInv
<1>4. POp!Parent \notin POp!Child
  BY MCAssumption DEF POp!Parent, POp!Child, POp!ConstantsOK
<1>5. shown' \in [POp!LineByte -> Nat]
  BY <1>2 DEF OutInv
<1>6. \A b : Heirs(b)' = Heirs(b)
  BY DEF Heirs, Ended, POp!IsInherited
<1>7. CASE terminal
  <2>1. f = 0 /\ t = 0
    BY <1>1, <1>7 DEF OutInv
  <2>2. \A b \in POp!LineByte : shown'[b] = shown[b]
    BY <1>2, <2>1, LinesLie DEF OutInv
  <2> QED BY <1>3, <1>4, <1>5, <1>7, <2>1, <2>2 DEF OutInv
<1>8. CASE ~terminal
  <2>1. t = LineLen * i /\ f <= t
    BY <1>1, <1>8 DEF OutInv, IsWindow
  <2>2. ~killed => \A b \in POp!LineByte :
          shown'[b] = Cardinality(Heirs(b)) + (IF b < t THEN 1 ELSE 0)
    <3> SUFFICES ASSUME ~killed, NEW b \in POp!LineByte
                 PROVE  shown'[b] = Cardinality(Heirs(b)) + (IF b < t THEN 1 ELSE 0)
      OBVIOUS
    <3>1. /\ shown[b] = Cardinality(Heirs(b)) + (IF b < f THEN 1 ELSE 0)
          /\ shown'[b] = shown[b] + (IF f <= b /\ b < t THEN 1 ELSE 0)
      BY <1>1, <1>2, <1>8 DEF OutInv
    <3>2. b \in Nat /\ Cardinality(Heirs(b)) \in Nat
      BY HeirsFinite, LinesLie
    <3> QED BY <2>1, <3>1, <3>2
  <2>3. \A d \in POp!Child : child'[d] = "running" =>
          \A b \in POp!LineByte : Holds(held'[d], b) <=> POp!IsInherited(b, d)
    BY <1>3, <1>4, <1>8 DEF OutInv
  <2>4. LineLen * i <= t
    BY <2>1
  <2> QED BY <1>3, <1>5, <1>6, <1>8, <2>2, <2>3, <2>4 DEF OutInv, Holds, POp!IsInherited
<1> QED BY <1>7, <1>8

\* fork copies what the parent holds, the exit of a process writes out what it
\* holds, a full buffer is written out by the parent, and nothing else moves a
\* byte.
LEMMA OutStepInv == OpInv /\ OutInv /\ [POp!Next]_(POp!vars) => OutInv'
<1> SUFFICES ASSUME OpInv, OutInv, [POp!Next]_(POp!vars) PROVE OutInv'
  OBVIOUS
<1>0. /\ ProcessCount \in Nat \ {0} /\ POp!Child \subseteq Nat /\ i \in Nat
      /\ \A n \in Nat : n \in POp!Child <=> n < ProcessCount
      /\ POp!Parent = ProcessCount /\ POp!Parent \notin POp!Child
  BY MCAssumption DEF POp!ConstantsOK, POp!Child, POp!Parent, OpInv
<1>h. /\ held \in [POp!Child \cup {POp!Parent} -> [from : Nat, to : Nat]]
      /\ shown \in [POp!LineByte -> Nat]
  BY DEF OutInv
<1>1. CASE POp!Map
  <2>1. i = 0 /\ UNCHANGED <<i, child, terminal, held, shown, killed>> /\ parent = "map"
    BY <1>1 DEF POp!Map, OpInv
  <2>2. Ended' = Ended
    BY <2>1 DEF Ended
  <2> QED BY <2>1, <2>2, OutUntouched
<1>2. CASE POp!Fork
  <2>1. PICK d \in POp!Child : d = i
    BY <1>0, <1>2 DEF POp!Fork
  <2>2. /\ parent = "fork" /\ parent' = "print" /\ UNCHANGED <<i, terminal, shown, killed>>
        /\ child' = [child EXCEPT ![d] = "running"]
        /\ held' = [held EXCEPT ![d] = held[POp!Parent]]
    BY <1>2, <2>1 DEF POp!Fork
  <2>3. child[d] = "none"
    BY <1>0, <2>1, <2>2 DEF OpInv, IsForked
  <2>4. Ended' = Ended
    BY <2>2, <2>3 DEF Ended, OpInv
  <2>5. \A b : Heirs(b)' = Heirs(b)
    BY <2>4 DEF Heirs, POp!IsInherited
  <2>6. /\ held' \in [POp!Child \cup {POp!Parent} -> [from : Nat, to : Nat]]
        /\ held'[d] = held[POp!Parent] /\ held'[POp!Parent] = held[POp!Parent]
        /\ \A p \in POp!Child : p # d => held'[p] = held[p]
    BY <1>0, <1>h, <2>2
  <2>7. \A p \in POp!Child : p # d => child'[p] = child[p]
    BY <2>2 DEF OpInv
  <2>8. CASE terminal
    BY <2>2, <2>6, <2>8 DEF OutInv
  <2>9. CASE ~terminal
    <3>1. IsWindow(held[POp!Parent], d)
      BY <2>1, <2>2, <2>9 DEF OutInv
    <3>2. \A b \in POp!LineByte : Holds(held'[d], b) <=> POp!IsInherited(b, d)
      BY <1>0, <1>h, <2>6, <3>1, WindowIsInherited, LinesLie
    <3>3. \A p \in POp!Child : child'[p] = "running" =>
            \A b \in POp!LineByte : Holds(held'[p], b) <=> POp!IsInherited(b, p)
      BY <2>6, <2>7, <2>9, <3>2 DEF OutInv
    <3> QED BY <1>h, <2>1, <2>2, <2>5, <2>6, <2>9, <3>1, <3>3
            DEF OutInv, IsWindow, Holds, POp!IsInherited
  <2> QED BY <2>8, <2>9
<1>3. CASE POp!ForkFails
  BY <1>3, ParentFlushes DEF POp!ForkFails
<1>4. CASE POp!PrintRange
  <2>1. PICK f \in Nat, t \in Nat : held[POp!Parent] = [from |-> f, to |-> t]
    BY <1>h
  <2>2. PICK x \in Nat : x = LineLen * i /\ LineLen * (i + 1) = x + LineLen
    BY <1>0, LinesLie
  <2>3. /\ parent = "print" /\ parent' = "fork" /\ i' = i + 1
        /\ UNCHANGED <<child, terminal, killed>>
    BY <1>4 DEF POp!PrintRange
  <2>4. /\ LineLen * i' = x + LineLen
        /\ LineLen \in Nat \ {0} /\ StdoutSize \in Nat /\ LineLen <= StdoutSize
    BY <2>2, <2>3, LinesLie
  <2>5. \A b : Heirs(b)' = Heirs(b)
    BY <2>3 DEF Heirs, Ended, POp!IsInherited
  <2>6. CASE /\ terminal /\ UNCHANGED held
             /\ shown' = [b \in POp!LineByte |->
                            shown[b] + (IF x <= b /\ b < x + LineLen THEN 1 ELSE 0)]
    <3>1. shown' \in [POp!LineByte -> Nat]
      BY <1>h, <2>6
    <3>2. \A b \in POp!LineByte : shown'[b] = IF b < LineLen * i' THEN 1 ELSE 0
      <4> TAKE b \in POp!LineByte
      <4>1. /\ shown[b] = IF b < x THEN 1 ELSE 0
            /\ shown'[b] = shown[b] + (IF x <= b /\ b < x + LineLen THEN 1 ELSE 0)
        BY <2>2, <2>6 DEF OutInv
      <4>2. b \in Nat
        BY LinesLie
      <4> QED BY <2>4, <4>1, <4>2
    <3> QED BY <1>h, <2>3, <2>6, <3>1, <3>2 DEF OutInv
  <2>7. ASSUME ~terminal, NEW nf \in Nat,
               held' = [held EXCEPT ![POp!Parent] = [from |-> nf, to |-> x + LineLen]],
               \/ nf = f /\ x + LineLen <= f + StdoutSize /\ shown' = shown
               \/ /\ nf = f + StdoutSize /\ x + LineLen > nf
                  /\ shown' = [b \in POp!LineByte |->
                                 shown[b] + (IF f <= b /\ b < nf THEN 1 ELSE 0)]
        PROVE  OutInv'
    <3>1. PICK m \in Nat : f = StdoutSize * m
      BY <2>1, <2>3, <2>7 DEF OutInv, IsWindow
    <3>2. t = x /\ f <= t /\ t <= f + StdoutSize
      BY <2>1, <2>2, <2>3, <2>7 DEF OutInv, IsWindow
    <3>3. /\ held' \in [POp!Child \cup {POp!Parent} -> [from : Nat, to : Nat]]
          /\ held'[POp!Parent].from = nf /\ held'[POp!Parent].to = x + LineLen
          /\ \A p \in POp!Child : held'[p] = held[p]
      BY <1>0, <1>h, <2>4, <2>7
    <3>4. \E k \in Nat : nf = StdoutSize * k
      <4>1. StdoutSize * (m + 1) = StdoutSize * m + StdoutSize /\ m + 1 \in Nat
        BY <2>4
      <4> QED BY <2>7, <3>1, <4>1
    <3>5. nf < x + LineLen /\ x + LineLen <= nf + StdoutSize
      BY <2>4, <2>7, <3>2
    <3>6. IsWindow(held'[POp!Parent], i')
      BY <2>4, <3>3, <3>4, <3>5 DEF IsWindow
    <3>7. shown' \in [POp!LineByte -> Nat]
      BY <1>h, <2>7
    <3>8. ~killed => \A b \in POp!LineByte :
            shown'[b] = Cardinality(Heirs(b)) + (IF b < nf THEN 1 ELSE 0)
      <4> SUFFICES ASSUME ~killed, NEW b \in POp!LineByte
                   PROVE  shown'[b] = Cardinality(Heirs(b)) + (IF b < nf THEN 1 ELSE 0)
        OBVIOUS
      <4>1. shown[b] = Cardinality(Heirs(b)) + (IF b < f THEN 1 ELSE 0)
        BY <2>1, <2>7 DEF OutInv
      <4>2. b \in Nat /\ Cardinality(Heirs(b)) \in Nat
        BY HeirsFinite, LinesLie
      <4>3. CASE nf = f /\ shown' = shown
        BY <4>1, <4>3
      <4>4. CASE nf = f + StdoutSize
                 /\ shown'[b] = shown[b] + (IF f <= b /\ b < nf THEN 1 ELSE 0)
        BY <2>4, <4>1, <4>2, <4>4
      <4> QED BY <2>7, <4>3, <4>4
    <3>9. \A d \in POp!Child : child'[d] = "running" =>
            \A b \in POp!LineByte : Holds(held'[d], b) <=> POp!IsInherited(b, d)
      BY <2>3, <2>7, <3>3 DEF OutInv
    <3> QED BY <2>3, <2>5, <2>7, <3>3, <3>6, <3>7, <3>8, <3>9
            DEF OutInv, IsWindow, Holds, POp!IsInherited
  <2>8. CASE ~terminal /\ x + LineLen <= f + StdoutSize
    <3>1. held' = [held EXCEPT ![POp!Parent].to = x + LineLen] /\ shown' = shown
      <4>1. held[POp!Parent].from = f
        BY <2>1
      <4>2. ~(x + LineLen > f + StdoutSize)
        BY <2>4, <2>8
      <4> QED BY <1>4, <2>2, <2>8, <4>1, <4>2 DEF POp!PrintRange
    <3>2. [held[POp!Parent] EXCEPT !.to = x + LineLen] = [from |-> f, to |-> x + LineLen]
      BY <2>1
    <3>3. held' = [held EXCEPT ![POp!Parent] = [held[POp!Parent] EXCEPT !.to = x + LineLen]]
      BY <3>1
    <3>4. held' = [held EXCEPT ![POp!Parent] = [from |-> f, to |-> x + LineLen]]
      BY Zenon, <3>2, <3>3
    <3> QED BY <2>7, <2>8, <3>1, <3>4
  <2>9. CASE ~terminal /\ x + LineLen > f + StdoutSize
    <3>1. /\ held' = [held EXCEPT ![POp!Parent] =
                        [from |-> f + StdoutSize, to |-> x + LineLen]]
          /\ shown' = [b \in POp!LineByte |->
                         shown[b] + (IF f <= b /\ b < f + StdoutSize THEN 1 ELSE 0)]
      BY <1>4, <2>1, <2>2, <2>4, <2>9 DEF POp!PrintRange, POp!Show
    <3>2. f + StdoutSize \in Nat
      BY <2>4
    <3> QED BY <2>7, <2>9, <3>1, <3>2
  <2>10. CASE terminal
    BY <1>4, <2>2, <2>6, <2>10 DEF POp!PrintRange, POp!Show
  <2>11. x + LineLen <= f + StdoutSize \/ x + LineLen > f + StdoutSize
    BY <2>4
  <2> QED BY <2>8, <2>9, <2>10, <2>11
<1>5. CASE POp!AllForked
  <2>1. /\ Ended' = Ended /\ UNCHANGED <<i, child, terminal, held, shown, killed>>
        /\ parent = "fork" /\ parent' = "wait"
    BY <1>5 DEF POp!AllForked, Ended
  <2> QED BY <2>1, OutUntouched
<1>6. CASE POp!Wait
  <2>1. CASE \E b \in POp!Child :
           /\ child[b] \in {"exited", "killed"}
           /\ child' = [child EXCEPT ![b] = "reaped"]
           /\ UNCHANGED <<parent, held, shown>>
    <3>1. UNCHANGED <<i, terminal, parent, held, shown, killed>>
      BY <1>6, <2>1 DEF POp!Wait
    <3>2. PICK d \in POp!Child :
            child[d] \in {"exited", "killed"} /\ child' = [child EXCEPT ![d] = "reaped"]
      BY <2>1
    <3>3. ~killed => Ended' = Ended
      BY <3>1, <3>2 DEF Ended, OpInv
    <3>4. \A b \in POp!Child : child'[b] = "running" => child[b] = "running"
      BY <3>2 DEF OpInv
    <3> QED BY <3>1, <3>3, <3>4, OutUntouched
  <2>2. CASE parent' = "0" /\ POp!Flush(POp!Parent) /\ UNCHANGED child
    <3>1. parent = "wait" /\ UNCHANGED <<i, child, terminal, killed>>
      BY <1>6, <2>2 DEF POp!Wait
    <3> QED BY <2>2, <3>1, ParentFlushes
  <2> QED BY <1>6, <2>1, <2>2 DEF POp!Wait
<1>7. ASSUME NEW d \in POp!Child, POp!Double(d) PROVE OutInv'
  <2>1. Ended' = Ended /\ UNCHANGED <<parent, i, child, terminal, held, shown, killed>>
    BY <1>7 DEF POp!Double, Ended
  <2> QED BY <2>1, OutUntouched
<1>8. ASSUME NEW d \in POp!Child, POp!Return(d) PROVE OutInv'
  <2>1. PICK f \in Nat, t \in Nat : held[d] = [from |-> f, to |-> t]
    BY <1>h
  <2>2. /\ child[d] = "running" /\ UNCHANGED <<parent, i, terminal, killed>>
        /\ child' = [child EXCEPT ![d] = "exited"]
        /\ held' = [held EXCEPT ![d].from = t]
        /\ shown' = [b \in POp!LineByte |-> shown[b] + (IF f <= b /\ b < t THEN 1 ELSE 0)]
    BY <1>8, <2>1 DEF POp!Return, POp!Flush, POp!Show
  <2>3. /\ d \notin Ended /\ Ended' = Ended \cup {d}
        /\ \A p \in POp!Child : child'[p] = "running" => p # d /\ child[p] = "running"
    BY <2>2 DEF Ended, OpInv
  <2>4. /\ held' \in [POp!Child \cup {POp!Parent} -> [from : Nat, to : Nat]]
        /\ held'[d].from = t /\ held'[d].to = t /\ held'[POp!Parent] = held[POp!Parent]
        /\ \A p \in POp!Child : p # d => held'[p] = held[p]
    BY <1>0, <1>h, <2>1, <2>2
  <2>5. shown' \in [POp!LineByte -> Nat]
    BY <1>h, <2>2
  <2>6. CASE terminal
    <3>1. f = 0 /\ t = 0
      BY <2>1, <2>6 DEF OutInv
    <3>2. \A b \in POp!LineByte : shown'[b] = shown[b]
      BY <1>h, <2>2, <3>1, LinesLie
    <3>3. \A p \in POp!Child \cup {POp!Parent} : held'[p].from = 0 /\ held'[p].to = 0
      BY <2>4, <2>6, <3>1 DEF OutInv
    <3> QED BY <2>2, <2>4, <2>5, <2>6, <3>2, <3>3 DEF OutInv
  <2>7. CASE ~terminal
    <3>1. ~killed => \A b \in POp!LineByte :
            shown'[b] = Cardinality(Heirs(b)') + (IF b < held[POp!Parent].from THEN 1 ELSE 0)
      <4> SUFFICES ASSUME ~killed, NEW b \in POp!LineByte
                   PROVE  shown'[b] = Cardinality(Heirs(b)')
                            + (IF b < held[POp!Parent].from THEN 1 ELSE 0)
        OBVIOUS
      <4>1. shown[b] = Cardinality(Heirs(b)) + (IF b < held[POp!Parent].from THEN 1 ELSE 0)
        BY <2>7 DEF OutInv
      <4>2. (f <= b /\ b < t) <=> POp!IsInherited(b, d)
        BY <2>1, <2>2, <2>7 DEF OutInv, Holds
      <4>3. shown'[b] = shown[b] + (IF POp!IsInherited(b, d) THEN 1 ELSE 0)
        BY <2>2, <4>2
      <4>4. Cardinality(Heirs(b)') =
              Cardinality(Heirs(b)) + (IF POp!IsInherited(b, d) THEN 1 ELSE 0)
        BY <2>3, HeirsGrow
      <4>5. Cardinality(Heirs(b)) \in Nat
        BY HeirsFinite
      <4> QED BY <4>1, <4>3, <4>4, <4>5
    <3>2. \A p \in POp!Child : child'[p] = "running" =>
            \A b \in POp!LineByte : Holds(held'[p], b) <=> POp!IsInherited(b, p)
      BY <2>3, <2>4, <2>7 DEF OutInv
    <3> QED BY <2>2, <2>4, <2>5, <2>7, <3>1, <3>2 DEF OutInv, IsWindow, Holds, POp!IsInherited
  <2> QED BY <2>6, <2>7
<1>9. ASSUME NEW d \in POp!Child, POp!Killed(d) PROVE OutInv'
  <2>1. /\ UNCHANGED <<parent, i, terminal, held, shown>> /\ killed' = TRUE
        /\ \A p \in POp!Child : child'[p] = "running" => child[p] = "running"
    BY <1>9 DEF POp!Killed, OpInv
  <2> QED BY <2>1 DEF OutInv, IsWindow, Holds, POp!IsInherited
<1>10. CASE UNCHANGED POp!vars
  <2>1. Ended' = Ended /\ UNCHANGED <<parent, i, child, terminal, held, shown, killed>>
    BY <1>10 DEF POp!vars, Ended
  <2> QED BY <2>1, OutUntouched
<1> QED BY <1>1, <1>2, <1>3, <1>4, <1>5, <1>6, <1>7, <1>8, <1>9, <1>10 DEF POp!Next

\* The cardinality in the instances is the cardinality of sets.
LEMMA SameCardinality ==
  \A S : /\ POp!Cardinality(S) = Cardinality(S) /\ Str!Cardinality(S) = Cardinality(S)
         /\ Sma!Cardinality(S) = Cardinality(S)
  BY Zenon DEF POp!Cardinality, Str!Cardinality, Sma!Cardinality, Cardinality

(* For any number of processes, any length of the lines and any size of
   stdout's buffer that holds a line: a byte that the parent of parallel_op
   prints comes out once on a terminal, and elsewhere once more for every
   child forked between its printf and the write of the buffer it is in
   (parallel_op.c:48-70). *)
THEOREM OutputLeavesWithEveryExit == POp!Spec => []OutputIsInherited
<1>1. ASSUME OpInv, OutInv PROVE OutputIsInherited
  <2> DEFINE Inheriting(b) == {d \in POp!Child : child[d] # "none" /\ POp!IsInherited(b, d)}
  <2> SUFFICES ASSUME parent \in {"0", "1"}, ~killed, \A b \in POp!Child : child[b] # "running",
                      NEW b \in 0..(LineLen * i - 1)
               PROVE  shown[b] = 1 + (IF terminal THEN 0 ELSE Cardinality(Inheriting(b)))
    BY Zenon, SameCardinality DEF OutputIsInherited, POp!OutputIsInherited
  <2>1. b \in POp!LineByte /\ b < LineLen * i /\ b \in Nat
    <3>1. i \in 0..ProcessCount /\ i \in Nat /\ ProcessCount \in Nat
      BY <1>1, MCAssumption DEF OpInv, POp!ConstantsOK
    <3>2. LineLen * i \in Nat /\ LineLen * ProcessCount \in Nat
          /\ LineLen * i <= LineLen * ProcessCount
      BY <3>1, LinesLie
    <3> QED BY <3>2 DEF POp!LineByte
  <2>2. CASE terminal
    BY <1>1, <2>1, <2>2 DEF OutInv
  <2>3. CASE ~terminal
    <3>1. Heirs(b) = Inheriting(b)
      BY <1>1 DEF Heirs, Ended, OpInv
    <3>2. b < held[POp!Parent].from
      <4>1. PICK f \in Nat : f = held[POp!Parent].from /\ LineLen * i <= f
        BY <1>1, <2>3 DEF OutInv
      <4>2. LineLen * i \in Nat
        BY <1>1, LinesLie DEF OpInv
      <4> QED BY <2>1, <4>1, <4>2
    <3>3. shown[b] = Cardinality(Heirs(b)) + 1 /\ Cardinality(Heirs(b)) \in Nat
      BY <1>1, <2>1, <2>3, <3>2, HeirsFinite DEF OutInv
    <3> QED BY <2>3, <3>1, <3>3
  <2> QED BY <2>2, <2>3
<1>2. OpInv /\ OutInv => OutputIsInherited
  BY <1>1
<1> QED BY <1>2, OpInitInv, OpStepInv, OutInitInv, OutStepInv, PTL DEF POp!Spec

-----------------------------------------------------------------------------
(* sem13_fork/fork_wait and sem14_exec *)

\* What a child that has exited passed to exit, and that nothing is reported
\* before the parent ends.
CStInv ==
  /\ source \in {"fork_wait", "exec"}
  /\ progress \in {"begin", "fork"} => kid = "none"
  /\ progress # "ended" => report = -1
  /\ progress = "ended" => kid \notin {"forked", "executing"}
  /\ kid = "exited" => wanted \in Int /\ kidStatus = wanted % 256
  /\ CSt!SuccessIsReported

(* A parent that returns 0 has reported the low 8 bits of what the child
   passed to exit, and no other parent reports anything, whichever call
   fails; fork_wait also returns 0 when fork fails (fork_wait.c:8-33,
   exec.c:47-61). *)
THEOREM SuccessIsTheProgramsOwn == CSt!Spec => []SuccessIsReported
<1>1. CSt!Init => CStInv
  BY DEF CSt!Init, CStInv, CSt!SuccessIsReported
<1>2. CStInv /\ [CSt!Next]_(CSt!vars) => CStInv'
  <2> SUFFICES ASSUME CStInv, [CSt!Next]_(CSt!vars) PROVE CStInv'
    OBVIOUS
  <2> USE DEF CStInv, CSt!SuccessIsReported
  <2>1. CASE CSt!Begin /\ UNCHANGED <<source, argument>>
    BY <2>1 DEF CSt!Begin, CSt!End, CSt!kidVars
  <2>2. CASE CSt!Fork /\ UNCHANGED <<source, argument>>
    BY <2>2 DEF CSt!Fork
  <2>3. CASE CSt!ForkFails /\ UNCHANGED <<source, argument>>
    BY <2>3 DEF CSt!ForkFails, CSt!End, CSt!kidVars
  <2>4. CASE CSt!Waitpid /\ UNCHANGED <<source, argument>>
    <3>1. kid = "exited" => kidStatus # -1
      OBVIOUS
    <3> QED BY <2>4, <3>1 DEF CSt!Waitpid, CSt!End, CSt!kidVars
  <2>5. CASE CSt!WaitpidFails /\ UNCHANGED <<source, argument>>
    BY <2>5 DEF CSt!WaitpidFails, CSt!End, CSt!kidVars
  <2>6. CASE /\ CSt!ReturnTen \/ CSt!Execvp \/ CSt!ProgramExits \/ CSt!Signalled
             /\ UNCHANGED CSt!parentVars /\ UNCHANGED <<source, argument>>
    <3>1. progress # "ended" /\ progress \notin {"begin", "fork"}
      BY <2>6 DEF CSt!ReturnTen, CSt!Execvp, CSt!ProgramExits, CSt!Signalled
    <3>2. kid' = "exited" => wanted' \in Int /\ kidStatus' = wanted' % 256
      BY <2>6, MCAssumption
      DEF CSt!ReturnTen, CSt!Execvp, CSt!ProgramExits, CSt!Signalled, CSt!Exits,
          CSt!ConstantsOK
    <3> QED BY <2>6, <3>1, <3>2 DEF CSt!parentVars
  <2>7. CASE UNCHANGED CSt!vars
    BY <2>7 DEF CSt!vars
  <2> QED BY <2>1, <2>2, <2>3, <2>4, <2>5, <2>6, <2>7 DEF CSt!Next
<1>3. CStInv => SuccessIsReported
  BY DEF SuccessIsReported, CStInv
<1> QED BY <1>1, <1>2, <1>3, PTL DEF CSt!Spec

-----------------------------------------------------------------------------
(* sem19_eintr/eintr_example *)

\* stdout is a beginning of stdin.
OutInOrder == out \in Seq(Nat) /\ \A k \in 1..Len(out) : out[k] = k
\* How much of stdin has come out.
OutLength == Len(out)

\* At each statement, how much has come out compared to what was read.
InTurn ==
  /\ OutInOrder /\ OutLength \in Nat
  /\ copier \in {"start", "read"} => OutLength = taken
  /\ copier = "read_done" => OutLength = IF nr > 0 THEN taken - nr ELSE taken
  /\ copier = "write" => OutLength = taken - nr + moved
  /\ copier = "write_done" => OutLength = IF nw = -1 THEN taken - nr ELSE taken
  /\ copier = "0" => eof /\ OutLength = taken /\ taken = typed

\* The types, and how nr, nw and the bytes of the write in progress are
\* related.
BytesAreCounted ==
  /\ copier \in {"start", "read", "read_done", "write", "write_done", "0", "1"}
  /\ typed \in Nat /\ taken \in Nat /\ taken <= typed /\ unread \in Nat
  /\ nr \in -1..ChunkSize /\ nw \in -1..ChunkSize /\ moved \in 0..ChunkSize
  /\ copier # "write" => moved = 0
  /\ copier \in {"write", "write_done"} => nr > 0 /\ moved <= nr
  /\ copier = "read_done" /\ nr = 0 => eof /\ taken = typed

\* A call has failed when main is about to find a -1 whose errno is not
\* EINTR.
FailuresAreReported ==
  /\ copier = "read_done" /\ nr = -1 /\ ~Ein!Interrupted => failed
  /\ copier = "write_done" /\ nw = -1 /\ ~Ein!Interrupted => failed
  /\ copier = "1" => failed

\* A pipe that has begun to take a write has room for the rest of it, and so
\* no write to a pipe was cut short.
RoomIsLeft ==
  /\ pipe /\ copier = "write" /\ moved > 0 => unread + nr - moved <= OutSize
  /\ pipe => ~short

\* The inductive invariant of eintr_example; the order is kept as long as no
\* write is cut short.
EinInv == BytesAreCounted /\ FailuresAreReported /\ RoomIsLeft /\ (~short => InTurn)

\* Nothing has been read at first.
LEMMA EinInitInv == Ein!Init => EinInv
<1> SUFFICES ASSUME Ein!Init PROVE EinInv
  OBVIOUS
<1>1. OutInOrder /\ OutLength = 0
  BY EmptySeq DEF Ein!Init, OutInOrder, OutLength
<1>2. InTurn
  BY <1>1 DEF Ein!Init, InTurn
<1>3. BytesAreCounted
  BY MCAssumption DEF Ein!Init, BytesAreCounted, Ein!ConstantsOK
<1>4. FailuresAreReported /\ RoomIsLeft
  BY DEF Ein!Init, FailuresAreReported, RoomIsLeft
<1> QED BY <1>2, <1>3, <1>4 DEF EinInv

\* Another byte in its place keeps stdout a beginning of stdin.
LEMMA NextByteOut ==
  ASSUME OutInOrder, out' = Append(out, OutLength + 1)
  PROVE  OutInOrder' /\ OutLength' = OutLength + 1
<1>1. out \in Seq(Nat) /\ Len(out) \in Nat /\ out' = Append(out, Len(out) + 1)
  BY DEF OutInOrder, OutLength
<1>2. out' \in Seq(Nat) /\ Len(out') = Len(out) + 1
  BY <1>1, AppendProperties
<1>3. \A k \in 1..Len(out') : out'[k] = k
  BY <1>1, AppendProperties DEF OutInOrder
<1> QED BY <1>1, <1>2, <1>3 DEF OutInOrder, OutLength

\* Every step of main, of the handler, of the kernel and of what is at the
\* two ends preserves the invariant.
LEMMA EinStepInv == EinInv /\ [Ein!Next]_(Ein!vars) => EinInv'
<1> SUFFICES ASSUME EinInv, [Ein!Next]_(Ein!vars) PROVE EinInv'
  OBVIOUS
<1>0. ChunkSize \in Nat \ {0} /\ OutSize \in Nat /\ ChunkSize <= OutSize
  BY MCAssumption DEF Ein!ConstantsOK
<1>a. BytesAreCounted /\ FailuresAreReported /\ RoomIsLeft /\ (~short => InTurn)
  BY DEF EinInv
<1>f. out' = out => (OutInOrder' <=> OutInOrder) /\ OutLength' = OutLength
  BY DEF OutInOrder, OutLength
<1>1. CASE Ein!Outside
  <2>1. BytesAreCounted'
    BY <1>0, <1>a, <1>1 DEF Ein!Outside, Ein!Type, Ein!Drain, BytesAreCounted
  <2>2. FailuresAreReported'
    BY <1>0, <1>a, <1>1
    DEF Ein!Outside, Ein!Type, Ein!Drain, BytesAreCounted, FailuresAreReported,
        Ein!Interrupted
  <2>3. RoomIsLeft'
    BY <1>0, <1>a, <1>1 DEF Ein!Outside, Ein!Type, Ein!Drain, BytesAreCounted, RoomIsLeft
  <2>4. ~short' => InTurn'
    BY <1>0, <1>a, <1>f, <1>1
    DEF Ein!Outside, Ein!Type, Ein!Drain, BytesAreCounted, InTurn, Ein!Interrupted
  <2> QED BY <2>1, <2>2, <2>3, <2>4 DEF EinInv
<1>2. CASE Ein!Start
  <2>1. BytesAreCounted'
    BY <1>0, <1>a, <1>2 DEF Ein!Start, Ein!io, BytesAreCounted
  <2>2. FailuresAreReported'
    BY <1>0, <1>a, <1>2
    DEF Ein!Start, Ein!io, BytesAreCounted, FailuresAreReported, Ein!Interrupted
  <2>3. RoomIsLeft'
    BY <1>0, <1>a, <1>2 DEF Ein!Start, Ein!io, BytesAreCounted, RoomIsLeft
  <2>4. ~short' => InTurn'
    BY <1>0, <1>a, <1>f, <1>2
    DEF Ein!Start, Ein!io, BytesAreCounted, InTurn, Ein!Interrupted
  <2> QED BY <2>1, <2>2, <2>3, <2>4 DEF EinInv
<1>3. CASE Ein!Read
  <2>1. BytesAreCounted'
    BY <1>0, <1>a, <1>3 DEF Ein!Read, Ein!Lesser, BytesAreCounted
  <2>2. FailuresAreReported'
    BY <1>0, <1>a, <1>3
    DEF Ein!Read, Ein!Lesser, BytesAreCounted, FailuresAreReported, Ein!Interrupted
  <2>3. RoomIsLeft'
    BY <1>0, <1>a, <1>3 DEF Ein!Read, Ein!Lesser, BytesAreCounted, RoomIsLeft
  <2>4. ~short' => InTurn'
    BY <1>0, <1>a, <1>f, <1>3
    DEF Ein!Read, Ein!Lesser, BytesAreCounted, InTurn, Ein!Interrupted
  <2> QED BY <2>1, <2>2, <2>3, <2>4 DEF EinInv
<1>4. CASE Ein!ReadFails
  <2>1. BytesAreCounted'
    BY <1>0, <1>a, <1>4 DEF Ein!ReadFails, Ein!CallFails, Ein!io, BytesAreCounted
  <2>2. FailuresAreReported'
    BY <1>0, <1>a, <1>4
    DEF Ein!ReadFails, Ein!CallFails, Ein!io, BytesAreCounted, FailuresAreReported,
        Ein!Interrupted
  <2>3. RoomIsLeft'
    BY <1>0, <1>a, <1>4
    DEF Ein!ReadFails, Ein!CallFails, Ein!io, BytesAreCounted, RoomIsLeft
  <2>4. ~short' => InTurn'
    BY <1>0, <1>a, <1>f, <1>4
    DEF Ein!ReadFails, Ein!CallFails, Ein!io, BytesAreCounted, InTurn, Ein!Interrupted
  <2> QED BY <2>1, <2>2, <2>3, <2>4 DEF EinInv
<1>5. CASE Ein!AfterRead
  <2>1. BytesAreCounted'
    BY <1>0, <1>a, <1>5 DEF Ein!AfterRead, Ein!io, BytesAreCounted
  <2>2. FailuresAreReported'
    BY <1>0, <1>a, <1>5
    DEF Ein!AfterRead, Ein!io, BytesAreCounted, FailuresAreReported, Ein!Interrupted
  <2>3. RoomIsLeft'
    BY <1>0, <1>a, <1>5 DEF Ein!AfterRead, Ein!io, BytesAreCounted, RoomIsLeft
  <2>4. ~short' => InTurn'
    BY <1>0, <1>a, <1>f, <1>5
    DEF Ein!AfterRead, Ein!io, BytesAreCounted, InTurn, Ein!Interrupted
  <2> QED BY <2>1, <2>2, <2>3, <2>4 DEF EinInv
<1>6. CASE Ein!WriteByte
  <2>5. ~short => out' = Append(out, OutLength + 1)
    BY <1>a, <1>6 DEF Ein!WriteByte, InTurn
  <2>6. ~short => OutInOrder' /\ OutLength' = OutLength + 1
    BY <1>a, <2>5, NextByteOut DEF InTurn
  <2>1. BytesAreCounted'
    BY <1>0, <1>a, <1>6 DEF Ein!WriteByte, Ein!RoomToWrite, BytesAreCounted
  <2>2. FailuresAreReported'
    BY <1>0, <1>a, <1>6
    DEF Ein!WriteByte, Ein!RoomToWrite, BytesAreCounted, FailuresAreReported,
        Ein!Interrupted
  <2>3. RoomIsLeft'
    BY <1>0, <1>a, <1>6 DEF Ein!WriteByte, Ein!RoomToWrite, BytesAreCounted, RoomIsLeft
  <2>4. ~short' => InTurn'
    BY <1>0, <1>a, <2>6, <1>6
    DEF Ein!WriteByte, Ein!RoomToWrite, BytesAreCounted, InTurn, Ein!Interrupted
  <2> QED BY <2>1, <2>2, <2>3, <2>4 DEF EinInv
<1>7. CASE Ein!Write
  <2>1. BytesAreCounted'
    BY <1>0, <1>a, <1>7 DEF Ein!Write, Ein!io, BytesAreCounted
  <2>2. FailuresAreReported'
    BY <1>0, <1>a, <1>7
    DEF Ein!Write, Ein!io, BytesAreCounted, FailuresAreReported, Ein!Interrupted
  <2>3. RoomIsLeft'
    BY <1>0, <1>a, <1>7 DEF Ein!Write, Ein!io, BytesAreCounted, RoomIsLeft
  <2>4. ~short' => InTurn'
    BY <1>0, <1>a, <1>f, <1>7
    DEF Ein!Write, Ein!io, BytesAreCounted, InTurn, Ein!Interrupted
  <2> QED BY <2>1, <2>2, <2>3, <2>4 DEF EinInv
<1>8. CASE Ein!WriteFails
  <2>1. BytesAreCounted'
    BY <1>0, <1>a, <1>8 DEF Ein!WriteFails, Ein!CallFails, Ein!io, BytesAreCounted
  <2>2. FailuresAreReported'
    BY <1>0, <1>a, <1>8
    DEF Ein!WriteFails, Ein!CallFails, Ein!io, BytesAreCounted, FailuresAreReported,
        Ein!Interrupted
  <2>3. RoomIsLeft'
    BY <1>0, <1>a, <1>8
    DEF Ein!WriteFails, Ein!CallFails, Ein!io, BytesAreCounted, RoomIsLeft
  <2>4. ~short' => InTurn'
    BY <1>0, <1>a, <1>f, <1>8
    DEF Ein!WriteFails, Ein!CallFails, Ein!io, BytesAreCounted, InTurn, Ein!Interrupted
  <2> QED BY <2>1, <2>2, <2>3, <2>4 DEF EinInv
<1>9. CASE Ein!AfterWrite
  <2>1. BytesAreCounted'
    BY <1>0, <1>a, <1>9 DEF Ein!AfterWrite, Ein!io, BytesAreCounted
  <2>2. FailuresAreReported'
    BY <1>0, <1>a, <1>9
    DEF Ein!AfterWrite, Ein!io, BytesAreCounted, FailuresAreReported, Ein!Interrupted
  <2>3. RoomIsLeft'
    BY <1>0, <1>a, <1>9 DEF Ein!AfterWrite, Ein!io, BytesAreCounted, RoomIsLeft
  <2>4. ~short' => InTurn'
    BY <1>0, <1>a, <1>f, <1>9
    DEF Ein!AfterWrite, Ein!io, BytesAreCounted, InTurn, Ein!Interrupted
  <2> QED BY <2>1, <2>2, <2>3, <2>4 DEF EinInv
<1>10. CASE Ein!Handler /\ UNCHANGED Ein!io
  <2>1. BytesAreCounted'
    BY <1>0, <1>a, <1>10 DEF Ein!Handler, Ein!io, BytesAreCounted
  <2>2. FailuresAreReported'
    BY <1>0, <1>a, <1>10
    DEF Ein!Handler, Ein!io, BytesAreCounted, FailuresAreReported, Ein!Interrupted
  <2>3. RoomIsLeft'
    BY <1>0, <1>a, <1>10 DEF Ein!Handler, Ein!io, BytesAreCounted, RoomIsLeft
  <2>4. ~short' => InTurn'
    BY <1>0, <1>a, <1>f, <1>10
    DEF Ein!Handler, Ein!io, BytesAreCounted, InTurn, Ein!Interrupted
  <2> QED BY <2>1, <2>2, <2>3, <2>4 DEF EinInv
<1>11. CASE Ein!Interrupt /\ UNCHANGED Ein!io
  <2>1. BytesAreCounted'
    BY <1>0, <1>a, <1>11
    DEF Ein!Interrupt, Ein!ReadBlocks, Ein!WriteBlocks, Ein!RoomToWrite, Ein!io,
        BytesAreCounted
  <2>2. FailuresAreReported'
    BY <1>0, <1>a, <1>11
    DEF Ein!Interrupt, Ein!ReadBlocks, Ein!WriteBlocks, Ein!RoomToWrite, Ein!io,
        BytesAreCounted, FailuresAreReported, Ein!Interrupted
  <2>3. RoomIsLeft'
    BY <1>0, <1>a, <1>11
    DEF Ein!Interrupt, Ein!ReadBlocks, Ein!WriteBlocks, Ein!RoomToWrite, Ein!io,
        BytesAreCounted, RoomIsLeft
  <2>4. ~short' => InTurn'
    BY <1>0, <1>a, <1>f, <1>11
    DEF Ein!Interrupt, Ein!ReadBlocks, Ein!WriteBlocks, Ein!RoomToWrite, Ein!io,
        BytesAreCounted, InTurn, Ein!Interrupted
  <2> QED BY <2>1, <2>2, <2>3, <2>4 DEF EinInv
<1>12. CASE UNCHANGED Ein!vars
  BY <1>f, <1>12
  DEF Ein!vars, EinInv, BytesAreCounted, FailuresAreReported, RoomIsLeft, InTurn,
      Ein!Interrupted
<1> QED BY <1>1, <1>2, <1>3, <1>4, <1>5, <1>6, <1>7, <1>8, <1>9, <1>10, <1>11, <1>12
        DEF Ein!Next

(* For any sizes of the buffers and any number of signals, eintr_example
   copies stdin in order and without a hole, to its end when it returns 0,
   unless a terminal or a socket cuts a write short; and it returns 1 only
   after a call that failed (eintr_example.c:7-17, 35-50). *)
THEOREM StdinIsCopied == Ein!Spec => []CopiesStdin
<1>1. EinInv => CopiesStdin
  BY DEF CopiesStdin, EinInv, InTurn, Ein!CopiesStdin, OutInOrder, OutLength, RoomIsLeft,
     FailuresAreReported
<1> QED BY <1>1, EinInitInv, EinStepInv, PTL DEF Ein!Spec

-----------------------------------------------------------------------------
(* sem07_dynamic_memory/smaps_parser and sem10_fs/pss_counter *)

\* The sums of the figures read so far.
ReadSoFar(p, r) == p = figures["Pss"] + figures["Pss_"] /\ r = figures["Rss"]

\* At each statement, which of the sums of the two programs hold what has
\* been read.
SmaInv ==
  /\ tool \in {"smaps_parser", "pss_counter"}
  /\ pss \in Int /\ rss \in Int /\ all_pss \in Int /\ all_rss \in Int
  /\ figures \in [Sma!Figure -> Int]
  /\ stage \in {"args", "open", "opendir"} => ReadSoFar(0, 0) /\ all_pss = 0 /\ all_rss = 0
  /\ tool = "smaps_parser" =>
       /\ stage \notin {"opendir", "readdir"}
       /\ stage \in {"line", "parsed", "list", "printed"} => ReadSoFar(pss, rss)
  /\ tool = "pss_counter" =>
       /\ stage \notin {"args", "open", "list"}
       /\ stage \in {"readdir", "printed"} => ReadSoFar(all_pss, all_rss)
       /\ stage \in {"line", "parsed"} => ReadSoFar(all_pss + pss, all_rss + rss)

\* No figure has been read at first.
LEMMA SmaInitInv == Sma!Init => SmaInv
  BY DEF Sma!Init, SmaInv, ReadSoFar, Sma!Figure

\* A line changes the sums by what the parser makes of it, and the end of a
\* file moves them to the totals.
LEMMA SmaStepInv == SmaInv /\ [Sma!Next]_(Sma!vars) => SmaInv'
<1> SUFFICES ASSUME SmaInv, [Sma!Next]_(Sma!vars) PROVE SmaInv'
  OBVIOUS
<1> USE DEF SmaInv, ReadSoFar, Sma!fileVars, Sma!history
<1>1. CASE Sma!ParseArgs \/ Sma!FileEnds \/ Sma!Opendir \/ Sma!DirectoryEnds
  BY <1>1 DEF Sma!ParseArgs, Sma!FileEnds, Sma!Opendir, Sma!DirectoryEnds
<1>2. CASE Sma!OpenSmaps
  BY <1>2 DEF Sma!OpenSmaps, Sma!Fopen, Sma!FreshSums
<1>3. CASE Sma!SortLibraries \/ Sma!PrintLibrary
  <2>1. /\ UNCHANGED <<tool, pss, rss, all_pss, all_rss, figures>>
        /\ \/ tool = "smaps_parser" /\ stage = "parsed" /\ stage' \in {"failed", "list"}
           \/ stage = "list" /\ stage' \in {"list", "printed"}
    BY <1>3 DEF Sma!SortLibraries, Sma!PrintLibrary
  <2> QED BY <2>1
<1>4. CASE Sma!Readdir
  BY <1>4 DEF Sma!Readdir, Sma!Fopen, Sma!FreshSums
<1>5. CASE Sma!AddProcess
  BY <1>5 DEF Sma!AddProcess
<1>6. ASSUME NEW l \in Sma!Line, Sma!ParseLine(l) PROVE SmaInv'
  <2>1. /\ stage = "line" /\ stage' \in {"line", "failed"}
        /\ pss' = pss + Sma!parse_smaps_pss(l) /\ rss' = rss + Sma!parse_smaps_rss(l)
        /\ figures' = [f \in Sma!Figure |-> figures[f] + (IF l.kind = f THEN 1 ELSE 0)]
        /\ UNCHANGED <<tool, all_pss, all_rss>>
    BY <1>6 DEF Sma!ParseLine
  <2>2. /\ figures' \in [Sma!Figure -> Int]
        /\ figures'["Pss"] = figures["Pss"] + (IF l.kind = "Pss" THEN 1 ELSE 0)
        /\ figures'["Pss_"] = figures["Pss_"] + (IF l.kind = "Pss_" THEN 1 ELSE 0)
        /\ figures'["Rss"] = figures["Rss"] + (IF l.kind = "Rss" THEN 1 ELSE 0)
        /\ figures["Pss"] \in Int /\ figures["Pss_"] \in Int /\ figures["Rss"] \in Int
    BY <2>1 DEF Sma!Figure
  <2>3. CASE tool = "smaps_parser"
    BY <2>1, <2>2, <2>3 DEF Sma!parse_smaps_pss, Sma!parse_smaps_rss
  <2>4. CASE tool = "pss_counter"
    BY <2>1, <2>2, <2>4 DEF Sma!parse_smaps_pss, Sma!parse_smaps_rss
  <2> QED BY <2>3, <2>4
<1>7. CASE UNCHANGED Sma!vars
  BY <1>7 DEF Sma!vars
<1> QED BY <1>1, <1>2, <1>3, <1>4, <1>5, <1>6, <1>7 DEF Sma!Next

(* For any lines of smaps and any processes that appear and end: the Rss that
   smaps_parser and pss_counter print is the sum of the figures they have
   read, and so is the Pss where no line begins with the letters of Pss but
   those of the figure itself (smaps_parser.c:12-36, 92-93,
   pss_counter.c:52-67). *)
THEOREM SumsAreOfFigures == Sma!Spec => []FiguresAreSummed
<1>1. ASSUME SmaInv PROVE Sma!FiguresAreSummed
  <2>1. figures["Pss"] \in Int /\ figures["Pss_"] \in Int /\ figures["Rss"] \in Int
    BY <1>1 DEF SmaInv, Sma!Figure
  <2>2. CASE Sma!Printed("pss_counter")
    <3>1. all_pss = figures["Pss"] + figures["Pss_"] /\ all_rss = figures["Rss"]
      BY <1>1, <2>2 DEF SmaInv, ReadSoFar, Sma!Printed
    <3> QED BY <2>1, <2>2, <3>1 DEF Sma!FiguresAreSummed, Sma!Printed
  <2>3. CASE Sma!Printed("smaps_parser")
    <3>1. pss = figures["Pss"] + figures["Pss_"] /\ rss = figures["Rss"]
      BY <1>1, <2>3 DEF SmaInv, ReadSoFar, Sma!Printed
    <3> QED BY <2>1, <2>3, <3>1 DEF Sma!FiguresAreSummed, Sma!Printed
  <2> QED BY <2>2, <2>3 DEF Sma!FiguresAreSummed
<1>2. SmaInv => FiguresAreSummed
  BY <1>1 DEF FiguresAreSummed
<1> QED BY <1>2, SmaInitInv, SmaStepInv, PTL DEF Sma!Spec

\* The places in a sequence where an element is, and how many they are.
PlacesOf(q, x) == {k \in 1..Len(q) : q[k] = x}

LEMMA TimesIsCount ==
  ASSUME NEW S, NEW q \in Seq(S), NEW x
  PROVE  /\ IsFiniteSet(PlacesOf(q, x)) /\ Cardinality(PlacesOf(q, x)) \in Nat
         /\ Sma!Times(q, x) = Cardinality(PlacesOf(q, x))
<1>1. Len(q) \in Nat /\ DOMAIN q = 1..Len(q)
  OBVIOUS
<1>2. IsFiniteSet(1..Len(q)) /\ PlacesOf(q, x) \subseteq 1..Len(q)
  BY <1>1, FS_Interval DEF PlacesOf
<1>3. IsFiniteSet(PlacesOf(q, x))
  BY <1>2, FS_Subset
<1> QED BY <1>1, <1>3, FS_CardinalityType, SameCardinality DEF Sma!Times, PlacesOf

\* Nothing occurs in the empty sequence.
LEMMA TimesInNone == \A x : Sma!Times(<<>>, x) = 0
<1>1. \A x : {k \in DOMAIN <<>> : <<>>[k] = x} = {}
  OBVIOUS
<1> QED BY Zenon, <1>1, FS_EmptySet, SameCardinality DEF Sma!Times

\* How often an element occurs when one is added at the end.
LEMMA TimesAppended ==
  ASSUME NEW S, NEW q \in Seq(S), NEW y \in S, NEW x
  PROVE  Sma!Times(Append(q, y), x) = Sma!Times(q, x) + (IF y = x THEN 1 ELSE 0)
<1>1. Append(q, y) \in Seq(S) /\ Len(q) \in Nat /\ Len(Append(q, y)) = Len(q) + 1
  OBVIOUS
<1>2. /\ \A k \in 1..Len(q) : Append(q, y)[k] = q[k]
      /\ Append(q, y)[Len(q) + 1] = y
      /\ 1..(Len(q) + 1) = 1..Len(q) \cup {Len(q) + 1} /\ Len(q) + 1 \notin 1..Len(q)
  BY <1>1
<1>3. /\ PlacesOf(Append(q, y), x) =
           IF y = x THEN PlacesOf(q, x) \cup {Len(q) + 1} ELSE PlacesOf(q, x)
      /\ Len(q) + 1 \notin PlacesOf(q, x)
  <2>1. Len(Append(q, y)) = Len(q) + 1
    BY <1>1
  <2>2. CASE y = x
    BY <1>2, <2>1, <2>2 DEF PlacesOf
  <2>3. CASE y # x
    BY <1>2, <2>1, <2>3 DEF PlacesOf
  <2> QED BY <2>2, <2>3
<1>4. /\ IsFiniteSet(PlacesOf(q, x)) /\ Sma!Times(q, x) = Cardinality(PlacesOf(q, x))
      /\ Cardinality(PlacesOf(q, x)) \in Nat
      /\ Sma!Times(Append(q, y), x) = Cardinality(PlacesOf(Append(q, y), x))
  BY <1>1, TimesIsCount
<1>5. Cardinality(PlacesOf(q, x) \cup {Len(q) + 1}) = Cardinality(PlacesOf(q, x)) + 1
  BY <1>3, <1>4, FS_AddElement
<1> QED BY <1>3, <1>4, <1>5

\* How often an element occurs when the first is taken away.
LEMMA TimesOfTail ==
  ASSUME NEW S, NEW q \in Seq(S), q # <<>>, NEW x
  PROVE  Sma!Times(q, x) = Sma!Times(Tail(q), x) + (IF Head(q) = x THEN 1 ELSE 0)
<1> DEFINE n == Len(q)
           later == PlacesOf(q, x) \ {1}
           shift == [k \in PlacesOf(Tail(q), x) |-> k + 1]
<1>1. /\ n \in Nat \ {0} /\ Tail(q) \in Seq(S) /\ Len(Tail(q)) = n - 1 /\ Head(q) = q[1]
      /\ \A k \in 1..(n - 1) : Tail(q)[k] = q[k + 1]
  OBVIOUS
<1> HIDE DEF n
<1>2. /\ \A k \in PlacesOf(Tail(q), x) : k \in Nat /\ k + 1 \in later
      /\ \A k \in later : k \in Nat /\ k - 1 \in PlacesOf(Tail(q), x) /\ k = (k - 1) + 1
  BY <1>1 DEF PlacesOf, n
<1>3. shift \in Bijection(PlacesOf(Tail(q), x), later)
  <2>1. /\ shift \in [PlacesOf(Tail(q), x) -> later]
        /\ \A j, k \in PlacesOf(Tail(q), x) : shift[j] = shift[k] => j = k
        /\ \A l \in later : \E k \in PlacesOf(Tail(q), x) : shift[k] = l
    BY <1>2
  <2> QED BY <2>1, Fun_IsBij
<1>4. IsFiniteSet(later) /\ Cardinality(later) = Cardinality(PlacesOf(Tail(q), x))
  BY <1>1, <1>3, TimesIsCount, FS_Bijection, Fun_ExistsBij
<1>5. PlacesOf(q, x) = IF Head(q) = x THEN later \cup {1} ELSE later
  BY <1>1 DEF PlacesOf, n
<1>6. /\ Sma!Times(q, x) = Cardinality(PlacesOf(q, x))
      /\ Sma!Times(Tail(q), x) = Cardinality(PlacesOf(Tail(q), x))
      /\ Cardinality(PlacesOf(Tail(q), x)) \in Nat
  BY <1>1, TimesIsCount
<1>7. 1 \notin later /\ Cardinality(later \cup {1}) = Cardinality(later) + 1
  BY <1>4, FS_AddElement
<1> HIDE DEF later
<1> QED BY <1>4, <1>5, <1>6, <1>7

(* Until it sorts them, smaps_parser holds the files mapped for execution as
   they were read; then the printed ones come before those still held, and
   both together are what was read, but for the program itself. *)
LibsInv ==
  /\ tool \in {"smaps_parser", "pss_counter"}
  /\ tool = "smaps_parser" => stage \in {"args", "open", "line", "parsed", "list", "printed", "failed"}
  /\ tool = "pss_counter" => stage \in {"opendir", "readdir", "line", "parsed", "printed", "failed"}
  /\ libs \in Seq(Paths) /\ listed \in Seq(Paths) /\ mapped \in Seq(Paths)
  /\ tool = "smaps_parser" =>
       /\ stage \in {"args", "open"} => mapped = <<>> /\ listed = <<>>
       /\ stage \in {"line", "parsed"} => libs = mapped /\ listed = <<>>
       /\ stage \in {"list", "printed"} =>
            /\ Sma!Ascending(listed) /\ Sma!Ascending(libs)
            /\ \A k \in 1..Len(listed), j \in 1..Len(libs) : listed[k] <= libs[j]
            /\ \A p \in Paths : Sma!Times(listed, p) =
                 IF p = OwnPath THEN 0 ELSE Sma!Times(mapped, p) - Sma!Times(libs, p)
       /\ stage = "printed" => libs = <<>>

\* No file has been read at first.
LEMMA LibsInitInv == Sma!Init => LibsInv
  BY DEF Sma!Init, LibsInv

\* Printing a library and freeing it preserves the order and the count.
LEMMA LibraryPrinted ==
  ASSUME LibsInv, tool = "smaps_parser", stage = "list", libs # <<>>,
         listed' = IF Head(libs) = OwnPath THEN listed ELSE Append(listed, Head(libs)),
         libs' = Tail(libs), UNCHANGED mapped
  PROVE  /\ libs' \in Seq(Paths) /\ listed' \in Seq(Paths)
         /\ Sma!Ascending(listed') /\ Sma!Ascending(libs')
         /\ \A k \in 1..Len(listed'), j \in 1..Len(libs') : listed'[k] <= libs'[j]
         /\ \A p \in Paths : Sma!Times(listed', p) =
              IF p = OwnPath THEN 0 ELSE Sma!Times(mapped', p) - Sma!Times(libs', p)
<1> DEFINE n == Len(libs)
           m == Len(listed)
<1>1. /\ libs \in Seq(Paths) /\ listed \in Seq(Paths) /\ mapped \in Seq(Paths)
      /\ Sma!Ascending(listed) /\ Sma!Ascending(libs)
      /\ \A k \in 1..m, j \in 1..n : listed[k] <= libs[j]
      /\ \A p \in Paths : Sma!Times(listed, p) =
           IF p = OwnPath THEN 0 ELSE Sma!Times(mapped, p) - Sma!Times(libs, p)
  BY DEF LibsInv
<1>2. /\ m \in Nat /\ n \in Nat \ {0} /\ Head(libs) = libs[1] /\ libs[1] \in Paths
      /\ libs' \in Seq(Paths) /\ Len(libs') = n - 1
      /\ \A j \in 1..(n - 1) : libs'[j] = libs[j + 1]
  BY <1>1
<1>n. Paths \subseteq Nat
  BY MCAssumption DEF Sma!ConstantsOK
<1>3. /\ listed' \in Seq(Paths)
      /\ \/ listed' = listed
         \/ /\ Len(listed') = m + 1 /\ listed'[m + 1] = libs[1]
            /\ \A k \in 1..m : listed'[k] = listed[k]
  BY <1>1, <1>2
<1>4. /\ \A j \in 1..n : libs[j] \in Nat
      /\ \A k \in 1..m : listed[k] \in Nat
      /\ \A j, k \in 1..n : j < k => libs[j] <= libs[k]
      /\ \A j, k \in 1..m : j < k => listed[j] <= listed[k]
      /\ listed' = listed => Len(listed') = m
  <2>1. /\ \A j \in 1..n : libs[j] \in Paths
        /\ \A k \in 1..m : listed[k] \in Paths
    BY <1>1
  <2>2. /\ \A j, k \in 1..n : j < k => libs[j] <= libs[k]
        /\ \A j, k \in 1..m : j < k => listed[j] <= listed[k]
    BY <1>1 DEF Sma!Ascending
  <2> QED BY <1>n, <2>1, <2>2
<1>5. \A p \in Paths : Sma!Times(libs, p) = Sma!Times(libs', p) + (IF libs[1] = p THEN 1 ELSE 0)
  BY <1>1, <1>2, TimesOfTail
<1>t. \A p \in Paths : Sma!Times(libs', p) \in Nat /\ Sma!Times(mapped, p) \in Nat
                     /\ Sma!Times(listed, p) \in Nat
  <2>1. \A q \in Seq(Paths) : \A x : Sma!Times(q, x) \in Nat
    BY TimesIsCount
  <2> QED BY <1>1, <1>2, <2>1
<1>6. \A p \in Paths : Sma!Times(Append(listed, libs[1]), p) =
                         Sma!Times(listed, p) + (IF libs[1] = p THEN 1 ELSE 0)
  BY <1>1, <1>2, TimesAppended
<1>7. ASSUME NEW p \in Paths
      PROVE  Sma!Times(listed', p) =
              IF p = OwnPath THEN 0 ELSE Sma!Times(mapped, p) - Sma!Times(libs', p)
  <2>1. Sma!Times(listed, p) =
           IF p = OwnPath THEN 0 ELSE Sma!Times(mapped, p) - Sma!Times(libs, p)
    BY <1>1
  <2>2. listed' = IF libs[1] = OwnPath THEN listed ELSE Append(listed, libs[1])
    BY <1>2
  <2>3. CASE libs[1] = p
    BY <1>5, <1>6, <1>t, <2>1, <2>2, <2>3
  <2>4. CASE libs[1] # p
    BY <1>5, <1>6, <1>t, <2>1, <2>2, <2>4
  <2> QED BY <2>3, <2>4
<1> HIDE DEF n, m
<1>8. Sma!Ascending(libs')
  BY <1>2, <1>4 DEF Sma!Ascending
<1>9. \A j \in 1..n : libs[1] <= libs[j]
  BY <1>2, <1>4
<1>10. Sma!Ascending(listed')
  <2>1. ASSUME NEW j \in 1..Len(listed'), NEW k \in 1..Len(listed'), j < k
        PROVE  listed'[j] <= listed'[k]
    <3>1. CASE listed' = listed
      BY <1>4, <2>1, <3>1
    <3>2. CASE Len(listed') = m + 1
      <4>1. j \in 1..m /\ listed'[j] = listed[j] /\ (k = m + 1 \/ k \in 1..m)
        BY <1>2, <1>3, <1>4, <2>1, <3>2
      <4>2. listed[j] <= libs[1]
        BY <1>1, <1>2, <4>1 DEF n, m
      <4> QED BY <1>3, <1>4, <2>1, <3>2, <4>1, <4>2
    <3> QED BY <1>3, <3>1, <3>2
  <2> QED BY <2>1 DEF Sma!Ascending
<1>11. ASSUME NEW k \in 1..Len(listed'), NEW j \in 1..Len(libs') PROVE listed'[k] <= libs'[j]
  <2>1. j + 1 \in 1..n /\ libs'[j] = libs[j + 1] /\ libs[1] <= libs[j + 1]
    BY <1>2, <1>9
  <2>2. CASE k \in 1..m /\ listed'[k] = listed[k]
    BY <1>1, <2>1, <2>2 DEF n, m
  <2>3. CASE Len(listed') = m + 1 /\ k = m + 1 /\ listed'[m + 1] = libs[1]
    BY <2>1, <2>3
  <2>4. k \in 1..m \/ (Len(listed') = m + 1 /\ k = m + 1)
    BY <1>2, <1>3, <1>4
  <2> QED BY <1>2, <1>3, <1>4, <2>2, <2>3, <2>4
<1> QED BY <1>2, <1>3, <1>7, <1>8, <1>10, <1>11

\* Every statement of the two programs preserves the invariant.
LEMMA LibsStepInv == LibsInv /\ [Sma!Next]_(Sma!vars) => LibsInv'
<1> SUFFICES ASSUME LibsInv, [Sma!Next]_(Sma!vars) PROVE LibsInv'
  OBVIOUS
<1>1. CASE \/ Sma!ParseArgs \/ Sma!FileEnds \/ Sma!Opendir \/ Sma!DirectoryEnds
           \/ Sma!AddProcess \/ UNCHANGED Sma!vars
  <2>1. UNCHANGED <<tool, libs, listed, mapped>>
    BY <1>1
    DEF Sma!ParseArgs, Sma!FileEnds, Sma!Opendir, Sma!DirectoryEnds, Sma!AddProcess,
        Sma!fileVars, Sma!history, Sma!vars
  <2>2. \/ stage' = stage
        \/ stage = "args" /\ stage' \in {"open", "failed"}
        \/ stage = "line" /\ stage' \in {"parsed", "failed"}
        \/ tool = "pss_counter" /\ stage' \in {"readdir", "failed", "printed"}
    BY <1>1
    DEF Sma!ParseArgs, Sma!FileEnds, Sma!Opendir, Sma!DirectoryEnds, Sma!AddProcess, Sma!vars,
        LibsInv
  <2>3. CASE tool = "pss_counter"
    BY <2>1, <2>2, <2>3 DEF LibsInv
  <2>4. CASE tool = "smaps_parser"
    BY <2>1, <2>2, <2>4 DEF LibsInv
  <2> QED BY <2>3, <2>4 DEF LibsInv
<1>2. CASE Sma!OpenSmaps \/ Sma!Readdir
  <2>1. /\ UNCHANGED <<tool, listed, mapped>> /\ libs' \in {libs, <<>>}
        /\ \/ stage = "open" /\ stage' \in {"line", "failed", "open"} /\ libs' = <<>>
           \/ stage = "readdir" /\ stage' \in {"line", "readdir", "failed"}
        /\ stage' = "failed" => tool = "smaps_parser"
    BY <1>2
    DEF Sma!OpenSmaps, Sma!Readdir, Sma!Fopen, Sma!FreshSums, Sma!fileVars, Sma!history
  <2>2. CASE tool = "smaps_parser"
    BY <2>1, <2>2 DEF LibsInv
  <2>3. CASE tool = "pss_counter"
    <3>1. libs' \in Seq(Paths) /\ listed' \in Seq(Paths) /\ mapped' \in Seq(Paths)
      <4>1. <<>> \in Seq(Paths) /\ libs \in Seq(Paths)
        BY DEF LibsInv
      <4> QED BY <2>1, <4>1 DEF LibsInv
    <3>2. stage' \in {"line", "readdir", "failed"} /\ stage' # "failed"
      BY <2>1, <2>3 DEF LibsInv
    <3> QED BY <2>1, <2>3, <3>1, <3>2 DEF LibsInv
  <2> QED BY <2>2, <2>3 DEF LibsInv
<1>3. CASE Sma!SortLibraries
  <2>1. /\ tool = "smaps_parser" /\ stage = "parsed" /\ UNCHANGED <<tool, listed, mapped>>
        /\ \/ stage' = "failed" /\ UNCHANGED libs
           \/ stage' = "list" /\ libs' \in Sma!Sorted(libs)
    BY <1>3 DEF Sma!SortLibraries, Sma!history
  <2>2. CASE stage' = "failed" /\ UNCHANGED libs
    BY <2>1, <2>2 DEF LibsInv
  <2>3. CASE stage' = "list" /\ libs' \in Sma!Sorted(libs)
    <3>1. libs \in Seq(Paths) /\ libs = mapped /\ listed = <<>>
      BY <2>1 DEF LibsInv
    <3>2. /\ libs' \in Seq(Paths) /\ Sma!Ascending(libs')
          /\ \A p \in Paths : Sma!Times(libs', p) = Sma!Times(mapped, p)
      BY <2>3, <3>1 DEF Sma!Sorted
    <3>3. \A q \in Seq(Paths) : \A x : Sma!Times(q, x) \in Nat
      BY TimesIsCount
    <3>4. Sma!Ascending(listed) /\ \A x : Sma!Times(listed, x) = 0
      BY <3>1, TimesInNone DEF Sma!Ascending
    <3> QED BY <2>1, <2>3, <3>1, <3>2, <3>3, <3>4 DEF LibsInv
  <2> QED BY <2>1, <2>2, <2>3
<1>4. CASE Sma!PrintLibrary
  <2>1. /\ stage = "list" /\ tool = "smaps_parser" /\ UNCHANGED <<tool, mapped>>
    BY <1>4 DEF Sma!PrintLibrary, Sma!history, LibsInv
  <2>2. CASE libs = <<>>
    <3>1. stage' = "printed" /\ UNCHANGED <<libs, listed>>
      BY <1>4, <2>2 DEF Sma!PrintLibrary
    <3> QED BY <2>1, <2>2, <3>1 DEF LibsInv
  <2>3. CASE libs # <<>>
    <3>1. /\ listed' = IF Head(libs) = OwnPath THEN listed ELSE Append(listed, Head(libs))
          /\ libs' = Tail(libs) /\ UNCHANGED stage
      BY <1>4, <2>3 DEF Sma!PrintLibrary
    <3> QED BY <2>1, <2>3, <3>1, LibraryPrinted DEF LibsInv
  <2> QED BY <2>2, <2>3
<1>5. ASSUME NEW l \in Sma!Line, Sma!ParseLine(l) PROVE LibsInv'
  <2>1. /\ stage = "line" /\ UNCHANGED <<tool, listed>>
        /\ \/ libs' = libs \o Sma!parse_smaps_library(l) /\ UNCHANGED stage
           \/ stage' = "failed" /\ UNCHANGED libs
        /\ mapped' = IF l.kind = "File" /\ l.exec THEN Append(mapped, l.path) ELSE mapped
    BY <1>5 DEF Sma!ParseLine
  <2>2. l.kind = "File" => l.path \in Paths
    BY DEF Sma!Line, Sma!Figure
  <2>3. libs \in Seq(Paths) /\ mapped \in Seq(Paths)
    BY DEF LibsInv
  <2>4. libs \o Sma!parse_smaps_library(l) =
          IF l.kind = "File" /\ l.exec THEN Append(libs, l.path) ELSE libs
    BY <2>2, <2>3 DEF Sma!parse_smaps_library
  <2>5. libs' \in Seq(Paths) /\ mapped' \in Seq(Paths)
    <3>1. CASE l.kind = "File" /\ l.exec
      <4>1. Append(libs, l.path) \in Seq(Paths) /\ Append(mapped, l.path) \in Seq(Paths)
        BY <2>2, <2>3, <3>1
      <4> QED BY Zenon, <2>1, <2>3, <2>4, <3>1, <4>1
    <3>2. CASE ~(l.kind = "File" /\ l.exec)
      BY Zenon, <2>1, <2>3, <2>4, <3>2
    <3> QED BY <3>1, <3>2
  <2> QED BY <2>1, <2>4, <2>5 DEF LibsInv
<1> QED BY <1>1, <1>2, <1>3, <1>4, <1>5 DEF Sma!Next

(* For any lines of smaps: smaps_parser prints the files mapped for
   execution in the order of their names, each as often as it is mapped, but
   for itself (smaps_parser.c:38-74, 206-227). *)
THEOREM MappedFilesAreListed == Sma!Spec => []LibrariesAreListed
<1>1. LibsInv => LibrariesAreListed
  <2> SUFFICES ASSUME LibsInv, stage = "printed", tool = "smaps_parser"
               PROVE  /\ Sma!Ascending(listed)
                      /\ \A p \in Paths : Sma!Times(listed, p) =
                            IF p = OwnPath THEN 0 ELSE Sma!Times(mapped, p)
    BY DEF LibrariesAreListed, Sma!LibrariesAreListed, Sma!Printed
  <2>1. \A q \in Seq(Paths) : \A x : Sma!Times(q, x) \in Nat
    BY TimesIsCount
  <2>2. libs = <<>> /\ libs \in Seq(Paths) /\ mapped \in Seq(Paths)
    BY DEF LibsInv
  <2>3. \A x : Sma!Times(libs, x) = 0
    BY <2>2, TimesInNone
  <2> QED BY <2>1, <2>2, <2>3 DEF LibsInv
<1> QED BY <1>1, LibsInitInv, LibsStepInv, PTL DEF Sma!Spec

-----------------------------------------------------------------------------
(* sem11_fs/remove_files *)

\* A file that remove_files should remove, going by the directory as it was.
IsDoomed(n) ==
  first[n].kind = "file" /\ first[n].size >= MaxSz /\ n \notin Hidden \cup refused
\* The loop over the directory is running.
Walking == walk \in {"readdir", "stat", "unlink"}
\* The loop is between fstatat and unlinkat of an entry.
AtHand == walk \in {"stat", "unlink"}

(* The names that nobody else changed are as at first, but for the big ones
   the loop has passed; what is about to be unlinked is what fstatat saw,
   or was changed since. *)
RemInv ==
  /\ dir \in [Names -> Rem!File \cup {Rem!Absent}]
  /\ first \in [Names -> Rem!File \cup {Rem!Absent}]
  /\ victim \in [Names -> Rem!File \cup {Rem!Absent}]
  /\ walk \in {"open", "readdir", "stat", "unlink", "returned"}
  /\ ahead \subseteq Names /\ raced \subseteq touched /\ refused \cap ahead = {}
  /\ walk = "open" => dir = first /\ touched = {} /\ refused = {}
  /\ AtHand => dentry \in Names \ (Hidden \cup refused \cup ahead)
  /\ walk = "unlink" => st.size >= MaxSz /\ (dir[dentry] = st \/ dentry \in raced)
  /\ complete => walk = "returned" /\ \A n \in ahead : n \in touched \/ dir[n] = Rem!Absent
  /\ \A n \in Names : victim[n] # Rem!Absent =>
       n \notin Hidden /\ (victim[n].size >= MaxSz \/ n \in raced)
  /\ Walking \/ complete => \A n \in Names \ touched :
       dir[n] = IF n \notin ahead /\ ~(AtHand /\ n = dentry) /\ IsDoomed(n)
                THEN Rem!Absent ELSE first[n]

\* The directory is as it was at first.
LEMMA RemInitInv == Rem!Init => RemInv
  BY DEF Rem!Init, RemInv, Walking, AtHand

\* Every call of the loop and every change by another process preserves the
\* invariant.
LEMMA RemStepInv == RemInv /\ [Rem!Next]_(Rem!vars) => RemInv'
<1> SUFFICES ASSUME RemInv, [Rem!Next]_(Rem!vars) PROVE RemInv'
  OBVIOUS
<1> USE DEF RemInv, Walking, AtHand, IsDoomed, Rem!history
<1>1. CASE Rem!Opendir
  BY <1>1 DEF Rem!Opendir
<1>2. CASE Rem!Readdir
  <2>1. PICK n \in ahead : /\ ahead' = ahead \ {n} /\ dentry' = n
                           /\ walk' = IF n \in Hidden THEN "readdir" ELSE "stat"
    BY <1>2 DEF Rem!Readdir
  <2>2. /\ walk = "readdir"
        /\ UNCHANGED <<dir, st, changes, first, touched, raced, refused, victim, complete>>
    BY <1>2 DEF Rem!Readdir
  <2> QED BY <2>1, <2>2
<1>3. CASE Rem!ReaddirEnds
  BY <1>3 DEF Rem!ReaddirEnds, Rem!Absent
<1>4. CASE Rem!Fstatat
  <2>1. /\ walk = "stat" /\ walk' \in {"readdir", "unlink"}
        /\ UNCHANGED <<dir, ahead, dentry, changes, first, touched, raced, victim, complete>>
    BY <1>4 DEF Rem!Fstatat
  <2>2. CASE /\ st' = dir[dentry] /\ UNCHANGED refused
             /\ walk' = IF st'.size >= MaxSz THEN "unlink" ELSE "readdir"
    <3>1. CASE walk' = "unlink"
      BY <2>1, <2>2, <3>1
    <3>2. CASE walk' = "readdir"
      <4>1. ~(dir[dentry].size >= MaxSz)
        BY <2>2, <3>2
      <4> QED BY <2>1, <2>2, <3>2, <4>1
    <3> QED BY <2>1, <3>1, <3>2
  <2>3. CASE walk' = "readdir" /\ refused' = refused \cup {dentry}
    BY <2>1, <2>3
  <2> QED BY <1>4, <2>2, <2>3 DEF Rem!Fstatat
<1>5. CASE Rem!Unlinkat
  BY <1>5 DEF Rem!Unlinkat
<1>6. ASSUME NEW n \in Names, Rem!Change(n) PROVE RemInv'
  BY <1>6 DEF Rem!Change
<1>7. CASE UNCHANGED Rem!vars
  BY <1>7 DEF Rem!vars
<1> QED BY <1>1, <1>2, <1>3, <1>4, <1>5, <1>6, <1>7 DEF Rem!Next

(* For any directory, any limit and any number of changes by other
   processes: a hidden file is never unlinked, one below the limit only in
   place of a bigger one that fstatat saw, and of the names nobody else
   touched, whose size is not the limit itself, exactly the visible ones
   beyond the limit go, but for failures (remove_files.c:37-83). *)
THEOREM BigFilesAreRemoved == Rem!Spec => []RemovesTheBig
<1>1. ASSUME RemInv, complete, NEW n \in Names \ touched, first[n].size # MaxSz
      PROVE  dir[n] = IF /\ first[n].kind = "file" /\ first[n].size > MaxSz
                         /\ n \notin Hidden \cup refused
                      THEN Rem!Absent ELSE first[n]
  <2>1. /\ dir[n] = IF n \notin ahead /\ IsDoomed(n) THEN Rem!Absent ELSE first[n]
        /\ n \in ahead => dir[n] = Rem!Absent
        /\ first[n] \in Rem!File \cup {Rem!Absent}
    BY <1>1 DEF RemInv, AtHand
  <2>2. first[n].kind = "file" => (first[n].size >= MaxSz <=> first[n].size > MaxSz)
    <3>1. MaxSz \in Nat /\ \A f \in Rem!File : f.size \in Nat
      BY MCAssumption DEF Rem!ConstantsOK, Rem!File
    <3>2. Rem!Absent.kind # "file"
      BY DEF Rem!Absent
    <3> QED BY <1>1, <2>1, <3>1, <3>2
  <2> QED BY <2>1, <2>2 DEF IsDoomed, Rem!Absent
<1>2. RemInv => RemovesTheBig
  BY <1>1 DEF RemovesTheBig, RemInv, Rem!RemovesTheBig
<1> QED BY <1>2, RemInitInv, RemStepInv, PTL DEF Rem!Spec

-----------------------------------------------------------------------------
(* sem12_mmap/drm_draw *)

\* A connector and the resources are held.
HasConnector == live = {connector} /\ connector # 0 /\ "res" \in owned

\* At each statement of drm_fb_init and of main, what has been acquired; all
\* of it only if the card has the connector.
DrmInv ==
  /\ connectors \in Seq({"match", "other", "missing"}) /\ looked \in 0..Len(connectors)
  /\ drm \in {"open_card", "init_fb", "resources", "search"} =>
       live = {} /\ encoder = "unset"
  /\ drm \in {"open_card", "init_fb", "resources"} => looked = 0 /\ connector = 0
  /\ drm = "search" =>
       "res" \in owned /\ \A n \in 1..looked : connectors[n] # "match"
  /\ Drm!Matches =>
       /\ misuse \subseteq {"encoder"}
       /\ drm \in {"mode", "encoder", "error"} => HasConnector
       /\ drm \in {"malloc", "map_fb", "open_file", "fstat", "map_file",
                   "memcpy", "draw"} => HasConnector /\ encoder = "held"
       /\ Drm!UsesWhatItHolds

\* No connector has been looked at.
LEMMA NothingLooked == ASSUME NEW n \in 1..0 PROVE FALSE
  OBVIOUS

\* Nothing is held at first.
LEMMA DrmInitInv == Drm!Init => DrmInv
<1>1. \A x \in Drm!SeqOf({"match", "other", "missing"}, MaxConnectors) :
        x \in Seq({"match", "other", "missing"})
  <2>1. \A m \in 0..MaxConnectors : [1..m -> {"match", "other", "missing"}]
          \subseteq Seq({"match", "other", "missing"})
    BY MCAssumption DEF Drm!ConstantsOK
  <2>2. Drm!SeqOf({"match", "other", "missing"}, MaxConnectors)
          = UNION {[1..m -> {"match", "other", "missing"}] : m \in 0..MaxConnectors}
    BY Zenon DEF Drm!SeqOf
  <2> QED BY <2>1, <2>2
<1>2. ASSUME Drm!Init
      PROVE  connectors \in Seq({"match", "other", "missing"}) /\ looked \in 0..Len(connectors)
  <2>1. connectors \in Seq({"match", "other", "missing"}) /\ looked = 0
    BY <1>1, <1>2 DEF Drm!Init
  <2>2. Len(connectors) \in Nat
    BY <2>1
  <2> QED BY <2>1, <2>2
<1> QED BY <1>2 DEF Drm!Init, DrmInv, Drm!UsesWhatItHolds

\* Every call preserves the invariant, whether it succeeds or fails.
LEMMA DrmStepInv == DrmInv /\ [Drm!Next]_(Drm!vars) => DrmInv'
<1> SUFFICES ASSUME DrmInv, [Drm!Next]_(Drm!vars) PROVE DrmInv'
  OBVIOUS
<1> USE DEF DrmInv, Drm!UsesWhatItHolds, HasConnector, Drm!search
<1>0. connectors' = connectors /\ (Drm!Matches' <=> Drm!Matches)
  BY DEF Drm!Next, Drm!vars, Drm!Main, Drm!InitFb, Drm!GetResources, Drm!NextConnector,
     Drm!SearchEnds, Drm!ChooseMode,
     Drm!GetEncoder, Drm!MallocFb, Drm!FreeAll, Drm!Draw, Drm!Matches
<1>1. CASE Drm!Main
  <2>1. UNCHANGED <<encoder, misuse, connectors, looked, connector, live>>
    BY <1>1 DEF Drm!Main
  <2>2. CASE Drm!OpenCard
    BY <1>0, <2>1, <2>2 DEF Drm!OpenCard, Drm!Acquire
  <2>3. CASE Drm!MapFb
    BY <1>0, <2>1, <2>3 DEF Drm!MapFb, Drm!Acquire
  <2>4. CASE Drm!OpenFile
    BY <1>0, <2>1, <2>4 DEF Drm!OpenFile, Drm!Acquire
  <2>5. CASE Drm!Fstat
    BY <1>0, <2>1, <2>5 DEF Drm!Fstat
  <2>6. CASE Drm!MapFile
    BY <1>0, <2>1, <2>6 DEF Drm!MapFile, Drm!Acquire
  <2>7. CASE Drm!Memcpy
    BY <1>0, <2>1, <2>7 DEF Drm!Memcpy
  <2>8. CASE Drm!Release
    BY <1>0, <2>1, <2>8 DEF Drm!Release
  <2> QED BY <1>1, <2>2, <2>3, <2>4, <2>5, <2>6, <2>7, <2>8 DEF Drm!Main
<1>2. CASE Drm!InitFb
  BY <1>0, <1>2 DEF Drm!InitFb
<1>3. CASE Drm!GetResources
  <2>1. /\ looked = 0 /\ connector = 0 /\ live = {} /\ encoder = "unset"
        /\ UNCHANGED <<encoder, misuse, looked, connector, live>>
        /\ \/ drm' = "exit"
           \/ drm' = "search" /\ "res" \in owned'
    BY <1>3 DEF Drm!GetResources, Drm!Acquire
  <2>2. \A n \in 1..looked : connectors[n] # "match"
    BY Zenon, <2>1, NothingLooked
  <2> QED BY <1>0, <1>3, <2>1, <2>2
<1>4. CASE Drm!NextConnector
  <2>1. /\ drm = "search" /\ looked' = looked + 1 /\ looked' \in 1..Len(connectors)
        /\ UNCHANGED <<encoder, owned, misuse>>
    BY <1>4 DEF Drm!NextConnector
  <2>2. CASE connectors[looked'] = "match"
    <3>1. drm' = "mode" /\ live' = {looked'} /\ connector' = looked'
      BY <1>4, <2>2 DEF Drm!NextConnector
    <3> QED BY <1>0, <2>1, <3>1
  <2>3. CASE connectors[looked'] # "match"
    <3>1. drm' = "search" /\ live' = {}
      BY <1>4, <2>3 DEF Drm!NextConnector
    <3>2. \A n \in 1..looked' : connectors[n] # "match"
      BY <2>1, <2>3
    <3> QED BY <1>0, <2>1, <3>1, <3>2
  <2> QED BY <2>2, <2>3
<1>5. CASE Drm!SearchEnds
  <2>1. ~Drm!Matches
    BY <1>5 DEF Drm!SearchEnds, Drm!Matches
  <2> QED BY <1>0, <1>5, <2>1 DEF Drm!SearchEnds
<1>6. CASE Drm!ChooseMode
  BY <1>0, <1>6 DEF Drm!ChooseMode, Drm!UseConnector, Drm!Crash
<1>7. CASE Drm!GetEncoder
  BY <1>0, <1>7 DEF Drm!GetEncoder, Drm!UseConnector, Drm!Crash
<1>8. CASE Drm!MallocFb
  BY <1>0, <1>8 DEF Drm!MallocFb, Drm!Acquire, Drm!UseConnector, Drm!Crash
<1>9. CASE Drm!FreeAll
  BY <1>0, <1>9 DEF Drm!FreeAll, Drm!Crash
<1>10. CASE Drm!Draw
  BY <1>0, <1>10 DEF Drm!Draw, Drm!UseConnector, Drm!Crash
<1>11. CASE UNCHANGED Drm!vars
  BY <1>11 DEF Drm!vars, Drm!Matches
<1> QED BY <1>1, <1>2, <1>3, <1>4, <1>5, <1>6, <1>7, <1>8, <1>9, <1>10, <1>11 DEF Drm!Next

(* For any list of connectors with the one that is asked for, and whichever
   call fails, drm_fb_init and drm_draw use and free only what they hold, but
   for the encoder of a connector without modes (drm_fb.c:75-168). *)
THEOREM OnlyWhatIsHeldIsUsed == Drm!Spec => []UsesWhatItHolds
<1>1. DrmInv => UsesWhatItHolds
  BY DEF UsesWhatItHolds, DrmInv, Drm!UsesWhatItHolds
<1> QED BY <1>1, DrmInitInv, DrmStepInv, PTL DEF Drm!Spec

-----------------------------------------------------------------------------
(* sem03_asm/strchr and sem04_asm/string_lookup *)

\* The address of the 0 behind the text.
EndOfText == s + Len(text)
\* The string and its 0 lie between two multiples of 256.
OnePage == s \div Page = (s + Cardinality(Str!String)) \div Page

\* What is in the memory that is scanned.
TextInMemory ==
  /\ text \in Seq(Symbol \cup {0}) /\ Len(text) \in Nat
  /\ scan \in {"loop", "done"} =>
       /\ \A a \in s..(EndOfText - 1) : stack[a] = Str!Char(a)
       /\ stack[EndOfText] = 0

\* The pointer is in the text, and no character behind it ends the scan.
NoneBehind(stop) ==
  /\ ptr \in Nat /\ s <= ptr /\ ptr <= EndOfText
  /\ \A b \in s..(ptr - 1) : Str!Char(b) \notin stop

\* What the pointer has passed; for strchr only within one page, where
\* incrementing the lowest byte increments the pointer.
StrInv ==
  /\ s \in 0..Page /\ c \in Symbol /\ scan \in {"input", "loop", "done", "failed"}
  /\ scan = "input" => ptr = s /\ counted = 0
  /\ scanner \in {"strchr", "string_lookup"}
  /\ TextInMemory
  /\ scanner = "string_lookup" /\ scan \in {"loop", "done"} =>
       /\ NoneBehind({0})
       /\ counted = Cardinality({a \in s..(ptr - 1) : Str!Char(a) \in Letter})
       /\ scan = "done" => stack[ptr] = 0
  /\ scanner = "strchr" /\ scan \in {"loop", "done"} /\ OnePage =>
       /\ NoneBehind({0, c})
       /\ scan = "done" => /\ stack[ptr] \in {0, c}
                           /\ verdict = IF stack[ptr] = 0 THEN "not_found" ELSE "found"

\* The string ends before the first 0.
LEMMA StringIs ==
  ASSUME StrInv
  PROVE  Str!String = {a \in s..(EndOfText - 1) : \A b \in s..a : Str!Char(b) # 0}
<1>1. s + Len(text) - 1 = EndOfText - 1
  BY MCAssumption DEF Str!ConstantsOK, StrInv, TextInMemory, EndOfText
<1> QED BY Zenon, <1>1 DEF Str!String

\* The string is finite.
LEMMA StrFinite == ASSUME StrInv PROVE IsFiniteSet(Str!String)
<1>1. s \in Int /\ EndOfText - 1 \in Int
  BY MCAssumption DEF Str!ConstantsOK, StrInv, TextInMemory, EndOfText
<1>2. IsFiniteSet(s..(EndOfText - 1))
  BY <1>1, FS_Interval
<1>3. Str!String \subseteq s..(EndOfText - 1)
  BY Zenon, StringIs
<1> QED BY <1>2, <1>3, FS_Subset

\* A character that does not end the scan belongs to the string, and another
\* address of the text follows.
LEMMA NextIsInside ==
  ASSUME StrInv, NEW stop, 0 \in stop, NoneBehind(stop), scan = "loop", stack[ptr] \notin stop
  PROVE  /\ ptr < EndOfText /\ stack[ptr] = Str!Char(ptr)
         /\ s..ptr \subseteq Str!String
         /\ \A b \in s..ptr : Str!Char(b) \notin stop
<1>1. ptr \in Nat /\ s \in Nat /\ s <= ptr /\ ptr <= EndOfText /\ EndOfText \in Nat
  BY MCAssumption DEF Str!ConstantsOK, StrInv, NoneBehind, TextInMemory, EndOfText
<1>2. ptr # EndOfText
  BY DEF StrInv, TextInMemory
<1>3. stack[ptr] = Str!Char(ptr)
  BY <1>1, <1>2 DEF StrInv, TextInMemory
<1>4. \A b \in s..ptr : b \in s..(ptr - 1) \/ b = ptr
  BY <1>1
<1>5. \A b \in s..ptr : Str!Char(b) \notin stop
  BY <1>3, <1>4 DEF NoneBehind
<1>6. ASSUME NEW a \in s..ptr PROVE a \in Str!String
  <2>1. a \in s..(EndOfText - 1)
    BY <1>1, <1>2
  <2>2. \A b \in s..a : b \in s..ptr
    BY <1>1
  <2>3. \A b \in s..a : Str!Char(b) # 0
    BY <1>5, <2>2
  <2> QED BY Zenon, <2>1, <2>3, StringIs
<1> QED BY <1>1, <1>2, <1>3, <1>5, <1>6

\* The next address has the same page if the end of the string has.
LEMMA InOnePage ==
  ASSUME NEW P \in Nat \ {0}, NEW a \in Nat, NEW b \in Nat, NEW e \in Nat,
         a <= b, b + 1 <= e, a \div P = e \div P
  PROVE  P * (b \div P) + ((b + 1) % P) = b + 1
<1>1. /\ b \div P \in Int /\ (b + 1) \div P \in Int /\ a \div P \in Int
      /\ (b + 1) % P \in Int
  OBVIOUS
<1>2. b + 1 = P * ((b + 1) \div P) + ((b + 1) % P)
  OBVIOUS
<1>3. \A x, y \in Nat : x <= y => x \div P <= y \div P
  <2>1. SUFFICES ASSUME NEW x \in Nat, NEW y \in Nat, x <= y, x \div P > y \div P PROVE FALSE
    <3>1. \A x \in Nat : x \div P \in Int
      OBVIOUS
    <3> QED BY <3>1
  <2> DEFINE p == x \div P
             q == y \div P
  <2>2. /\ p \in Int /\ q \in Int /\ p >= q + 1
        /\ P * p <= x /\ y < P * q + P
    BY <2>1
  <2> HIDE DEF p, q
  <2>3. P * p >= P * (q + 1) /\ P * (q + 1) = P * q + P
    BY <2>2
  <2>4. P * p \in Int /\ P * q \in Int
    BY <2>2
  <2> QED BY <2>1, <2>2, <2>3, <2>4
<1>4. b \div P = (b + 1) \div P
  <2>1. /\ a \div P <= b \div P /\ b \div P <= (b + 1) \div P
        /\ (b + 1) \div P <= e \div P
    BY <1>3
  <2> QED BY <1>1, <2>1
<1> QED BY <1>2, <1>4

\* Nothing has been read at first.
LEMMA StrInitInv == Str!Init => StrInv
<1> SUFFICES ASSUME Str!Init PROVE StrInv
  OBVIOUS
<1>1. text \in Seq(Symbol \cup {0}) /\ Len(text) \in Nat
  BY EmptySeq DEF Str!Init
<1>2. TextInMemory
  BY <1>1 DEF Str!Init, TextInMemory
<1> QED BY <1>2, MCAssumption DEF Str!Init, StrInv, Str!ConstantsOK

\* What is read fits into the buffer.
LEMMA InputLength ==
  ASSUME NEW p, NEW n, Str!Input(p, n)
  PROVE  text' \in Seq(Symbol \cup {0}) /\ Len(text') \in 0..(Page - 1) /\ Page \in Nat
<1>0. Page \in Nat \ {0}
  BY MCAssumption DEF Str!ConstantsOK
<1>1. PICK m \in 0..(Page - 1) : text' \in [1..m -> Symbol \cup {0}]
  BY Zenon DEF Str!Input, Str!SeqOf
<1> QED BY <1>0, <1>1

\* The input puts the text and a 0 behind it into the buffer on the stack,
\* wherever that begins.
LEMMA StrInput ==
  ASSUME StrInv, NEW p, NEW n, Str!Input(p, n), p \in {"strchr", "string_lookup"},
         n \in Nat, Len(text') < n
  PROVE  StrInv'
<1>0. Page \in Nat \ {0} /\ s \in Nat /\ s <= Page
  BY MCAssumption DEF Str!ConstantsOK, StrInv
<1>1. text' \in Seq(Symbol \cup {0}) /\ Len(text') \in 0..(Page - 1)
  BY InputLength
<1>2. PICK t \in Seq(Symbol \cup {0}) : t = text'
  BY <1>1
<1>3. Len(t) \in Nat /\ Len(t) <= Page - 1 /\ Len(t) < n
  BY <1>1, <1>2, <1>0
<1>4. /\ scan = "input" /\ scan' = "loop" /\ scanner = p
      /\ UNCHANGED <<scanner, s, c, ptr, counted, verdict>>
      /\ stack' = [a \in Str!Address |->
                     CASE a \in s..(s + Len(t) - 1) -> t[a - s + 1]
                       [] a \in (s + Len(t))..(s + n - 1) -> 0
                       [] OTHER -> stack[a]]
  BY <1>2 DEF Str!Input
<1>5. \A a \in s..(s + Len(t) - 1) : stack'[a] = t[a - s + 1]
  <2> SUFFICES ASSUME NEW a \in s..(s + Len(t) - 1) PROVE stack'[a] = t[a - s + 1]
    OBVIOUS
  <2>1. a \in Str!Address /\ ~(a \in (s + Len(t))..(s + n - 1))
    BY <1>0, <1>3 DEF Str!Address
  <2> QED BY <1>4, <2>1
<1>6. stack'[s + Len(t)] = 0
  <2> DEFINE a == s + Len(t)
  <2>1. a \in Str!Address /\ a \in (s + Len(t))..(s + n - 1) /\ ~(a \in s..(s + Len(t) - 1))
    BY <1>0, <1>3 DEF Str!Address
  <2> HIDE DEF a
  <2>2. stack'[a] = 0
    BY <1>4, <2>1
  <2> QED BY <2>2 DEF a
<1>7. TextInMemory'
  <2>1. /\ EndOfText' = s + Len(t) /\ s'..(EndOfText' - 1) = s..(s + Len(t) - 1)
        /\ \A a : Str!Char(a)' = t[a - s + 1]
    BY <1>0, <1>2, <1>3, <1>4 DEF EndOfText, Str!Char
  <2>2. /\ \A a \in s'..(EndOfText' - 1) : stack'[a] = Str!Char(a)'
        /\ stack'[EndOfText'] = 0
    BY <1>5, <1>6, <2>1
  <2> QED BY <1>1, <2>2 DEF TextInMemory
<1>8. /\ ptr' \in Nat /\ s' <= ptr' /\ ptr' <= EndOfText' /\ s'..(ptr' - 1) = {}
      /\ counted' = 0
  BY <1>0, <1>2, <1>3, <1>4 DEF StrInv, EndOfText
<1>9. NoneBehind({0})' /\ NoneBehind({0, c})'
  BY <1>8 DEF NoneBehind
<1>10. counted' = Cardinality({a \in s'..(ptr' - 1) : Str!Char(a)' \in Letter})
  BY <1>8, FS_EmptySet
<1> QED BY <1>4, <1>7, <1>9, <1>10 DEF StrInv

\* A step of the loop of string_lookup.
LEMMA StrLookup == ASSUME StrInv, Str!StringLookupLoop PROVE StrInv'
<1>0. /\ Page \in Nat \ {0} /\ s \in Nat /\ s \in 0..Page
      /\ Letter \subseteq Symbol /\ 0 \notin Symbol
  BY MCAssumption DEF Str!ConstantsOK, StrInv
<1>1. /\ scan = "loop" /\ scanner = "string_lookup"
      /\ UNCHANGED <<scanner, text, stack, s, c, verdict>>
  BY DEF Str!StringLookupLoop
<1>2. /\ TextInMemory /\ NoneBehind({0}) /\ c \in Symbol
      /\ counted = Cardinality({a \in s..(ptr - 1) : Str!Char(a) \in Letter})
  BY <1>1 DEF StrInv
<1>m. ASSUME scan' \in {"loop", "done"} PROVE TextInMemory'
  BY <1>1, <1>2 DEF TextInMemory, EndOfText, Str!Char
<1>3. CASE stack[ptr] = 0
  <2>1. scan' = "done" /\ UNCHANGED <<ptr, counted>>
    BY <1>3 DEF Str!StringLookupLoop
  <2>2. NoneBehind({0})' /\ TextInMemory'
    BY <1>1, <1>2, <1>m, <2>1 DEF NoneBehind, EndOfText, Str!Char
  <2>3. counted' = Cardinality({a \in s'..(ptr' - 1) : Str!Char(a)' \in Letter})
    BY <1>1, <1>2, <2>1 DEF Str!Char
  <2> QED BY <1>0, <1>1, <1>2, <1>3, <2>1, <2>2, <2>3 DEF StrInv
<1>4. CASE stack[ptr] # 0
  <2>1. /\ scan' = "loop" /\ ptr' = ptr + 1
        /\ counted' = IF stack[ptr] \in Letter THEN counted + 1 ELSE counted
    BY <1>1, <1>4 DEF Str!StringLookupLoop
  <2>2. /\ ptr < EndOfText /\ stack[ptr] = Str!Char(ptr)
        /\ \A b \in s..ptr : Str!Char(b) # 0
        /\ ptr \in Nat /\ s <= ptr /\ EndOfText \in Nat
    <3>1. /\ ptr < EndOfText /\ stack[ptr] = Str!Char(ptr)
          /\ \A b \in s..ptr : Str!Char(b) \notin {0}
      BY <1>1, <1>2, <1>4, NextIsInside
    <3> QED BY <1>0, <1>2, <3>1 DEF NoneBehind, EndOfText, TextInMemory
  <2>3. NoneBehind({0})'
    BY <1>0, <1>1, <2>1, <2>2 DEF NoneBehind, EndOfText, Str!Char
  <2> DEFINE Old == {a \in s..(ptr - 1) : Str!Char(a) \in Letter}
             New == {a \in s..ptr : Str!Char(a) \in Letter}
  <2>4. IsFiniteSet(Old) /\ Cardinality(Old) \in Nat
    <3>1. IsFiniteSet(s..(ptr - 1))
      BY <1>0, <2>2, FS_Interval
    <3> QED BY <3>1, FS_Subset, FS_CardinalityType
  <2>5. s..ptr = s..(ptr - 1) \cup {ptr} /\ ptr \notin s..(ptr - 1)
    BY <1>0, <2>2
  <2>6. New = IF Str!Char(ptr) \in Letter THEN Old \cup {ptr} ELSE Old
    BY <2>5
  <2>7. ptr \notin Old
    BY <2>5
  <2> HIDE DEF Old, New
  <2>8. Cardinality(New) =
          IF Str!Char(ptr) \in Letter THEN Cardinality(Old) + 1 ELSE Cardinality(Old)
    BY <2>4, <2>6, <2>7, FS_AddElement
  <2>9. counted' = Cardinality(New)
    BY <1>2, <2>1, <2>2, <2>8 DEF Old
  <2>10. ptr' - 1 = ptr
    BY <2>1, <2>2
  <2>11. counted' = Cardinality({a \in s'..(ptr' - 1) : Str!Char(a)' \in Letter})
    BY <1>1, <2>9, <2>10 DEF New, Str!Char
  <2> QED BY <1>0, <1>1, <1>2, <1>m, <2>1, <2>3, <2>11 DEF StrInv
<1> QED BY <1>3, <1>4

\* A step of the loop of my_strchr, whose pointer is incremented in its
\* lowest byte only.
LEMMA StrStrchr == ASSUME StrInv, Str!StrchrLoop PROVE StrInv'
<1>0. Page \in Nat \ {0} /\ s \in Nat /\ s \in 0..Page
  BY MCAssumption DEF Str!ConstantsOK, StrInv
<1>1. /\ scan = "loop" /\ scanner = "strchr" /\ scan' \in {"loop", "done"}
      /\ UNCHANGED <<scanner, text, stack, s, c, counted>>
  BY DEF Str!StrchrLoop
<1>2. TextInMemory /\ c \in Symbol /\ (OnePage => NoneBehind({0, c}))
  BY <1>1 DEF StrInv
<1>m. TextInMemory'
  BY <1>1, <1>2 DEF TextInMemory, EndOfText, Str!Char
<1>o. OnePage' <=> OnePage
  BY <1>1 DEF OnePage, Str!String, Str!Char
<1>3. CASE stack[ptr] \in {0, c}
  <2>1. /\ scan' = "done" /\ UNCHANGED ptr
        /\ verdict' = IF stack[ptr] = 0 THEN "not_found" ELSE "found"
    BY <1>3 DEF Str!StrchrLoop
  <2>2. OnePage => NoneBehind({0, c})'
    BY <1>1, <1>2, <2>1 DEF NoneBehind, EndOfText, Str!Char
  <2> QED BY <1>0, <1>1, <1>2, <1>m, <1>o, <1>3, <2>1, <2>2 DEF StrInv
<1>4. CASE stack[ptr] \notin {0, c}
  <2>1. scan' = "loop" /\ ptr' = Str!Incb(ptr)
    BY <1>1, <1>4 DEF Str!StrchrLoop
  <2>2. ASSUME OnePage PROVE NoneBehind({0, c})'
    <3>1. /\ ptr < EndOfText /\ s..ptr \subseteq Str!String
          /\ \A b \in s..ptr : Str!Char(b) \notin {0, c}
      BY <1>1, <1>2, <1>4, <2>2, NextIsInside
    <3>2. ptr \in Nat /\ s <= ptr /\ EndOfText \in Nat
      BY <1>0, <1>2, <2>2 DEF NoneBehind, EndOfText, TextInMemory
    <3>3. IsFiniteSet(Str!String) /\ Cardinality(Str!String) \in Nat
      BY StrFinite, FS_CardinalityType
    <3>4. Cardinality(s..ptr) = ptr - s + 1 /\ Cardinality(s..ptr) <= Cardinality(Str!String)
      <4>1. Cardinality(s..ptr) = ptr - s + 1
        BY <1>0, <3>2, FS_Interval
      <4>2. s..ptr \in SUBSET Str!String
        BY <3>1
      <4> QED BY <3>3, <4>1, <4>2, FS_Subset
    <3>5. ptr + 1 <= s + Cardinality(Str!String) /\ s + Cardinality(Str!String) \in Nat
      BY <1>0, <3>2, <3>3, <3>4
    <3>6. Str!Incb(ptr) = ptr + 1
      BY <1>0, <2>2, <3>2, <3>5, InOnePage DEF OnePage, Str!Incb
    <3>7. ptr' = ptr + 1 /\ ptr' - 1 = ptr
      BY <2>1, <3>2, <3>6
    <3> QED BY <1>0, <1>1, <3>1, <3>2, <3>7 DEF NoneBehind, EndOfText, Str!Char
  <2> QED BY <1>0, <1>1, <1>2, <1>m, <1>o, <2>1, <2>2 DEF StrInv
<1> QED BY <1>3, <1>4

\* Every step of the two programs preserves the invariant.
LEMMA StrStepInv == StrInv /\ [Str!Next]_(Str!vars) => StrInv'
<1> SUFFICES ASSUME StrInv, [Str!Next]_(Str!vars) PROVE StrInv'
  OBVIOUS
<1>1. CASE Str!InputFails
  BY <1>1 DEF Str!InputFails, StrInv, TextInMemory
<1>2. CASE Str!Fgets
  <2>1. Page \in Nat /\ Len(text') < Page /\ Len(text') \in Nat
    BY <1>2, InputLength DEF Str!Fgets
  <2> QED BY <1>2, <2>1, StrInput DEF Str!Fgets
<1>3. CASE Str!Read
  <2>1. Len(text') + 1 \in Nat /\ Len(text') < Len(text') + 1
    BY <1>3, InputLength DEF Str!Read
  <2> QED BY <1>3, <2>1, StrInput DEF Str!Read
<1>4. CASE Str!StrchrLoop \/ Str!StringLookupLoop
  BY <1>4, StrStrchr, StrLookup
<1>5. CASE UNCHANGED Str!vars
  <2>1. UNCHANGED <<scanner, scan, text, stack, s, c, ptr, counted, verdict>>
    BY <1>5 DEF Str!vars
  <2> QED BY <2>1
          DEF StrInv, TextInMemory, NoneBehind, OnePage, Str!String, EndOfText, Str!Char
<1> QED BY <1>1, <1>2, <1>3, <1>4, <1>5 DEF Str!Next

(* For any page size, any text and any address of the buffer: string_lookup
   counts the letters of the string, and my_strchr finds the first
   occurrence of its character, if the string does not reach beyond a
   multiple of 256 (string_lookup.S:13-87, strchr.S:14-61). *)
THEOREM ScansAreExact == Str!Spec => []ScanIsExact
<1>1. ASSUME StrInv, scan = "done" PROVE Str!ScanIsExact
  <2>0. /\ Page \in Nat \ {0} /\ s \in Nat /\ 0 \notin Symbol /\ c \in Symbol
        /\ TextInMemory
        /\ EndOfText \in Nat /\ c # 0
    BY <1>1, MCAssumption DEF Str!ConstantsOK, StrInv, TextInMemory, EndOfText
  <2>1. ASSUME NEW stop, 0 \in stop, NoneBehind(stop), stack[ptr] = 0
        PROVE  Str!String = s..(ptr - 1)
    <3>1. /\ ptr \in Nat /\ s <= ptr /\ ptr <= EndOfText
          /\ \A b \in s..(ptr - 1) : Str!Char(b) # 0
      BY <2>1 DEF NoneBehind
    <3>2. ASSUME NEW a \in Str!String PROVE a \in s..(ptr - 1)
      <4>1. a \in s..(EndOfText - 1) /\ \A b \in s..a : Str!Char(b) # 0
        BY Zenon, <1>1, StringIs
      <4>2. CASE a < ptr
        BY <2>0, <3>1, <4>1, <4>2
      <4>3. CASE a >= ptr
        <5>1. ptr \in s..(EndOfText - 1) /\ ptr \in s..a
          BY <2>0, <3>1, <4>1, <4>3
        <5>2. Str!Char(ptr) = 0
          BY <1>1, <2>0, <2>1, <5>1 DEF TextInMemory
        <5> QED BY <4>1, <5>1, <5>2
      <4> QED BY <2>0, <3>1, <4>1, <4>2, <4>3
    <3>3. ASSUME NEW a \in s..(ptr - 1) PROVE a \in Str!String
      <4>1. a \in s..(EndOfText - 1) /\ \A b \in s..a : b \in s..(ptr - 1)
        BY <2>0, <3>1
      <4>2. \A b \in s..a : Str!Char(b) # 0
        BY <3>1, <4>1
      <4> QED BY Zenon, <1>1, <4>1, <4>2, StringIs
    <3> QED BY <3>2, <3>3
  <2>2. ASSUME scanner = "string_lookup"
        PROVE  counted = Cardinality({a \in Str!String : Str!Char(a) \in Letter})
    <3>1. Str!String = s..(ptr - 1)
      BY <1>1, <2>1, <2>2 DEF StrInv
    <3> QED BY <1>1, <2>2, <3>1 DEF StrInv
  <2>3. ASSUME scanner = "strchr", OnePage PROVE Str!FoundFirst
    <3>1. /\ NoneBehind({0, c}) /\ stack[ptr] \in {0, c}
          /\ verdict = IF stack[ptr] = 0 THEN "not_found" ELSE "found"
      BY <1>1, <2>3 DEF StrInv
    <3>2. CASE stack[ptr] = 0
      <4>1. Str!String = s..(ptr - 1)
        BY <2>1, <3>1, <3>2
      <4>2. \A a \in Str!String : Str!Char(a) # c
        BY <3>1, <4>1 DEF NoneBehind
      <4> QED BY <3>1, <3>2, <4>2 DEF Str!FoundFirst
    <3>3. CASE stack[ptr] = c
      <4>1. /\ ptr \in Nat /\ s <= ptr /\ ptr <= EndOfText
            /\ \A b \in s..(ptr - 1) : Str!Char(b) \notin {0, c}
        BY <3>1 DEF NoneBehind
      <4>2. ptr # EndOfText
        BY <1>1, <2>0, <3>3 DEF TextInMemory
      <4>3. Str!Char(ptr) = c
        BY <1>1, <2>0, <3>3, <4>1, <4>2 DEF TextInMemory
      <4>4. \A b \in s..ptr : b \in s..(ptr - 1) \/ b = ptr
        BY <2>0, <4>1
      <4>5. \A b \in s..ptr : Str!Char(b) # 0
        BY <2>0, <4>1, <4>3, <4>4
      <4>6. ptr \in s..(EndOfText - 1)
        BY <2>0, <4>1, <4>2
      <4>7. ptr \in Str!String
        BY Zenon, <1>1, <4>5, <4>6, StringIs
      <4>8. \A a \in Str!String : a \in s..(EndOfText - 1)
        BY Zenon, <1>1, StringIs
      <4>9. \A a \in Str!String : a < ptr => Str!Char(a) # c
        BY <2>0, <4>1, <4>8
      <4> QED BY <2>0, <3>1, <3>3, <4>3, <4>7, <4>9 DEF Str!FoundFirst
    <3> QED BY <3>1, <3>2, <3>3
  <2> QED BY Zenon, <1>1, <2>2, <2>3, SameCardinality DEF Str!ScanIsExact, OnePage
<1>2. StrInv => ScanIsExact
  BY <1>1 DEF ScanIsExact, Str!ScanIsExact
<1> QED BY <1>2, StrInitInv, StrStepInv, PTL DEF Str!Spec

-----------------------------------------------------------------------------
(* sem01_asm/t1.S *)

\* The values of a word.
WordValue == 0..(Wid!Span - 1)

\* The registers hold the two numbers as they were read, in two words each.
WidInv ==
  /\ call \in {"readi32", "readi64", "add", "finish", "failed"}
  /\ call \in {"readi64", "add"} =>
       /\ number32 \in -SumHalf..(SumHalf - 1)
       /\ ebx = IF number32 < 0 THEN number32 + Wid!Span ELSE number32
       /\ high = IF number32 < 0 THEN Wid!Span - 1 ELSE 0
  /\ call = "add" =>
       /\ low \in WordValue /\ edx \in WordValue /\ number64 \in Int
       /\ number64 = Wid!Span * Wid!Signed(edx) + low
  /\ Wid!SumIsExact

\* A number in two words fits exactly if its upper word is in the range of a
\* signed word.
LEMMA WordRange ==
  /\ Wid!Span \in Nat \ {0} /\ Wid!Span = 2 * SumHalf /\ SumHalf \in Nat \ {0}
  /\ SumHalf * Wid!Span \in Nat
  /\ \A h \in Int, r \in WordValue : Wid!Span * h \in Int /\
       (Wid!Span * h + r \in Wid!Wide <=> h \in -SumHalf..(SumHalf - 1))
<1>1. /\ Wid!Span \in Nat \ {0} /\ Wid!Span = 2 * SumHalf
      /\ SumHalf \in Nat \ {0} /\ SumHalf * Wid!Span \in Nat
  BY MCAssumption DEF Wid!Span, Wid!ConstantsOK
<1>2. ASSUME NEW h \in Int, NEW r \in WordValue
      PROVE  /\ Wid!Span * h \in Int
             /\ (Wid!Span * h + r \in Wid!Wide <=> h \in -SumHalf..(SumHalf - 1))
  <2>0. Wid!Span * h \in Int /\ r \in Int /\ 0 <= r /\ r < Wid!Span
    BY <1>1, <1>2 DEF WordValue
  <2>1. CASE h >= SumHalf
    <3>1. Wid!Span * h >= Wid!Span * SumHalf
      BY <1>1, <2>1
    <3> QED BY <1>1, <2>0, <2>1, <3>1 DEF Wid!Wide
  <2>2. CASE h < -SumHalf
    <3>1. Wid!Span * h <= Wid!Span * (-SumHalf - 1)
      BY <1>1, <2>2
    <3>2. Wid!Span * (-SumHalf - 1) = -(SumHalf * Wid!Span) - Wid!Span
      BY <1>1
    <3> QED BY <1>1, <2>0, <2>2, <3>1, <3>2 DEF Wid!Wide
  <2>3. CASE h >= -SumHalf /\ h < SumHalf
    <3>1. Wid!Span * h <= Wid!Span * (SumHalf - 1) /\ Wid!Span * h >= Wid!Span * (-SumHalf)
      BY <1>1, <2>3
    <3>2. /\ Wid!Span * (SumHalf - 1) = SumHalf * Wid!Span - Wid!Span
          /\ Wid!Span * (-SumHalf) = -(SumHalf * Wid!Span)
      BY <1>1
    <3> QED BY <1>1, <2>0, <2>3, <3>1, <3>2 DEF Wid!Wide
  <2> QED BY <1>1, <2>1, <2>2, <2>3
<1> QED BY <1>1, <1>2

\* Quotient and remainder are unique for the range of a word.
LEMMA Modulo ==
  ASSUME NEW q \in Int, NEW h \in Int, NEW r \in WordValue, q = Wid!Span * h + r
  PROVE  q \div Wid!Span = h /\ q % Wid!Span = r
<1>1. Wid!Span \in Nat \ {0} /\ r \in 0..(Wid!Span - 1)
  BY WordRange DEF WordValue
<1> QED BY <1>1, DivisionUnique

\* A number of 32 bits as a word, and its sign extended into a second one by
\* cdq.
LEMMA SignedWord ==
  ASSUME NEW m \in -SumHalf..(SumHalf - 1)
  PROVE  /\ m % Wid!Span \in WordValue /\ Wid!Signed(m % Wid!Span) = m /\ m \in Int
         /\ m % Wid!Span = IF m < 0 THEN m + Wid!Span ELSE m
         /\ Wid!Cdq(m % Wid!Span) = IF m < 0 THEN Wid!Span - 1 ELSE 0
<1>0. Wid!Span \in Nat \ {0} /\ Wid!Span = 2 * SumHalf /\ SumHalf \in Nat \ {0} /\ m \in Int
      /\ m >= -SumHalf /\ m <= SumHalf - 1
  BY WordRange
<1>1. CASE m < 0
  <2>1. m + Wid!Span \in WordValue /\ m = Wid!Span * (-1) + (m + Wid!Span)
    BY <1>0, <1>1 DEF WordValue
  <2>2. m % Wid!Span = m + Wid!Span
    <3>1. -1 \in Int
      OBVIOUS
    <3> QED BY <1>0, <2>1, <3>1, Modulo
  <2> QED BY <1>0, <1>1, <2>1, <2>2 DEF Wid!Signed, Wid!Cdq
<1>2. CASE m >= 0
  <2>1. m \in WordValue /\ m = Wid!Span * 0 + m
    BY <1>0, <1>2 DEF WordValue
  <2>2. m % Wid!Span = m
    BY <1>0, <2>1, Modulo
  <2> QED BY <1>0, <1>2, <2>1, <2>2 DEF Wid!Signed, Wid!Cdq
<1> QED BY <1>0, <1>1, <1>2

\* The words of a number.
LEMMA Residue ==
  ASSUME NEW q \in Int
  PROVE  /\ q % Wid!Span \in WordValue /\ q \div Wid!Span \in Int
         /\ q = Wid!Span * (q \div Wid!Span) + (q % Wid!Span)
  BY WordRange, DivisionInt DEF WordValue

\* Addition in two columns with a carry.
LEMMA Columns ==
  ASSUME NEW S \in Int, NEW x \in Int, NEW y \in Int, NEW z \in Int,
         NEW a \in Int, NEW b \in Int, NEW r \in Int, a + b = S * z + r
  PROVE  (S * y + b) + (S * x + a) = S * (x + y + z) + r
<1>1. S * (x + y + z) = S * x + S * y + S * z
  OBVIOUS
<1>2. S * x \in Int /\ S * y \in Int /\ S * z \in Int
  OBVIOUS
<1> QED BY <1>1, <1>2

\* Nothing has been read at first.
LEMMA WidInitInv == Wid!Init => WidInv
  BY DEF Wid!Init, WidInv, Wid!SumIsExact

\* Reading splits a number into words without loss, and add and adc with the
\* carry add up the words to the words of the sum.
LEMMA WidStepInv == WidInv /\ [Wid!Next]_(Wid!vars) => WidInv'
<1> SUFFICES ASSUME WidInv, [Wid!Next]_(Wid!vars) PROVE WidInv'
  OBVIOUS
<1>0. Wid!Span \in Nat \ {0} /\ Wid!Span = 2 * SumHalf /\ SumHalf \in Nat \ {0}
  BY WordRange
<1>1. CASE Wid!Readi32
  <2>1. /\ number32' \in -SumHalf..(SumHalf - 1) /\ low' = number32' % Wid!Span
        /\ ebx' = low' /\ high' = Wid!Cdq(low') /\ call' = "readi64"
    BY <1>1 DEF Wid!Readi32
  <2>2. PICK m \in -SumHalf..(SumHalf - 1) : m = number32'
    BY <2>1
  <2>3. /\ m % Wid!Span = IF m < 0 THEN m + Wid!Span ELSE m
        /\ Wid!Cdq(m % Wid!Span) = IF m < 0 THEN Wid!Span - 1 ELSE 0
    BY SignedWord
  <2> QED BY <2>1, <2>2, <2>3 DEF WidInv, Wid!SumIsExact
<1>2. CASE Wid!Readi64
  <2>1. /\ number64' \in Wid!Wide /\ low' = number64' % Wid!Span
        /\ edx' = (number64' \div Wid!Span) % Wid!Span
        /\ call = "readi64" /\ call' = "add" /\ UNCHANGED <<ebx, high, number32, output>>
    BY <1>2 DEF Wid!Readi64
  <2> DEFINE q == number64' \div Wid!Span
  <2>2. number64' \in Int
    BY <2>1, WordRange DEF Wid!Wide
  <2>3. low' \in WordValue /\ q \in Int /\ number64' = Wid!Span * q + low'
    BY <2>1, <2>2, Residue
  <2> HIDE DEF q
  <2>4. q \in -SumHalf..(SumHalf - 1)
    BY <2>1, <2>3, WordRange
  <2>6. edx' \in WordValue /\ Wid!Signed(edx') = q
    <3>1. edx' = q % Wid!Span
      BY <2>1 DEF q
    <3> QED BY <2>4, <3>1, SignedWord
  <2> QED BY <2>1, <2>2, <2>3, <2>6 DEF WidInv, Wid!SumIsExact, Wid!Signed
<1>3. CASE Wid!WrongInput
  BY <1>3 DEF Wid!WrongInput, WidInv, Wid!SumIsExact
<1>4. CASE Wid!Add
  <2> DEFINE carry == (low + ebx) \div Wid!Span
             h == Wid!Signed(edx) + Wid!Signed(high) + carry
  <2>1. /\ call = "add" /\ call' = "finish" /\ low' = (low + ebx) % Wid!Span
        /\ edx' = (edx + high + carry) % Wid!Span
        /\ output' = IF h \in -SumHalf..(SumHalf - 1)
                     THEN Wid!Signed(edx') * Wid!Span + low' ELSE -1
        /\ UNCHANGED <<number32, number64>>
    BY <1>4 DEF Wid!Add
  <2>2. /\ low \in WordValue /\ edx \in WordValue
        /\ number64 = Wid!Span * Wid!Signed(edx) + low
        /\ ebx \in WordValue /\ high \in WordValue
        /\ number32 = Wid!Span * Wid!Signed(high) + ebx
        /\ number32 \in Int /\ number64 \in Int
    BY <1>0, <2>1 DEF WidInv, WordValue, Wid!Signed
  <2>3. /\ low' \in WordValue /\ carry \in Int /\ low + ebx = Wid!Span * carry + low'
    <3>1. low + ebx \in Int
      BY <1>0, <2>2 DEF WordValue
    <3> QED BY <2>1, <3>1, Residue
  <2> HIDE DEF carry
  <2>4. Wid!Signed(edx) \in Int /\ Wid!Signed(high) \in Int
    BY <1>0, <2>2 DEF WordValue, Wid!Signed
  <2>5. number32 + number64 = Wid!Span * h + low' /\ h \in Int
    <3> DEFINE x == Wid!Signed(edx)
               y == Wid!Signed(high)
    <3>1. /\ x \in Int /\ y \in Int /\ carry \in Int /\ low' \in Int /\ low \in Int
          /\ ebx \in Int
          /\ number32 = Wid!Span * y + ebx /\ number64 = Wid!Span * x + low
          /\ low + ebx = Wid!Span * carry + low'
      <4>1. low' \in Int /\ low \in Int /\ ebx \in Int
        BY <1>0, <2>2, <2>3 DEF WordValue
      <4> QED BY <2>2, <2>3, <2>4, <4>1
    <3> HIDE DEF x, y
    <3>3. number32 + number64 = Wid!Span * (x + y + carry) + low'
      <4>1. PICK r \in Int : r = low'
        BY <3>1
      <4>2. Wid!Span \in Int
        BY <1>0
      <4>5. low + ebx = Wid!Span * carry + r
        BY Zenon, <3>1, <4>1
      <4>3. (Wid!Span * y + ebx) + (Wid!Span * x + low) = Wid!Span * (x + y + carry) + r
        BY <3>1, <4>2, <4>5, Columns
      <4> QED BY <3>1, <4>1, <4>3
    <3> QED BY <3>1, <3>3 DEF x, y
  <2>6. number32 + number64 \in Wid!Wide <=> h \in -SumHalf..(SumHalf - 1)
    BY <2>3, <2>5, WordRange
  <2>7. ASSUME h \in -SumHalf..(SumHalf - 1) PROVE Wid!Signed(edx') = h
    <3> DEFINE w == IF h < 0 THEN h + Wid!Span ELSE h
               t == IF edx >= SumHalf THEN 1 ELSE 0
               u == IF high >= SumHalf THEN 1 ELSE 0
               v == IF h < 0 THEN 1 ELSE 0
    <3>1. /\ w \in WordValue /\ Wid!Signed(w) = h
      BY <1>0, <2>5, <2>7 DEF WordValue, Wid!Signed
    <3>2. edx + high + carry = h + Wid!Span * (t + u)
      BY <1>0, <2>2, <2>3, <2>4 DEF WordValue, Wid!Signed
    <3>3. edx + high + carry = Wid!Span * (t + u - v) + w
      BY <1>0, <2>5, <3>2
    <3>4. edx + high + carry \in Int /\ t + u - v \in Int
      BY <1>0, <2>2, <2>3 DEF WordValue
    <3> HIDE DEF t, u, v, w
    <3>5. (edx + high + carry) % Wid!Span = w
      BY <3>1, <3>3, <3>4, Modulo
    <3> QED BY <2>1, <3>1, <3>5
  <2> QED BY <1>0, <2>1, <2>5, <2>6, <2>7 DEF WidInv, Wid!SumIsExact
<1>5. CASE UNCHANGED Wid!vars
  BY <1>5 DEF Wid!vars, WidInv, Wid!SumIsExact, Wid!Signed
<1> QED BY <1>1, <1>2, <1>3, <1>4, <1>5 DEF Wid!Next

(* For any width of the words, and any two numbers of one and of two words:
   the sum t1 prints is exact if it fits into two words, and it prints -1
   if not (t1.S:1-5, 32-62). *)
THEOREM SumsAreExact == Wid!Spec => []SumIsExact
<1>1. WidInv => SumIsExact
  BY DEF SumIsExact, WidInv
<1> QED BY <1>1, WidInitInv, WidStepInv, PTL DEF Wid!Spec

-----------------------------------------------------------------------------
(* sem09_sse/image_brightness *)

\* The lines and brightnesses the property is about.
WholeBlocks == Len(line) % Block = 0 /\ brightness \in -(Byte - 1)..(Byte - 1)

\* The line when the block loop has done its first n pixels.
Brightened(pixels, b, n) ==
  [j \in DOMAIN pixels |-> IF j <= n THEN SsePixel(pixels[j], b) ELSE pixels[j]]
\* The line that the plain loop makes.
Naively(pixels, b) == [j \in DOMAIN pixels |-> NaivePixel(pixels[j], b)]

\* The block loop has done the pixels up to edi, and what is left is a number
\* of whole blocks.
SseInv ==
  /\ line \in Seq(Pixel) /\ naive = Naively(line, brightness)
  /\ sse = Brightened(line, brightness, edi)
  /\ edi \in Nat /\ ecx \in Int /\ edi + ecx = Len(line)
  /\ ~beyond /\ \E k \in Nat : ecx = Block * k

\* A saturating addition or subtraction of a byte is the clamped sum, for
\* each pixel.
LEMMA PixelsAgree ==
  ASSUME NEW pix \in Pixel, NEW b \in -(Byte - 1)..(Byte - 1)
  PROVE  SsePixel(pix, b) = NaivePixel(pix, b)
<1>1. Byte \in Nat \ {0} /\ pix \in Int /\ b \in Int /\ 0 <= pix /\ pix <= Byte - 1
  BY BrightnessAssumption DEF Pixel
<1>2. CASE b >= 0
  <2>1. b % Byte = b
    BY <1>1, <1>2
  <2> QED BY <1>1, <1>2, <2>1 DEF SsePixel, NaivePixel, Al
<1>3. CASE b < 0
  <2>1. (-b) % Byte = -b
    BY <1>1, <1>3
  <2> QED BY <1>1, <1>3, <2>1 DEF SsePixel, NaivePixel, Al
<1> QED BY <1>1, <1>2, <1>3

(* For any number of pixels in a register, any line of whole blocks and any
   brightness of less than a byte's range: sse_brightness stops at the end
   of the line and has made of it what naive_brightness does
   (image_brightness.c:39-113). *)
THEOREM SseAgreesWithNaive == SseSpec => []SseIsNaive
<1>1. SseInit => (WholeBlocks => SseInv)
  <2> SUFFICES ASSUME SseInit, WholeBlocks PROVE SseInv
    OBVIOUS
  <2>1. PICK n \in 1..MaxLen : line \in [1..n -> Pixel] /\ ecx = n
    BY DEF SseInit
  <2>2. line \in Seq(Pixel) /\ Len(line) = n /\ DOMAIN line = 1..n
    BY <2>1, BrightnessAssumption
  <2>3. \E k \in Nat : ecx = Block * k
    <3>1. ecx % Block = 0 /\ ecx \in Nat /\ Block \in Nat \ {0}
      BY <2>1, <2>2, BrightnessAssumption DEF WholeBlocks
    <3>2. ecx \div Block \in Nat /\ ecx = Block * (ecx \div Block)
      BY <3>1
    <3> QED BY <3>2
  <2>4. sse = Brightened(line, brightness, edi) /\ naive = Naively(line, brightness)
    BY <2>2 DEF SseInit, Brightened, Naively
  <2> QED BY <2>1, <2>2, <2>3, <2>4 DEF SseInit, SseInv
<1>2. (WholeBlocks => SseInv) /\ [SseBlock]_sseVars => (WholeBlocks => SseInv)'
  <2>1. [SseBlock]_sseVars => line' = line /\ brightness' = brightness /\ naive' = naive
    BY DEF SseBlock, sseVars
  <2>2. ASSUME SseInv, SseBlock, WholeBlocks PROVE SseInv'
    <3>1. PICK k \in Nat : ecx = Block * k
      BY <2>2 DEF SseInv
    <3>2. edi \in Nat /\ ecx \in Int /\ edi + ecx = Len(line) /\ Block \in Nat \ {0}
      BY <2>2, BrightnessAssumption DEF SseInv
    <3>3. edi' = edi + Block /\ ecx' = ecx - Block /\ beyond' = (ecx < Block) /\ ecx # 0
      BY <2>2 DEF SseBlock
    <3>4. k - 1 \in Nat /\ ecx - Block = Block * (k - 1) /\ ecx >= Block
      BY <3>1, <3>2, <3>3
    <3>5. ~(ecx < Block)
      BY <3>2, <3>4
    <3>6. edi' \in Nat /\ ecx' \in Int /\ edi' + ecx' = Len(line)
      BY <3>2, <3>3
    <3>7. ~beyond'
      BY Zenon, <3>3, <3>5
    <3>8. \E m \in Nat : ecx' = Block * m
      BY Zenon, <3>3, <3>4
    <3>9. \A j \in DOMAIN line : j \in Int
      BY <2>2 DEF SseInv
    <3>10. sse' = Brightened(line, brightness, edi + Block)
      BY <2>2, <3>2, <3>9 DEF SseInv, SseBlock, Brightened
    <3> QED BY <2>1, <2>2, <3>3, <3>6, <3>7, <3>8, <3>10 DEF SseInv
  <2>3. SseInv /\ UNCHANGED sseVars => SseInv'
    BY DEF SseInv, sseVars
  <2> QED BY <2>1, <2>2, <2>3 DEF WholeBlocks
<1>3. (WholeBlocks => SseInv) => SseIsNaive
  <2> SUFFICES ASSUME WholeBlocks, SseInv, ecx = 0 PROVE sse = naive
    BY DEF WholeBlocks, SseIsNaive, SseInv
  <2>1. \A j \in DOMAIN line : j <= edi /\ line[j] \in Pixel
    BY DEF SseInv
  <2> QED BY <2>1, PixelsAgree DEF SseInv, WholeBlocks, Brightened, Naively
<1> QED BY <1>1, <1>2, <1>3, PTL DEF SseSpec

-----------------------------------------------------------------------------
(* sem05_syscalls_io/cat *)

\* How many bytes of the file at hand have been written.
Shown == IF at # "write" THEN pos ELSE IF cat = "cat1" THEN 0 ELSE pos - Len(buffer)

\* The types of what the proof reasons about.
CatTypes ==
  /\ cat \in {"cat1", "cat2"}
  /\ at \in {"open", "seek", "read", "write", "done", "failed"}
  /\ arg \in 1..(Files + 1) /\ (at = "done" <=> arg = Files + 1)
  /\ length \in [1..Files -> Nat] /\ file_size \in Nat /\ pos \in Nat
  /\ Shown \in Nat /\ stdout \in Seq(Nat \X Nat)
  /\ at = "write" => buffer \in Seq(Nat) /\ \A k \in 1..Len(buffer) : buffer[k] = Shown + k

\* What a program knows of the file at hand, if nobody has changed it.
AtHandUnchanged ==
  arg \in 1..Files \ changed =>
    /\ cat = "cat2" => pos <= length[arg]
    /\ cat = "cat2" /\ at = "write" /\ buffer = <<>> => pos = length[arg]
    /\ cat = "cat1" /\ at \in {"read", "write"} => file_size = length[arg]

\* What is written ends with the first m bytes of file a.
EndsAt(u, a, m) ==
  /\ Cat1!InTurn(u) /\ \A k \in DOMAIN u : u[k][1] <= a
  /\ Cat1!Of(u, a) = 1..m
  /\ IF m = 0 THEN \A k \in DOMAIN u : u[k][1] < a
     ELSE Len(u) # 0 /\ u[Len(u)] = <<a, m>>
\* v is u and the n bytes of file a after the first m.
Grows(u, v, a, m, n) ==
  /\ Len(v) = Len(u) + n /\ \A k \in 1..Len(u) : v[k] = u[k]
  /\ \A k \in 1..n : v[Len(u) + k] = <<a, m + k>>

(* Only files before the one at hand have failed; each of the others is there
   as a whole, and of the file at hand are the bytes written so far, last. *)
CatProgress ==
  /\ errors \cup cut \subseteq 1..(arg - 1)
  /\ cat = "cat2" => errors \cup cut = {}
  /\ \A f \in 1..(arg - 1) \ (changed \cup cut) :
       Cat1!Of(stdout, f) = 1..(IF f \in errors THEN 0 ELSE length[f])
  /\ EndsAt(stdout, arg, Shown)
  /\ AtHandUnchanged

CatInv ==
  /\ CatTypes /\ Cat1!InTurn(stdout)
  /\ cat = "cat1" => pos = 0 /\ (at = "write" => Len(buffer) = file_size) /\ at # "failed"
  /\ at # "failed" => CatProgress

\* The programs start with the first file and an empty stdout.
LEMMA CatInitInv == Cat1!Init => CatInv
<1> SUFFICES ASSUME Cat1!Init PROVE CatInv
  OBVIOUS
<1>1. Files \in Nat /\ 0..MaxSize \subseteq Nat
  BY MCAssumption DEF Cat1!ConstantsOK
<1>2. Cat1!Of(stdout, arg) = {} /\ Cat1!InTurn(stdout)
  BY DEF Cat1!Init, Cat1!Of, Cat1!InTurn
<1> QED
  BY <1>1, <1>2
  DEF Cat1!Init, CatInv, CatTypes, CatProgress, AtHandUnchanged, Shown, EndsAt

\* Appending to a sequence keeps what there was.
LEMMA Appended ==
  ASSUME NEW S, NEW u \in Seq(S), NEW v \in Seq(S)
  PROVE  /\ u \o v \in Seq(S) /\ Len(u \o v) = Len(u) + Len(v)
         /\ \A k \in 1..Len(u) : (u \o v)[k] = u[k]
         /\ \A k \in 1..Len(v) : (u \o v)[Len(u) + k] = v[k]
  OBVIOUS

\* What write takes of the file at hand continues what there is of it.
LEMMA Continued ==
  ASSUME NEW u \in Seq(Nat \X Nat), NEW v \in Seq(Nat \X Nat),
         NEW a \in Nat, NEW m \in Nat, NEW n \in Nat,
         EndsAt(u, a, m), Grows(u, v, a, m, n)
  PROVE  /\ EndsAt(v, a, m + n)
         /\ \A f : f # a => Cat1!Of(v, f) = Cat1!Of(u, f)
<1> DEFINE l == Len(u)
<1>1. l \in Nat /\ Len(v) = l + n /\ DOMAIN u = 1..l /\ DOMAIN v = 1..(l + n)
  BY DEF Grows
<1>2. \A k \in 1..l : v[k] = u[k]
  BY DEF Grows
<1>3. \A k \in 1..n : v[l + k] = <<a, m + k>> /\ v[l + k][1] = a /\ v[l + k][2] = m + k
  <2> TAKE k \in 1..n
  <2>1. v[l + k] = <<a, m + k>>
    BY DEF Grows
  <2> QED BY <2>1
<1>4. IF m = 0 THEN \A k \in 1..l : u[k][1] < a ELSE l # 0 /\ u[l] = <<a, m>>
  BY DEF EndsAt
<1> HIDE DEF l
<1>5. \A k \in 1..(l + n) : k \in 1..l \/ (\E j \in 1..n : k = l + j)
  <2> TAKE k \in 1..(l + n)
  <2>1. CASE k > l
    <3>1. k - l \in 1..n /\ k = l + (k - l)
      BY <1>1, <2>1
    <3> QED BY <3>1
  <2> QED BY <1>1, <2>1
<1>7. Cat1!InTurn(v)
  <2> SUFFICES ASSUME NEW k \in 1..(l + n)
               PROVE  IF v[k][2] = 1 THEN k > 1 => v[k - 1][1] < v[k][1]
                      ELSE k > 1 /\ v[k - 1] = <<v[k][1], v[k][2] - 1>>
    BY <1>1 DEF Cat1!InTurn
  <2>1. CASE k \in 1..l
    <3>1. k > 1 => k - 1 \in 1..l
      BY <2>1, <1>1
    <3>2. v[k] = u[k] /\ (k > 1 => v[k - 1] = u[k - 1])
      BY <1>2, <2>1, <3>1
    <3>3. IF u[k][2] = 1 THEN k > 1 => u[k - 1][1] < u[k][1]
          ELSE k > 1 /\ u[k - 1] = <<u[k][1], u[k][2] - 1>>
      BY <1>1, <2>1 DEF EndsAt, Cat1!InTurn
    <3> QED BY <3>2, <3>3
  <2>2. CASE \E j \in 1..n : k = l + j
    <3>0. PICK j \in 1..n : k = l + j
      BY <2>2
    <3>1. v[k] = <<a, m + j>> /\ v[k][1] = a /\ v[k][2] = m + j
      BY <1>3, <3>0
    <3>2. CASE j = 1
      <4>1. k > 1 => k - 1 = l /\ l \in 1..l
        BY <1>1, <3>0, <3>2
      <4>2. CASE m = 0
        <5>1. m + j = 1
          BY <3>2, <4>2
        <5>2. k > 1 => v[k - 1] = u[l] /\ u[l][1] < a
          BY <1>2, <1>4, <4>1, <4>2
        <5> QED BY <3>1, <5>1, <5>2
      <4>3. CASE m # 0
        <5>0. l # 0 /\ u[l] = <<a, m>>
          BY <1>4, <4>3
        <5>1. k > 1 /\ v[k - 1] = <<a, m>>
          <6>1. k > 1
            BY <1>1, <3>0, <3>2, <5>0
          <6> QED BY <1>2, <4>1, <5>0, <6>1
        <5>2. m + j # 1 /\ m + j - 1 = m
          BY <3>2, <4>3
        <5> QED BY <3>1, <5>1, <5>2
      <4> QED BY <4>2, <4>3
    <3>3. CASE j # 1
      <4>1. j - 1 \in 1..n /\ k - 1 = l + (j - 1) /\ k > 1 /\ m + j # 1
        BY <1>1, <3>0, <3>3
      <4>2. v[k - 1] = <<a, m + (j - 1)>> /\ m + (j - 1) = (m + j) - 1
        BY <1>3, <4>1
      <4> QED BY <3>1, <4>1, <4>2
    <3> QED BY <3>2, <3>3
  <2> QED BY <1>5, <2>1, <2>2
<1>8. \A f : Cat1!Of(v, f) = IF f = a THEN 1..(m + n) ELSE Cat1!Of(u, f)
  <2> TAKE f
  <2>1. \A b : b \in Cat1!Of(v, f) <=> \E k \in 1..(l + n) : v[k][1] = f /\ v[k][2] = b
    BY <1>1 DEF Cat1!Of
  <2>2. \A b : b \in Cat1!Of(u, f) <=> \E k \in 1..l : u[k][1] = f /\ u[k][2] = b
    BY <1>1 DEF Cat1!Of
  <2>3. (\A k \in 1..l : k \in 1..(l + n)) /\ Cat1!Of(u, a) = 1..m
    BY <1>1 DEF EndsAt
  <2>4. ASSUME NEW b PROVE b \in Cat1!Of(u, f) => b \in Cat1!Of(v, f)
    <3> SUFFICES ASSUME b \in Cat1!Of(u, f) PROVE b \in Cat1!Of(v, f)
      OBVIOUS
    <3>1. PICK k \in 1..l : u[k][1] = f /\ u[k][2] = b
      BY <2>2
    <3>2. v[k] = u[k] /\ k \in 1..(l + n)
      BY <1>2, <2>3
    <3> QED BY <2>1, <3>1, <3>2
  <2>5. ASSUME NEW b, b \in Cat1!Of(v, f)
        PROVE  b \in Cat1!Of(u, f) \/ (f = a /\ \E j \in 1..n : b = m + j)
    <3>1. PICK k \in 1..(l + n) : v[k][1] = f /\ v[k][2] = b
      BY <2>1, <2>5
    <3>2. CASE k \in 1..l
      BY <1>2, <2>2, <3>1, <3>2
    <3>3. CASE \E j \in 1..n : k = l + j
      BY <1>3, <3>1, <3>3
    <3> QED BY <1>5, <3>2, <3>3
  <2>6. CASE f = a
    <3>1. ASSUME NEW b \in 1..(m + n) PROVE b \in Cat1!Of(v, f)
      <4>1. CASE b \in 1..m
        BY <2>3, <2>4, <2>6, <4>1
      <4>2. CASE ~(b \in 1..m)
        <5>1. b - m \in 1..n /\ m + (b - m) = b
          BY <4>2
        <5>2. PICK j \in 1..n : j = b - m
          BY <5>1
        <5>3. v[l + j][1] = a /\ v[l + j][2] = b
          BY <1>3, <5>1, <5>2
        <5>4. l + j \in 1..(l + n)
          BY <1>1
        <5> QED BY <2>1, <2>6, <5>3, <5>4
      <4> QED BY <4>1, <4>2
    <3>2. ASSUME NEW b \in Cat1!Of(v, f) PROVE b \in 1..(m + n)
      <4>1. CASE b \in Cat1!Of(u, a)
        BY <2>3, <4>1
      <4> QED BY <2>5, <2>6, <4>1
    <3>3. Cat1!Of(v, f) = 1..(m + n)
      BY <3>1, <3>2, Zenon
    <3> QED BY <2>6, <3>3
  <2>7. CASE f # a
    <3>1. Cat1!Of(v, f) = Cat1!Of(u, f)
      BY <2>4, <2>5, <2>7, Zenon
    <3> QED BY <2>7, <3>1
  <2> QED BY <2>6, <2>7
<1>9. \A k \in DOMAIN v : v[k][1] <= a
  <2>1. \A k \in 1..l : u[k][1] <= a
    BY <1>1 DEF EndsAt
  <2> SUFFICES ASSUME NEW k \in 1..(l + n) PROVE v[k][1] <= a
    BY <1>1
  <2>2. CASE k \in 1..l
    BY <1>2, <2>1, <2>2
  <2>3. CASE \E j \in 1..n : k = l + j
    BY <1>3, <2>3
  <2> QED BY <1>5, <2>2, <2>3
<1>10. IF m + n = 0 THEN \A k \in DOMAIN v : v[k][1] < a
       ELSE Len(v) # 0 /\ v[Len(v)] = <<a, m + n>>
  <2>1. CASE n = 0
    <3>1. l + n = l /\ m + n = m /\ (l # 0 => v[l] = u[l])
      BY <1>1, <1>2, <2>1
    <3> QED BY <1>1, <1>2, <1>4, <3>1
  <2>2. CASE n # 0
    <3>1. n \in 1..n /\ l + n # 0 /\ m + n # 0
      BY <1>1, <2>2
    <3> QED BY <1>1, <1>3, <3>1
  <2> QED BY <2>1, <2>2
<1> QED BY <1>7, <1>8, <1>9, <1>10 DEF EndsAt

\* A file is done: what comes next ends with no byte of the next one.
LEMMA NextAtNothing ==
  ASSUME NEW u, NEW a \in Nat, NEW m \in Nat, EndsAt(u, a, m), u \in Seq(Nat \X Nat)
  PROVE  EndsAt(u, a + 1, 0)
<1>1. /\ DOMAIN u = 1..Len(u) /\ \A k \in 1..Len(u) : u[k] \in Nat \X Nat
      /\ \A k \in 1..Len(u) : u[k][1] \in Nat /\ u[k][1] <= a
  BY DEF EndsAt
<1>2. \A k \in 1..Len(u) : u[k][1] < a + 1
  BY <1>1
<1>3. Cat1!Of(u, a + 1) = {}
  BY <1>1, <1>2 DEF Cat1!Of
<1> QED BY <1>1, <1>2, <1>3 DEF EndsAt

(* The loop goes on to the next file: the one at hand has been written as a
   whole, or it has failed, was changed or cut, whatever step ends it. *)
LEMMA FileDone ==
  ASSUME CatInv, Cat1!NextFile, arg <= Files, UNCHANGED <<cat, length, changed>>, at # "failed",
         NEW m \in Nat, EndsAt(stdout', arg, m), stdout' \in Seq(Nat \X Nat),
         \A f : f # arg => Cat1!Of(stdout', f) = Cat1!Of(stdout, f),
         file_size' = file_size,
         errors' \in {errors, errors \cup {arg}}, cut' \in {cut, cut \cup {arg}},
         cat = "cat2" => errors' = errors /\ cut' = cut,
         arg \notin changed \cup cut' => m = IF arg \in errors' THEN 0 ELSE length[arg]
  PROVE  CatInv'
<1>0. /\ Files \in Nat /\ arg \in Nat /\ arg # 0 /\ arg' = arg + 1 /\ pos' = 0
      /\ at' = (IF arg < Files THEN "open" ELSE "done") /\ CatProgress
  BY MCAssumption DEF Cat1!ConstantsOK, CatInv, CatTypes, Cat1!NextFile
<1>1. Shown' = 0
  BY <1>0 DEF Shown
<1>2. CatTypes'
  BY <1>0, <1>1 DEF CatInv, CatTypes
<1>3. EndsAt(stdout', arg', 0) /\ Cat1!InTurn(stdout')
  BY <1>0, NextAtNothing DEF EndsAt
<1>4. AtHandUnchanged'
  BY <1>0, <1>2 DEF AtHandUnchanged, CatTypes
<1>5. errors' \cup cut' \subseteq 1..arg /\ (cat = "cat2" => errors' \cup cut' = {})
  BY <1>0 DEF CatProgress
<1>6. ASSUME NEW f \in 1..arg, f \notin changed \cup cut'
      PROVE  Cat1!Of(stdout', f) = 1..(IF f \in errors' THEN 0 ELSE length[f])
  <2>1. CASE f = arg
    <3>1. Cat1!Of(stdout', f) = 1..m
      BY <2>1 DEF EndsAt
    <3> QED BY <1>6, <2>1, <3>1
  <2>2. CASE f # arg
    <3>1. f \in 1..(arg - 1) /\ f \notin changed \cup cut /\ (f \in errors' <=> f \in errors)
      BY <1>0, <1>6, <2>2
    <3> QED BY <1>0, <2>2, <3>1 DEF CatProgress
  <2> QED BY <2>1, <2>2
<1>7. arg' - 1 = arg
  BY <1>0
<1>8. CatProgress'
  BY <1>1, <1>3, <1>4, <1>5, <1>6, <1>7 DEF CatProgress
<1> QED BY <1>0, <1>2, <1>3, <1>8 DEF CatInv

\* Every statement of the two loops and every change of a file by another
\* process preserves the invariant.
LEMMA CatStepInv == CatInv /\ [Cat1!Next]_(Cat1!vars) => CatInv'
<1> SUFFICES ASSUME CatInv, [Cat1!Next]_(Cat1!vars) PROVE CatInv'
  OBVIOUS
<1>0. Files \in Nat /\ 0..MaxSize \subseteq Nat /\ BufferSize \in Nat \ {0}
  BY MCAssumption DEF Cat1!ConstantsOK
<1>1. ASSUME NEW f \in 1..Files, Cat1!Change(f) PROVE CatInv'
  <2>1. /\ \A g \in 1..Files : g # f => length'[g] = length[g]
        /\ length' \in [1..Files -> Nat] /\ changed' = changed \cup {f}
        /\ UNCHANGED <<cat, at, arg, file_size, pos, buffer, stdout, errors, cut>>
    BY <1>0, <1>1 DEF Cat1!Change, CatInv, CatTypes
  <2>2. Shown' = Shown
    BY <2>1 DEF Shown
  <2>3. CatTypes'
    BY <2>1, <2>2 DEF CatInv, CatTypes
  <2>4. at # "failed" => CatProgress'
    <3>1. AtHandUnchanged => AtHandUnchanged'
      BY <1>0, <2>1 DEF AtHandUnchanged
    <3>2. arg - 1 <= Files
      BY <1>0 DEF CatInv, CatTypes
    <3> SUFFICES ASSUME at # "failed" PROVE CatProgress'
      OBVIOUS
    <3>3. CatProgress
      BY DEF CatInv
    <3>4. ASSUME NEW g \in 1..(arg - 1), g \notin changed' \cup cut
          PROVE  Cat1!Of(stdout, g) = 1..(IF g \in errors THEN 0 ELSE length'[g])
      <4>1. g \in 1..Files /\ g # f /\ g \notin changed \cup cut
        BY <1>0, <2>1, <3>2, <3>4 DEF CatInv, CatTypes
      <4> QED BY <2>1, <3>3, <4>1 DEF CatProgress
    <3> QED BY <2>1, <2>2, <3>1, <3>3, <3>4 DEF CatProgress
  <2> QED BY <2>1, <2>3, <2>4 DEF CatInv
<1>2. ASSUME Cat1!Open \/ Cat1!Lseek \/ Cat1!ReadBlock, UNCHANGED cat, UNCHANGED Cat1!fileVars
      PROVE  CatInv'
  <2>0. /\ UNCHANGED <<cat, length, changed, arg, stdout, errors, cut>>
        /\ at \notin {"done", "failed"} /\ at' \notin {"done", "failed"} /\ arg \in 1..Files
        /\ CatProgress
    BY <1>0, <1>2 DEF Cat1!Open, Cat1!Lseek, Cat1!ReadBlock, Cat1!fileVars, CatInv, CatTypes
  <2>1. /\ CatTypes' /\ Shown' = Shown /\ AtHandUnchanged'
        /\ cat = "cat1" => pos' = 0 /\ at' # "write"
    <3>1. CASE Cat1!Open \/ Cat1!Lseek
      <4>1. Shown' = Shown /\ Shown = pos
        BY <3>1 DEF Cat1!Open, Cat1!Lseek, Shown
      <4> QED
        BY <1>0, <2>0, <3>1, <4>1
        DEF Cat1!Open, Cat1!Lseek, CatInv, CatTypes, CatProgress, AtHandUnchanged
    <3>2. CASE Cat1!ReadBlock
      <4> DEFINE end == Cat1!Least(pos + BufferSize, length[arg])
      <4>1. /\ at = "read" /\ cat = "cat2" /\ at' = "write" /\ UNCHANGED file_size
            /\ buffer' = [k \in 1..(end - pos) |-> pos + k]
            /\ pos' = IF end > pos THEN end ELSE pos
        BY <3>2 DEF Cat1!ReadBlock
      <4>2. /\ pos \in Nat /\ length[arg] \in Nat /\ end \in Nat /\ end <= length[arg]
            /\ end <= pos => length[arg] <= pos
            /\ arg \notin changed => pos <= length[arg]
        BY <1>0, <2>0, <4>1 DEF CatInv, CatTypes, CatProgress, AtHandUnchanged, Cat1!Least
      <4> HIDE DEF end
      <4> DEFINE d == IF end > pos THEN end - pos ELSE 0
      <4>3. /\ d \in Nat /\ 1..(end - pos) = 1..d /\ pos' = pos + d /\ pos' \in Nat
            /\ arg \notin changed => pos' <= length[arg] /\ (d = 0 => pos' = length[arg])
        BY <4>1, <4>2
      <4> HIDE DEF d
      <4>c. buffer' \in Seq(Nat) /\ Len(buffer') = d /\ \A k \in 1..d : buffer'[k] = pos + k
        <5>1. buffer' = [k \in 1..d |-> pos + k]
          BY <4>1, <4>3
        <5> QED BY <4>2, <4>3, <5>1
      <4>4. Shown = pos /\ Shown' = pos
        <5>1. Shown' = pos' - Len(buffer') /\ Shown = pos
          BY <2>0, <4>1 DEF Shown
        <5> QED BY <4>2, <4>3, <4>c, <5>1
      <4>5. AtHandUnchanged'
        <5>1. buffer' = <<>> => d = 0
          BY <4>c
        <5> QED BY <2>0, <4>1, <4>3, <5>1 DEF AtHandUnchanged
      <4>6. CatTypes'
        BY <2>0, <4>1, <4>2, <4>3, <4>4, <4>c DEF CatInv, CatTypes
      <4> QED BY <4>1, <4>4, <4>5, <4>6
    <3> QED BY <1>2, <3>1, <3>2
  <2> QED BY <2>0, <2>1 DEF CatInv, CatProgress
<1>3. ASSUME Cat1!Fail, UNCHANGED cat, UNCHANGED Cat1!fileVars PROVE CatInv'
  <2>0. /\ UNCHANGED <<cat, length, changed, file_size, stdout, cut>>
        /\ at \in {"open", "seek", "read"} /\ errors' = errors \cup {arg} /\ arg \in 1..Files
        /\ CatProgress /\ Shown = pos
    BY <1>0, <1>3 DEF Cat1!Fail, Cat1!fileVars, CatInv, CatTypes, Shown
  <2>1. CASE cat = "cat1" /\ Cat1!NextFile
    <3>1. pos = 0 /\ EndsAt(stdout', arg, 0) /\ arg \in errors'
      BY <2>0, <2>1 DEF CatInv, CatProgress
    <3>2. stdout' \in Seq(Nat \X Nat)
      BY <2>0 DEF CatInv, CatTypes
    <3> QED BY <1>0, <2>0, <2>1, <3>1, <3>2, FileDone
  <2>2. CASE cat = "cat2" /\ at' = "failed" /\ UNCHANGED <<arg, pos>>
    <3>1. Shown' = Shown
      BY <2>0, <2>2 DEF Shown
    <3> QED BY <2>0, <2>2, <3>1 DEF CatInv, CatTypes
  <2> QED BY <1>3, <2>1, <2>2 DEF Cat1!Fail
<1>4. ASSUME Cat1!ReadAll, UNCHANGED cat, UNCHANGED Cat1!fileVars PROVE CatInv'
  <2>0. /\ UNCHANGED <<cat, length, changed, file_size, stdout, errors, cut>>
        /\ at = "read" /\ cat = "cat1" /\ arg \in 1..Files /\ file_size \in Nat
        /\ CatProgress /\ Shown = 0 /\ pos = 0 /\ length[arg] \in Nat
        /\ arg \notin changed => file_size = length[arg]
        /\ stdout' \in Seq(Nat \X Nat)
    BY <1>0, <1>4
    DEF Cat1!ReadAll, Cat1!fileVars, CatInv, CatTypes, Shown, CatProgress, AtHandUnchanged
  <2>1. CASE length[arg] >= file_size
    <3>1. /\ buffer' = [k \in 1..file_size |-> k] /\ at' = "write" /\ UNCHANGED <<arg, pos>>
      BY <1>4, <2>1 DEF Cat1!ReadAll
    <3>2. /\ buffer' \in Seq(Nat) /\ Len(buffer') = file_size
          /\ \A k \in 1..Len(buffer') : buffer'[k] = 0 + k
      BY <2>0, <3>1
    <3>3. Shown' = 0
      BY <2>0, <3>1 DEF Shown
    <3>4. CatTypes'
      BY <2>0, <3>1, <3>2, <3>3 DEF CatInv, CatTypes
    <3>5. CatProgress'
      BY <2>0, <3>1, <3>3 DEF CatProgress, AtHandUnchanged
    <3> QED BY <2>0, <3>1, <3>2, <3>4, <3>5 DEF CatInv
  <2>2. CASE ~(length[arg] >= file_size)
    <3>1. Cat1!NextFile /\ arg \in changed
      BY <1>4, <2>0, <2>2 DEF Cat1!ReadAll
    <3>2. EndsAt(stdout', arg, 0)
      BY <2>0 DEF CatProgress
    <3> QED BY <1>0, <2>0, <3>1, <3>2, FileDone
  <2> QED BY <2>1, <2>2
<1>5. ASSUME Cat1!Write, UNCHANGED cat, UNCHANGED Cat1!fileVars PROVE CatInv'
  <2>0. /\ UNCHANGED <<cat, length, changed, file_size, errors>>
        /\ at = "write" /\ arg \in 1..Files /\ stdout \in Seq(Nat \X Nat)
        /\ CatProgress /\ Shown \in Nat
        /\ buffer \in Seq(Nat) /\ \A k \in 1..Len(buffer) : buffer[k] = Shown + k
    BY <1>0, <1>5 DEF Cat1!Write, Cat1!fileVars, CatInv, CatTypes
  <2>1. PICK w \in -1..Len(buffer) :
          /\ stdout' = stdout \o [k \in 1..w |-> <<arg, buffer[k]>>]
          /\ cut' = IF w < Len(buffer) THEN cut \cup {arg} ELSE cut
    BY <1>5 DEF Cat1!Write
  <2> DEFINE n == IF w < 0 THEN 0 ELSE w
             more == [k \in 1..w |-> <<arg, buffer[k]>>]
  <2>2. /\ n \in 0..Len(buffer) /\ Len(more) = n /\ more \in Seq(Nat \X Nat)
        /\ \A k \in 1..n : more[k] = <<arg, Shown + k>>
    <3>1. Len(buffer) \in Nat /\ w \in Int /\ 1..w = 1..n /\ n \in 0..Len(buffer)
      BY <2>0
    <3>2. more = [k \in 1..n |-> <<arg, buffer[k]>>]
      BY <3>1
    <3>3. \A k \in 1..n : k \in 1..Len(buffer) /\ buffer[k] = Shown + k /\ buffer[k] \in Nat
      BY <2>0, <3>1
    <3> HIDE DEF n, more
    <3>4. \A k \in 1..n : more[k] = <<arg, Shown + k>> /\ more[k] \in Nat \X Nat
      <4> TAKE k \in 1..n
      <4>1. more[k] = <<arg, buffer[k]>>
        BY <3>2
      <4>2. arg \in Nat
        BY <1>0, <2>0
      <4> QED BY <3>3, <4>1, <4>2
    <3>5. n \in Nat /\ more \in [1..n -> Nat \X Nat]
      BY <3>1, <3>2, <3>4
    <3>6. Len(more) = n /\ more \in Seq(Nat \X Nat)
      BY <3>5
    <3> QED BY <3>1, <3>4, <3>6
  <2>3. stdout' = stdout \o more
    BY <2>1
  <2> HIDE DEF n, more
  <2>4. stdout' \in Seq(Nat \X Nat) /\ Grows(stdout, stdout', arg, Shown, n)
    <3>0. \A u, v \in Seq(Nat \X Nat) :
            /\ u \o v \in Seq(Nat \X Nat) /\ Len(u \o v) = Len(u) + Len(v)
            /\ \A k \in 1..Len(u) : (u \o v)[k] = u[k]
            /\ \A k \in 1..Len(v) : (u \o v)[Len(u) + k] = v[k]
      BY Appended
    <3>1. /\ stdout' \in Seq(Nat \X Nat) /\ Len(stdout') = Len(stdout) + Len(more)
          /\ \A k \in 1..Len(stdout) : stdout'[k] = stdout[k]
          /\ \A k \in 1..Len(more) : stdout'[Len(stdout) + k] = more[k]
      BY <2>0, <2>2, <2>3, <3>0, Zenon
    <3> QED BY <2>2, <3>1 DEF Grows
  <2>5. /\ EndsAt(stdout', arg, Shown + n)
        /\ \A f : f # arg => Cat1!Of(stdout', f) = Cat1!Of(stdout, f)
    BY <2>0, <2>2, <2>4, Continued DEF CatProgress
  <2>6. n < Len(buffer) => arg \in cut'
    BY <2>0, <2>1 DEF n
  <2>7. cut' \in {cut, cut \cup {arg}}
    BY <2>1
  <2>8. CASE Cat1!NextFile /\ (cat = "cat1" \/ (buffer = <<>> /\ cut' = cut))
    <3>1. arg \notin changed \cup cut' => Shown + n = length[arg] /\ arg \notin errors
      <4> SUFFICES ASSUME arg \notin changed \cup cut' PROVE Shown + n = length[arg]
        BY <1>0, <2>0 DEF CatProgress
      <4>1. n = Len(buffer)
        BY <2>0, <2>2, <2>6
      <4>2. CASE cat = "cat1"
        BY <2>0, <4>1, <4>2 DEF Shown, CatInv, CatProgress, AtHandUnchanged
      <4>3. CASE cat = "cat2" /\ buffer = <<>>
        BY <2>0, <4>1, <4>3 DEF Shown, CatInv, CatTypes, CatProgress, AtHandUnchanged
      <4> QED BY <2>8, <4>2, <4>3 DEF CatInv, CatTypes
    <3>2. /\ arg <= Files /\ Shown + n \in Nat /\ at # "failed"
          /\ cat = "cat2" => cut' = cut
          /\ arg \notin changed \cup cut' =>
               Shown + n = IF arg \in errors' THEN 0 ELSE length[arg]
      BY <1>0, <2>0, <2>2, <2>8, <3>1
    <3> QED BY <2>0, <2>4, <2>5, <2>7, <2>8, <3>2, FileDone
  <2>9. CASE /\ cat # "cat1" /\ at' = (IF cut' = cut THEN "read" ELSE "failed")
             /\ UNCHANGED <<arg, pos>>
    <3>0. cat = "cat2"
      BY <2>9 DEF CatInv, CatTypes
    <3>1. Shown' = pos /\ pos = Shown + Len(buffer) /\ pos \in Nat
      BY <2>0, <2>9, <3>0 DEF Shown, CatInv, CatTypes
    <3>2. CatTypes'
      BY <2>0, <2>4, <2>9, <3>1 DEF CatInv, CatTypes
    <3>3. CASE cut' = cut
      <4>1. cut = {}
        BY <2>0, <3>0 DEF CatProgress
      <4>2. n = Len(buffer)
        BY <2>0, <2>2, <2>6, <3>3, <4>1
      <4>3. AtHandUnchanged'
        BY <2>0, <2>9, <3>0, <3>3 DEF CatProgress, AtHandUnchanged
      <4>4. \A f \in 1..(arg - 1) : Cat1!Of(stdout', f) = Cat1!Of(stdout, f)
        BY <2>0, <2>5
      <4>5. CatProgress'
        BY <2>0, <2>5, <2>9, <3>1, <3>3, <4>2, <4>3, <4>4 DEF CatProgress
      <4> QED BY <2>0, <2>5, <2>9, <3>2, <4>5 DEF CatInv, EndsAt
    <3>4. CASE cut' # cut
      BY <2>0, <2>5, <2>9, <3>2, <3>4 DEF CatInv, EndsAt
    <3> QED BY <3>3, <3>4
  <2> QED BY <1>5, <2>8, <2>9 DEF Cat1!Write
<1>6. CASE UNCHANGED Cat1!vars
  <2>1. Shown' = Shown /\ (AtHandUnchanged => AtHandUnchanged')
    BY <1>6 DEF Cat1!vars, Shown, AtHandUnchanged
  <2> QED BY <1>6, <2>1 DEF Cat1!vars, CatInv, CatTypes, CatProgress
<1> QED BY <1>1, <1>2, <1>3, <1>4, <1>5, <1>6 DEF Cat1!Next

(* For any files, sizes, buffer and changes by others: cat1 and cat2 write
   the files one after the other and without a hole, and whole ones if no
   call fails (cat1.c:17-109, cat2.c:15-59). *)
THEOREM FilesArePrintedInTurn == Cat1!Spec => []PrintsFilesInTurn
<1>1. CatInv => PrintsFilesInTurn
  <2> SUFFICES ASSUME CatInv PROVE Cat1!PrintsFilesInTurn
    BY DEF PrintsFilesInTurn
  <2>1. at = "done" => arg - 1 = Files
    BY MCAssumption DEF CatInv, CatTypes, Cat1!ConstantsOK
  <2> QED BY <2>1 DEF CatInv, CatProgress, Cat1!PrintsFilesInTurn
<1> QED BY <1>1, CatInitInv, CatStepInv, PTL DEF Cat1!Spec
-----------------------------------------------------------------------------
(* sem02_asm/oop_asm *)

\* The powers of two are what their definition says, and natural numbers.
LEMMA PowerIs ==
  /\ Obj!Power[0] = 1
  /\ \A n \in 0..MaxCalls : Obj!Power[n] \in Nat
  /\ \A n \in 0..MaxCalls : n # 0 => Obj!Power[n] = 2 * Obj!Power[n - 1]
<1> DEFINE step == [p \in Nat \X Nat |-> 2 * p[2]]
<1>0. MaxCalls \in Nat
  BY MCAssumption DEF Obj!ConstantsOK
<1>1. step \in [Nat \X Nat -> Nat] /\ \A m, x \in Nat : step[<<m, x>>] = 2 * x
  OBVIOUS
<1> HIDE DEF step
<1>2. PICK g \in [0..MaxCalls -> Nat] : Solves(g, MaxCalls, 1, step)
  BY <1>0, <1>1, Recursion
<1>3. g = [m \in 0..MaxCalls |-> IF m = 0 THEN 1 ELSE 2 * g[m - 1]]
  <2>1. ASSUME NEW m \in 0..MaxCalls PROVE g[m] = IF m = 0 THEN 1 ELSE 2 * g[m - 1]
    <3>1. m # 0 => m - 1 \in 0..MaxCalls /\ m \in Nat
      BY <1>0
    <3> QED BY <1>1, <1>2, <3>1 DEF Solves
  <2> QED BY <1>2, <2>1 DEF Solves
<1>4. Obj!Power = [m \in 0..MaxCalls |-> IF m = 0 THEN 1 ELSE 2 * Obj!Power[m - 1]]
  BY <1>3 DEF Obj!Power
<1>5. /\ Obj!Power[0] = 1
      /\ \A n \in 0..MaxCalls : n # 0 => Obj!Power[n] = 2 * Obj!Power[n - 1]
  BY <1>0, <1>4
<1> DEFINE S == {n \in Nat : n <= MaxCalls => Obj!Power[n] \in Nat}
<1>6. \A n \in Nat : n \in S => n + 1 \in S
  <2>1. ASSUME NEW n \in Nat, n \in S, n + 1 <= MaxCalls PROVE Obj!Power[n + 1] \in Nat
    <3>1. n + 1 \in 0..MaxCalls /\ n + 1 # 0 /\ (n + 1) - 1 = n /\ n <= MaxCalls
      BY <1>0, <2>1
    <3> QED BY <1>5, <2>1, <3>1
  <2> QED BY <2>1
<1>7. Nat \subseteq S
  <2>1. 0 \in S
    BY <1>5
  <2> HIDE DEF S
  <2> QED BY <1>6, <2>1, Induction
<1> QED BY <1>0, <1>5, <1>7

\* The next call of a method makes of an object what one call more does.
LEMMA OneCallMore ==
  ASSUME NEW x \in Obj!Numbers, NEW m \in {"inc", "double"}, NEW n \in 0..MaxCalls
  PROVE  LET o == [x |-> x, method |-> m] IN
         /\ Obj!After(o, n) \in Obj!Numbers
         /\ n = 0 => Obj!After(o, n) = x
         /\ n < MaxCalls => Obj!After(o, n + 1) = Obj!Method(m, Obj!After(o, n))
<1> DEFINE o == [x |-> x, method |-> m]
<1>0. Word \in Nat \ {0} /\ x \in Nat /\ x < Word /\ MaxCalls \in Nat
  BY MCAssumption DEF Obj!ConstantsOK, Obj!Numbers
<1>1. Obj!Power[n] \in Nat /\ Obj!Power[0] = 1
  BY PowerIs
<1>2. n < MaxCalls => Obj!Power[n + 1] = 2 * Obj!Power[n]
  <2>1. n < MaxCalls => n + 1 \in 0..MaxCalls /\ n + 1 # 0 /\ (n + 1) - 1 = n
    BY <1>0
  <2> QED BY <2>1, PowerIs
<1>3. x * Obj!Power[n] \in Nat /\ x * (2 * Obj!Power[n]) = (x * Obj!Power[n]) + (x * Obj!Power[n])
  BY <1>0, <1>1
<1>4. o.x = x /\ o.method = m
  OBVIOUS
<1>5. x % Word = x
  <2>1. x = Word * 0 + x /\ x \in 0..(Word - 1)
    BY <1>0
  <2> QED BY <1>0, <2>1, DivisionUnique
<1>6. Obj!After(o, n) = IF m = "inc" THEN (x + n) % Word ELSE (x * Obj!Power[n]) % Word
  BY <1>4 DEF Obj!After
<1>7. Obj!After(o, n + 1) = IF m = "inc" THEN (x + (n + 1)) % Word ELSE (x * Obj!Power[n + 1]) % Word
  BY <1>4 DEF Obj!After
<1> HIDE DEF o
<1>8. CASE m = "inc"
  <2>1. (((x + n) % Word) + 1) % Word = ((x + n) + 1) % Word
    <3>1. x + n \in Int /\ 1 \in Int
      BY <1>0
    <3> QED BY <1>0, <3>1, SumOfRemainders, Zenon
  <2>2. (x + n) + 1 = x + (n + 1)
    BY <1>0
  <2>3. (x + n) % Word \in 0..(Word - 1) /\ (n = 0 => (x + n) % Word = x)
    BY <1>0, <1>5, DivisionInt
  <2> QED BY <1>6, <1>7, <1>8, <2>1, <2>2, <2>3 DEF Obj!Method, o, Obj!Numbers
<1>9. CASE m = "double"
  <2> DEFINE y == x * Obj!Power[n]
  <2>1. y \in Nat /\ x * (2 * Obj!Power[n]) = y + y /\ (n = 0 => y = x)
    BY <1>0, <1>1, <1>3
  <2> HIDE DEF y
  <2>2. ((y % Word) + (y % Word)) % Word = (y + y) % Word
    <3>1. y \in Int
      BY <2>1
    <3> QED BY <1>0, <3>1, SumOfRemainders, Zenon
  <2>3. y % Word \in 0..(Word - 1) /\ (n = 0 => y % Word = x)
    <3>1. y \in Int
      BY <2>1
    <3>2. y % Word \in 0..(Word - 1)
      BY <1>0, <3>1, DivisionInt, Zenon
    <3> QED BY <1>5, <2>1, <3>2
  <2>4. Obj!After(o, n) = y % Word /\ (n < MaxCalls => Obj!After(o, n + 1) = (y + y) % Word)
    BY <1>2, <1>6, <1>7, <1>9, <2>1 DEF y
  <2> QED BY <1>9, <2>2, <2>3, <2>4 DEF Obj!Method, o, Obj!Numbers
<1> QED BY <1>8, <1>9

(* The objects appended are those in the array, and no object that is not
   there has been called. *)
ObjInv ==
  /\ obj_arr \in [Obj!Index -> [x : Obj!Numbers, method : {"inc", "double", "null"}]]
  /\ calls \in [Obj!Index -> 0..MaxCalls]
  /\ given \in Seq([x : Obj!Numbers, method : {"inc", "double"}])
  /\ Len(given) \in 0..Capacity /\ obj_arr_size = Len(given)
  /\ called \in Obj!Index \cup {-1}
  /\ \A k \in Obj!Index : k >= Len(given) => calls[k] = 0
  /\ Obj!ObjectsKeepTheirState

\* No object has come at first.
LEMMA ObjInitInv == Obj!Init => ObjInv
<1> SUFFICES ASSUME Obj!Init PROVE ObjInv
  OBVIOUS
<1>1. Capacity \in Nat /\ 0 \in Obj!Numbers /\ 0 \in 0..MaxCalls
  BY MCAssumption DEF Obj!ConstantsOK, Obj!Numbers
<1>2. given = <<>> /\ Len(given) = 0
  BY DEF Obj!Init
<1> QED BY <1>1, <1>2 DEF Obj!Init, ObjInv, Obj!ObjectsKeepTheirState, Obj!Empty, Obj!Index

\* An object appended or called leaves the others alone.
LEMMA ObjStepInv == ObjInv /\ [Obj!Next]_(Obj!vars) => ObjInv'
<1> SUFFICES ASSUME ObjInv, [Obj!Next]_(Obj!vars) PROVE ObjInv'
  OBVIOUS
<1>0. Capacity \in Nat /\ Word \in Nat \ {0} /\ MaxCalls \in Nat /\ 0 \in 0..MaxCalls
      /\ Obj!Index = 0..(Capacity - 1)
  BY MCAssumption DEF Obj!ConstantsOK, Obj!Index
<1> DEFINE n == Len(given)
           Objects == [x : Obj!Numbers, method : {"inc", "double"}]
<1>i. /\ obj_arr \in [Obj!Index -> [x : Obj!Numbers, method : {"inc", "double", "null"}]]
      /\ calls \in [Obj!Index -> 0..MaxCalls]
      /\ given \in Seq(Objects) /\ n \in 0..Capacity /\ obj_arr_size = n
      /\ called \in Obj!Index \cup {-1}
      /\ \A k \in Obj!Index : k >= n => calls[k] = 0 /\ obj_arr[k] = Obj!Empty
      /\ \A k \in Obj!Index : k < n =>
           /\ given[k + 1] \in Objects
           /\ obj_arr[k].method = given[k + 1].method
           /\ obj_arr[k].x = Obj!After(given[k + 1], calls[k])
      /\ called # -1 => ret = IF called < n THEN obj_arr[called].x ELSE Word - 1
  <2>0. given \in Seq(Objects) /\ n \in Nat
    BY <1>0 DEF ObjInv
  <2>1. /\ \A k \in Obj!Index : k >= n => obj_arr[k] = Obj!Empty
        /\ \A k \in Obj!Index : k < n => given[k + 1] \in Objects
    <3>1. ASSUME NEW k \in Obj!Index, k >= n PROVE obj_arr[k] = Obj!Empty
      <4>1. k \in Obj!Index \ 0..(n - 1)
        BY <1>0, <2>0, <3>1
      <4> QED BY <4>1 DEF ObjInv, Obj!ObjectsKeepTheirState
    <3>2. ASSUME NEW k \in Obj!Index, k < n PROVE given[k + 1] \in Objects
      <4>1. k + 1 \in 1..n
        BY <1>0, <2>0, <3>2
      <4> HIDE DEF Objects
      <4> QED BY <2>0, <4>1 DEF n
    <3> QED BY <3>1, <3>2
  <2>2. \A k \in Obj!Index : k < n =>
          /\ obj_arr[k].method = given[k + 1].method
          /\ obj_arr[k].x = Obj!After(given[k + 1], calls[k])
    BY <1>0 DEF ObjInv, Obj!ObjectsKeepTheirState
  <2>3. /\ obj_arr \in [Obj!Index -> [x : Obj!Numbers, method : {"inc", "double", "null"}]]
        /\ calls \in [Obj!Index -> 0..MaxCalls]
        /\ given \in Seq(Objects) /\ n \in 0..Capacity /\ obj_arr_size = n
        /\ called \in Obj!Index \cup {-1}
        /\ \A k \in Obj!Index : k >= n => calls[k] = 0
        /\ called # -1 => ret = IF called < n THEN obj_arr[called].x ELSE Word - 1
    BY DEF ObjInv, Obj!ObjectsKeepTheirState
  <2> QED BY <2>1, <2>2, <2>3
<1> HIDE DEF n, Objects
<1>t. ASSUME obj_arr' \in [Obj!Index -> [x : Obj!Numbers, method : {"inc", "double", "null"}]],
             calls' \in [Obj!Index -> 0..MaxCalls], given' \in Seq(Objects),
             Len(given') \in 0..Capacity, obj_arr_size' = Len(given'),
             called' \in Obj!Index \cup {-1},
             \A k \in Obj!Index : k >= Len(given') => calls'[k] = 0 /\ obj_arr'[k] = Obj!Empty,
             \A k \in Obj!Index : k < Len(given') =>
               /\ obj_arr'[k].method = given'[k + 1].method
               /\ obj_arr'[k].x = Obj!After(given'[k + 1], calls'[k]),
             called' # -1 => ret' = IF called' < Len(given') THEN obj_arr'[called'].x ELSE Word - 1
      PROVE  ObjInv'
  BY <1>0, <1>t DEF ObjInv, Obj!ObjectsKeepTheirState, Objects
<1>1. ASSUME NEW x \in Obj!Numbers, NEW j \in DOMAIN Obj!Methods,
             Obj!ObjArrAppend(x, Obj!Methods[j])
      PROVE  ObjInv'
  <2> DEFINE m == Obj!Methods[j]
             o == [x |-> x, method |-> m]
  <2>1. m \in {"inc", "double"} /\ o \in Objects /\ o.x = x /\ o.method = m
    BY DEF Obj!Methods, Objects
  <2>2. /\ n < Capacity /\ n \in Obj!Index /\ obj_arr' = [obj_arr EXCEPT ![n] = o]
        /\ obj_arr_size' = n + 1 /\ called' = -1 /\ given' = Append(given, o)
        /\ UNCHANGED <<ret, calls>>
    BY <1>0, <1>1, <1>i DEF Obj!ObjArrAppend, Obj!Place
  <2> HIDE DEF o, m
  <2>3. /\ Len(given') = n + 1 /\ given'[n + 1] = o /\ given' \in Seq(Objects)
        /\ \A k \in 1..n : given'[k] = given[k]
    BY <1>i, <2>1, <2>2 DEF n
  <2>4. /\ obj_arr'[n] = o /\ \A k \in Obj!Index : k # n => obj_arr'[k] = obj_arr[k]
        /\ obj_arr' \in [Obj!Index -> [x : Obj!Numbers, method : {"inc", "double", "null"}]]
    <3>1. o \in [x : Obj!Numbers, method : {"inc", "double", "null"}]
      BY <2>1 DEF Objects
    <3> QED BY <1>i, <2>2, <3>1
  <2>5. obj_arr'[n].x = Obj!After(o, 0)
    <3>1. Obj!After(o, 0) = x
      BY <1>0, <2>1, OneCallMore DEF o
    <3> QED BY <2>1, <2>4, <3>1
  <2>6. ASSUME NEW k \in Obj!Index, k < n + 1
        PROVE  /\ obj_arr'[k].method = given'[k + 1].method
               /\ obj_arr'[k].x = Obj!After(given'[k + 1], calls'[k])
    <3>1. CASE k = n
      <4>1. calls'[k] = 0 /\ obj_arr'[k] = o /\ given'[k + 1] = o
        BY <1>i, <2>2, <2>3, <2>4, <3>1
      <4> QED BY <2>5, <3>1, <4>1
    <3>2. CASE k < n
      <4>1. k + 1 \in 1..n /\ k # n
        BY <1>0, <1>i, <3>2
      <4> QED BY <1>i, <2>2, <2>3, <2>4, <3>2, <4>1
    <3> QED BY <1>0, <1>i, <2>6, <3>1, <3>2
  <2>7. ASSUME NEW k \in Obj!Index, k >= n + 1
        PROVE  calls'[k] = 0 /\ obj_arr'[k] = Obj!Empty
    BY <1>0, <1>i, <2>2, <2>4, <2>7
  <2>8. n + 1 \in 0..Capacity
    BY <1>0, <1>i, <2>2
  <2> QED BY <1>i, <1>t, <2>2, <2>3, <2>4, <2>6, <2>7, <2>8
<1>2. ASSUME NEW k \in Obj!Index, Obj!ObjArrCall(k) PROVE ObjInv'
  <2>1. calls[k] < MaxCalls /\ called' = k /\ UNCHANGED <<obj_arr_size, given>> /\ Len(given') = n
    BY <1>2 DEF Obj!ObjArrCall, n
  <2>2. CASE obj_arr[k].method = "null"
    <3>1. ret' = Word - 1 /\ UNCHANGED <<obj_arr, calls>>
      BY <1>2, <2>2 DEF Obj!ObjArrCall
    <3>2. ~(k < n)
      BY <1>i, <2>2 DEF Objects
    <3> QED BY <1>0, <1>i, <1>t, <2>1, <3>1, <3>2
  <2>3. CASE obj_arr[k].method # "null"
    <3>1. /\ calls' = [calls EXCEPT ![k] = @ + 1]
          /\ ret' = Obj!Method(obj_arr[k].method, obj_arr[k].x)
          /\ obj_arr' = [obj_arr EXCEPT ![k].x = ret']
      BY <1>2, <2>3 DEF Obj!ObjArrCall
    <3>2. k < n /\ k >= 0
      BY <1>0, <1>i, <2>3 DEF Obj!Empty
    <3>3. /\ given[k + 1] \in Objects /\ obj_arr[k].method = given[k + 1].method
          /\ obj_arr[k].x = Obj!After(given[k + 1], calls[k])
          /\ calls[k] \in 0..MaxCalls /\ calls[k] + 1 \in 0..MaxCalls
      BY <1>0, <1>i, <2>1, <3>2
    <3>4. PICK x \in Obj!Numbers, m \in {"inc", "double"} : given[k + 1] = [x |-> x, method |-> m]
      BY <3>3 DEF Objects
    <3>5. given[k + 1].method = m
      BY <3>4
    <3>6. /\ ret' = Obj!After(given[k + 1], calls[k] + 1)
          /\ ret' \in Obj!Numbers
      <4>1. calls[k] < MaxCalls
        BY <2>1
      <4>2. \A l \in 0..MaxCalls :
              /\ Obj!After([x |-> x, method |-> m], l) \in Obj!Numbers
              /\ l < MaxCalls => Obj!After([x |-> x, method |-> m], l + 1)
                                = Obj!Method(m, Obj!After([x |-> x, method |-> m], l))
        BY OneCallMore, Zenon
      <4>3. /\ Obj!After([x |-> x, method |-> m], calls[k] + 1) \in Obj!Numbers
            /\ Obj!After([x |-> x, method |-> m], calls[k] + 1)
                 = Obj!Method(m, Obj!After([x |-> x, method |-> m], calls[k]))
        BY <3>3, <4>1, <4>2, Zenon
      <4>4. /\ Obj!After(given[k + 1], calls[k] + 1) = Obj!Method(m, Obj!After(given[k + 1], calls[k]))
            /\ Obj!After(given[k + 1], calls[k] + 1) \in Obj!Numbers
        BY <3>4, <4>3, Zenon
      <4> QED BY <3>1, <3>3, <3>5, <4>4
    <3>7. /\ obj_arr' \in [Obj!Index -> [x : Obj!Numbers, method : {"inc", "double", "null"}]]
          /\ obj_arr'[k].x = ret' /\ obj_arr'[k].method = obj_arr[k].method
          /\ \A l \in Obj!Index : l # k => obj_arr'[l] = obj_arr[l]
      BY <1>i, <3>1, <3>6
    <3>8. /\ calls' \in [Obj!Index -> 0..MaxCalls] /\ calls'[k] = calls[k] + 1
          /\ \A l \in Obj!Index : l # k => calls'[l] = calls[l]
      BY <1>i, <3>1, <3>3
    <3>9. ASSUME NEW l \in Obj!Index, l < n
          PROVE  /\ obj_arr'[l].method = given[l + 1].method
                 /\ obj_arr'[l].x = Obj!After(given[l + 1], calls'[l])
      BY <1>i, <3>3, <3>6, <3>7, <3>8, <3>9
    <3>10. ASSUME NEW l \in Obj!Index, l >= n
           PROVE  calls'[l] = 0 /\ obj_arr'[l] = Obj!Empty
      <4>1. l # k
        BY <1>0, <1>i, <3>2, <3>10
      <4> QED BY <1>i, <3>7, <3>8, <3>10, <4>1
    <3> QED BY <1>i, <1>t, <2>1, <3>2, <3>7, <3>8, <3>9, <3>10
  <2> QED BY <2>2, <2>3
<1>3. CASE Obj!Return \/ Obj!OutOfBounds \/ UNCHANGED Obj!vars
  BY <1>3 DEF Obj!Return, Obj!OutOfBounds, Obj!vars, ObjInv, Obj!ObjectsKeepTheirState
<1> QED BY <1>1, <1>2, <1>3 DEF Obj!Next

(* For any capacity, width of a register and commands: every object is where
   it was appended and what its own method has made of its number
   (oop_asm.S:37-123). *)
THEOREM ObjectsStayThemselves == Obj!Spec => []ObjectsKeepTheirState
<1>1. ObjInv => ObjectsKeepTheirState
  BY DEF ObjInv, ObjectsKeepTheirState
<1> QED BY <1>1, ObjInitInv, ObjStepInv, PTL DEF Obj!Spec

-----------------------------------------------------------------------------
(* The programs together *)

\* What the theorems above say of the programs.
ProgramsAreSafe ==
  /\ OverflowIsExact /\ SseIsNaive
  /\ DoubledOnce /\ OutputIsInherited /\ SuccessIsReported
  /\ CopiesStdin /\ TornInsideACopy
  /\ FiguresAreSummed /\ LibrariesAreListed
  /\ RemovesTheBig /\ UsesWhatItHolds /\ PrintsFilesInTurn
  /\ ScanIsExact /\ ObjectsKeepTheirState /\ SumIsExact

(* The specification of the programs together is one of each of them, so
   that what is proved of each holds of it: no step of one program changes
   the state of another. *)
THEOREM ProgramsAreAlone == MCSpec => []ProgramsAreSafe
<1>1. MCInit => Init /\ SseInit /\ POp!Init /\ CSt!Init /\ Ein!Init /\ Rac!Init
                /\ Sma!Init /\ Rem!Init /\ Drm!Init /\ Cat1!Init /\ Str!Init /\ Obj!Init /\ Wid!Init
  BY DEF MCInit
<1>2. [MCNext]_MCvars => [Next]_vars
  <2>1. (UNCHANGED collatz) => UNCHANGED vars
    BY DEF vars, collatz
  <2> QED BY <2>1 DEF MCNext, MCvars
<1>3. [MCNext]_MCvars => [SseBlock]_sseVars
  BY DEF MCNext, MCvars
<1>4. [MCNext]_MCvars => [POp!Next]_(POp!vars)
  <2>1. (UNCHANGED parallelOp) => UNCHANGED POp!vars
    BY DEF POp!vars, parallelOp
  <2> QED BY <2>1 DEF MCNext, MCvars
<1>5. [MCNext]_MCvars => [CSt!Next]_(CSt!vars)
  <2>1. (UNCHANGED childStatus) => UNCHANGED CSt!vars
    BY DEF CSt!vars, childStatus
  <2> QED BY <2>1 DEF MCNext, MCvars
<1>6. [MCNext]_MCvars => [Ein!Next]_(Ein!vars)
  <2>1. (UNCHANGED eintr) => UNCHANGED Ein!vars
    BY DEF Ein!vars, eintr
  <2> QED BY <2>1 DEF MCNext, MCvars
<1>7. [MCNext]_MCvars => [Rac!Next]_(Rac!vars)
  <2>1. (UNCHANGED raceCondition) => UNCHANGED Rac!vars
    BY DEF Rac!vars, raceCondition
  <2> QED BY <2>1 DEF MCNext, MCvars
<1>8. [MCNext]_MCvars => [Sma!Next]_(Sma!vars)
  <2>1. (UNCHANGED smaps) => UNCHANGED Sma!vars
    BY DEF Sma!vars, smaps, Sma!fileVars, Sma!history
  <2> QED BY <2>1 DEF MCNext, MCvars
<1>9. [MCNext]_MCvars => [Rem!Next]_(Rem!vars)
  <2>1. (UNCHANGED removeFiles) => UNCHANGED Rem!vars
    BY DEF Rem!vars, removeFiles
  <2> QED BY <2>1 DEF MCNext, MCvars
<1>10. [MCNext]_MCvars => [Drm!Next]_(Drm!vars)
  <2>1. (UNCHANGED drmDraw) => UNCHANGED Drm!vars
    BY DEF Drm!vars, drmDraw
  <2> QED BY <2>1 DEF MCNext, MCvars
<1>11. [MCNext]_MCvars => [Cat1!Next]_(Cat1!vars)
  <2>1. (UNCHANGED cats) => UNCHANGED Cat1!vars
    BY DEF Cat1!vars, cats
  <2> QED BY <2>1 DEF MCNext, MCvars
<1>12. [MCNext]_MCvars => [Str!Next]_(Str!vars)
  <2>1. (UNCHANGED strings) => UNCHANGED Str!vars
    BY DEF Str!vars, strings
  <2> QED BY <2>1 DEF MCNext, MCvars
<1>13. [MCNext]_MCvars => [Obj!Next]_(Obj!vars)
  <2>1. (UNCHANGED objArr) => UNCHANGED Obj!vars
    BY DEF Obj!vars, objArr
  <2> QED BY <2>1 DEF MCNext, MCvars
<1>14. [MCNext]_MCvars => [Wid!Next]_(Wid!vars)
  <2>1. (UNCHANGED wideSum) => UNCHANGED Wid!vars
    BY DEF Wid!vars, wideSum
  <2> QED BY <2>1 DEF MCNext, MCvars
<1>15. MCSpec => /\ Spec /\ SseSpec /\ POp!Spec /\ CSt!Spec /\ Ein!Spec /\ Rac!Spec /\ Sma!Spec
               /\ Rem!Spec /\ Drm!Spec /\ Cat1!Spec /\ Str!Spec /\ Obj!Spec /\ Wid!Spec
  BY <1>1, <1>2, <1>3, <1>4, <1>5, <1>6, <1>7, <1>8, <1>9, <1>10, <1>11, <1>12, <1>13, <1>14, PTL
  DEF MCSpec, Spec, SseSpec, POp!Spec, CSt!Spec, Ein!Spec, Rac!Spec,
      Sma!Spec, Rem!Spec, Drm!Spec, Cat1!Spec, Str!Spec, Obj!Spec, Wid!Spec
<1> QED BY <1>15, ExactOverflow, TearsOnlyInsideACopy, ElementsAreDoubledOnce,
          OutputLeavesWithEveryExit, SuccessIsTheProgramsOwn, StdinIsCopied,
          SumsAreOfFigures, MappedFilesAreListed, BigFilesAreRemoved,
          OnlyWhatIsHeldIsUsed, ScansAreExact, SumsAreExact,
          SseAgreesWithNaive, FilesArePrintedInTurn, ObjectsStayThemselves,
          PTL DEF ProgramsAreSafe
==============================================================================
