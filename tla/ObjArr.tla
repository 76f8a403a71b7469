-------------------------------- MODULE ObjArr --------------------------------
(***************************************************************************)
(* sem02_asm/oop_asm: an array of objects, each a number and a pointer to  *)
(* the method that changes it.  main reads commands; two functions in      *)
(* assembly append an object and call the method of one.  Neither looks at *)
(* the bounds of the array or of the table of methods.                     *)
(***************************************************************************)
EXTENDS Integers, Sequences

CONSTANTS
  Capacity,  \* OBJ_ARRAY_CAPACITY
  Word,      \* a register holds a number modulo Word
  MaxCalls   \* bound: how often the method of an object is called

\* What the constants are.
ConstantsOK == Capacity \in Nat /\ Word \in Nat \ {0, 1} /\ MaxCalls \in Nat

Index == 0..(Capacity - 1)
Numbers == 0..(Word - 1)

VARIABLES
  reader,   \* "command", "returned" or "undefined": the bounds were left
  obj_arr, obj_arr_size,
  ret,      \* what obj_arr_call has returned last
  called,   \* the object it was called for, or -1 after another command
  given,    \* history: the objects in the order in which they came
  calls     \* history: how often the method of each was called

vars == <<reader, obj_arr, obj_arr_size, ret, called, given, calls>>

Empty == [x |-> 0, method |-> "null"]

Init ==
  /\ reader = "command"
  /\ obj_arr = [i \in Index |-> Empty] /\ obj_arr_size = 0
  /\ ret = 0 /\ called = -1
  /\ given = <<>> /\ calls = [i \in Index |-> 0]

\* .func_map
Methods == <<"inc", "double">>

\* The methods, as the processor adds.
Method(m, x) == IF m = "inc" THEN (x + 1) % Word ELSE (x + x) % Word

\* Mutant: the address is that of the last object, not that behind it.
PlaceOfLast == IF obj_arr_size = 0 THEN 0 ELSE obj_arr_size - 1

\* Where obj_arr_append puts its object.
Place == obj_arr_size

ObjArrAppend(x, m) ==
  /\ reader = "command" /\ obj_arr_size < Capacity
  /\ obj_arr' = [obj_arr EXCEPT ![Place] = [x |-> x, method |-> m]]
  /\ obj_arr_size' = obj_arr_size + 1
  /\ called' = -1 /\ given' = Append(given, [x |-> x, method |-> m])
  /\ UNCHANGED <<reader, ret, calls>>

\* An object that was never appended has no method.
ObjArrCall(i) ==
  /\ reader = "command" /\ calls[i] < MaxCalls
  /\ called' = i
  /\ IF obj_arr[i].method = "null"
     THEN ret' = Word - 1 /\ UNCHANGED <<obj_arr, calls>>
     ELSE /\ calls' = [calls EXCEPT ![i] = @ + 1]
          /\ ret' = Method(obj_arr[i].method, obj_arr[i].x)
          /\ obj_arr' = [obj_arr EXCEPT ![i].x = ret']
  /\ UNCHANGED <<reader, obj_arr_size, given>>

\* The end of the input, or a command that is none.
Return ==
  /\ reader = "command" /\ reader' = "returned"
  /\ UNCHANGED <<obj_arr, obj_arr_size, ret, called, given, calls>>

\* An object too many, or an index that is none of the array or the table:
\* other memory is written, or taken for a method.
OutOfBounds ==
  /\ reader = "command" /\ reader' = "undefined"
  /\ UNCHANGED <<obj_arr, obj_arr_size, ret, called, given, calls>>

Next ==
  \/ \E x \in Numbers, k \in DOMAIN Methods : ObjArrAppend(x, Methods[k])
  \/ \E i \in Index : ObjArrCall(i)
  \/ Return \/ OutOfBounds

Spec == Init /\ [][Next]_vars
-----------------------------------------------------------------------------
(* Properties *)

\* 2^n, for as many calls as there can be.
Power[n \in 0..MaxCalls] == IF n = 0 THEN 1 ELSE 2 * Power[n - 1]

\* What n calls make of an object.
After(o, n) ==
  IF o.method = "inc" THEN (o.x + n) % Word ELSE (o.x * Power[n]) % Word

(* Until a command leaves the bounds, every object is where it was appended
   and is what the calls to it since have made of its number: a call for a
   place before its object came returned -1 and changed nothing, and calls
   to one object leave the others alone (oop_asm.S:37-123). *)
ObjectsKeepTheirState ==
  /\ \A i \in Index \ 0..(Len(given) - 1) : obj_arr[i] = Empty
  /\ \A i \in 0..(Len(given) - 1) :
       /\ obj_arr[i].method = given[i + 1].method
       /\ obj_arr[i].x = After(given[i + 1], calls[i])
  /\ called # -1 =>
       ret = IF called < Len(given) THEN obj_arr[called].x ELSE Word - 1
==============================================================================
