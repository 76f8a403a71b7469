# A verification project for the CAOS seminar programs

The repository holds the programs of a course on computer architecture and
operating systems: about sixty C and x86 assembly files, most of them a program
of its own, each about one system interface. There are no tests. What they do
is small; what can happen to them is not: threads and a heap, signals at every
instruction, pipes that fill up, clients that leave at the wrong moment.

This directory models the programs in which that matters, checks the models
with TLC, and proves the central ones with TLAPS.

## 1. Inventory

| component | state it keeps | operations | shared with | hard because |
|---|---|---|---|---|
| bq, `sem25_pthread2/bq/bq.c` | linked list, head and tail pointer, mutex, condition variable | `bq_create`, `bq_push`, `bq_pop`, `bq_destroy` | the threads that call it, malloc | interleavings, lost wakeups, stale `tail`, free outside the mutex |
| bq program, `main.c` | two stop flags, two threads | create, run, stop, join, destroy | bq | order of shutdown, threads that were never created |
| echo server, `sem21_sockets/echo` | array of pollfds, its capacity and its block, the descriptors it accepted | poll, accept, communicate, remove, close | clients, kernel buffers | events in any order, an array changed while it is walked, partial writes, every call can fail |
| rotatelog, `sem15_pipe` | a FILE, two files, a pipe, a child | fork, read, write, rotate, wait | the child, the file system | blocking on both ends of a pipe, failures halfway, a FILE used after it was closed |
| timer, `sem16_signals/timer` | a counter, a flag | three signal handlers, a print loop | the kernel's pending and blocked signals | handlers between any two instructions, and inside each other |
| parallel_sum, `sem24_pthread` | array, one record per thread | create, sum a block, join, add | threads | uninitialised sums, threads that were never created |
| race_condition, `sem16_signals` | a structure of two words | copy, print in a handler | signals | torn reads |
| eintr_example, `sem19_eintr`; signalfd, `sem20_signalfd` | a buffer; a signal mask | read, retry, write | signals | EINTR, short writes |
| fork_wait, exec, parallel_op | children, exit codes, a shared array, stdout's buffer | fork, wait | processes | buffered output duplicated by fork, failing fork |
| remove_files, `sem11_fs` | a directory being read | stat, unlink | other processes | check and use of a name |
| cat1, cat2, `sem05_syscalls_io` | a buffer | measure, read, write | files that others change | partial reads and writes, a size that is stale |
| smaps parser, `libcaos`, `sem07`, `sem10_fs` | a list of mappings | parse, sum | /proc | states of a line parser, processes that end |
| image_brightness, `sem09_sse` | pixels | plain and SSE loop | - | saturation, remainder of a block |
| drm_draw, `sem12_mmap` | frame buffer resources | open, map, draw, release | the driver | release after a failure halfway |
| t2.S, t1.S, `sem01_asm` | registers | the Collatz sequence; a sum in two words | - | overflow of an unsigned sum; carry and sign |
| oop_asm, `sem02_asm` | an array of objects | append, call the method of one | - | addresses computed by hand, no bounds |
| strchr, `sem03_asm`; string_lookup, `sem04_asm` | a pointer | search, count | - | terminators, an address incremented in part |
| other assembly, `sem01` to `sem04` | registers | straight-line arithmetic and calls of libc | - | nothing that a state machine shows |
| clocks, floats, /proc/self/mem | - | straight-line calls | - | nothing that a state machine shows |

What makes the modelled ones correct, in one sentence each:

* **bq**: it is a FIFO; nothing is lost, doubled or reordered; no freed cell is
  touched and none leaks; a thread that waits is woken when there is work.
* **bq program**: the queue outlives its users, and a key ends the program.
* **echo server**: its array lists exactly the sockets it has open, it reads
  only what is ready, it neglects no client, whoever waits is accepted or turned
  away, and it echoes a prefix of what it was sent.
* **rotatelog**: what is in the files is what the child wrote, in order, and
  without a gap unless a FILE could not be written out; files stay below the
  limit plus one buffer.
* **timer**: no increment, reset or request is lost.
* **parallel_sum**: blocks are disjoint and cover the array; what is printed is
  the sum of the blocks.
* **the small programs**: every element doubled once; what stdout still held at a
  fork printed as often as it was copied; a status reported only for a child that
  exited; stdin copied in order whatever interrupts the calls; every blocked
  signal worked on; every figure of smaps added once; overflow found exactly;
  only the big files removed, and all of them; files printed in turn and
  whole; nothing of the card used before it is acquired or after it is
  released; both loops over an image the same; the first occurrence found;
  objects changed by their own calls alone.

## 2. Modules

| module | models | what it is |
|---|---|---|
| `FifoQueue` | `bq.h` | what a blocking queue promises: a call is made, takes effect at one moment, returns |
| `BlockingQueue` | `bq.c` | `bq_push` and `bq_pop`, one memory access or pthread call per step, on an explicit heap; refines `FifoQueue` |
| `MCBlockingQueue` | - | symmetry for TLC |
| `BlockingQueueProofs` | - | the inductive invariant, types, memory safety |
| `BlockingQueueWakeups` | - | no wakeup is lost |
| `BlockingQueueRefinement` | - | `BlockingQueue` implements `FifoQueue` |
| `BqMain` | `main.c` over `bq.c` | the program, with `BlockingQueue` as a component (`Q == INSTANCE ...`): every step inside `bq_push` or `bq_pop` is a step of that module |
| `BqMainProofs` | - | the queue outlives its threads; the program implements `BlockingQueue`, so that the queue's theorems hold in it; the shutdown never gets stuck |
| `EchoServer` | `server.c`, `dynarray.c` | the server against clients and kernel |
| `EchoServerProofs` | - | array, readiness and echo of the server; it waits for nobody but in `poll` |
| `RotateLog` | `rotatelog.c` | parent, child, pipe, files |
| `Timer` | `timer.c` | main, handlers, kernel |
| `ParallelSum` | `parallel_sum.c` | main and its threads |
| `ParallelOp` | `parallel_op.c` | parent, children, shared array, the copies of stdout |
| `ChildStatus` | `fork_wait.c`, `exec.c` | a parent, one child, its status |
| `Eintr` | `eintr_example.c` | the copy loop and the handler that interrupts it |
| `SignalFd` | `signalfd.c` | two blocked signals and their descriptor |
| `RaceCondition` | `race_condition.c` | a copy of two words and the handler that reads them |
| `Smaps` | `smaps_parser.c`, `common.c`, `pss_counter.c` | the parser and its two programs |
| `RemoveFiles` | `remove_files.c` | the walk over a directory that others change |
| `Cat` | `cat1.c`, `cat2.c` | both programs over files that others change |
| `DrmDraw` | `drm_draw.c`, `drm_fb.c` | what is acquired, used and released, with every failing call |
| `Brightness` | `image_brightness.c` | the plain and the SSE loop over a line |
| `Strings` | `strchr.S`, `string_lookup.S` and their mains | two loops over a string somewhere in memory |
| `ObjArr` | `oop_asm.S`, `main.c` | the array of objects and its commands |
| `WideSum` | `t1.S` | the sum in two words |
| `Collatz` | `t2.S` | the loop and its overflow test |
| `MCProcesses` | - | timer, parallel_sum, rotatelog and signalfd for TLC, each fairly scheduled |
| `MCSmallPrograms` | - | the other thirteen small programs for TLC, for safety |
| `NumberLemmas` | - | what the proofs need of the numbers: induction, recursive functions, division |
| `ProcessesProofs` | - | timer, parallel_sum, rotatelog and signalfd, each with inductive invariants |
| `SmallProgramsProofs` | - | the small programs, likewise |

### How the code appears

**bq.** A thread is at a label: `push.lock` is before line 48 of `bq.c`,
`push.link` before 50, `push.tail` before 56, `push.signal` before 58,
`push.unlock` before 59; `pop.lock` before 65, `pop.test` at the `while` of 66,
`pop.wait` inside `pthread_cond_wait`, `pop.relock` on the way out of it,
`pop.read` before 70, `pop.unlink` before 73, `pop.unlock` before 75, `pop.free`
before 77. malloc returns any cell that is not in use, one that was just freed
included, and a freed cell keeps its contents: a stale pointer then reads stale
data, which is what a property can catch. `chain` is a history variable, the
list as it was linked; the pointers must spell it out.
`pthread_cond_signal` wakes one waiter, any of them; a waiter may also wake by
itself. The mutex is free or held, without a queue.

**bq program.** `app` is where a thread is in its own loop, `pc` where it is in
the queue's code. The test `pthread_create(...) < 0` never holds, so both
outcomes continue; `pthread_join` of a `pthread_t` that nobody wrote returns or
crashes. `printed` is a history variable, what the consumer has printed since it
called `bq_pop`.

**echo server.** The bytes of a connection are numbered, so that `echo[c]` shows
gaps, repetitions and reordering. `fds` is the array, `capacity` its capacity,
`block` the bytes that malloc really gave it: a realloc that fails leaves the block
as it is, with the capacity already doubled. An insertion past the block may go
unnoticed or end the process. `backlog` holds the clients in the order in which they
connected, and `accept` takes the first. One action is one pass from one system call
to the next, so that a client can act between poll and accept, accept and read, read
and write.
`Removed` is the swap of `dynarr_remove`; the loop index then moves past the
entry that was moved, as the code's does. The listening socket can report an
error and any call can fail, the insertion of a client included, which is then
closed. `leaked` is a history variable: the clients whose `set_nonblock` failed,
which the code forgets.

**rotatelog.** Bytes are numbered in the order the child writes them; the pipe
holds `PipeSize`. A whole log.txt fits into stdio's buffer, so that its bytes stay in
the FILE (`buffer`) until `fclose`, or until `exit` for a FILE still open. It is there
that a full disk takes the end of them (`Flush`, `"fclose"` in `failed`), and nothing
looks at the result: a file cut short is rotated like a full one. `failed` is the set
of the calls that have failed, `lost` what a rename has replaced. `Reopen` binds the
new FILE to an inner variable; the outer one is closed, and what writing to it does is
chosen from `Closed`: the same memory was reused, an error, a crash.

**timer.** Any of the three calls of `sigaction` may fail and end `main`. `stack` holds
the handlers that are running, `Blocked` the signals that the kernel holds back
meanwhile, `pending` at most one instance of each.
`cnt++` is a load and a store, as the comment in the code says.

**parallel_sum.** `malloc` may fail and end `main`. A thread's step reads and adds one
element. `junk` is what the `sum` fields held when `main` started. `Total` is the last
of the sums of the first elements (`SumsOf`).

**parallel_op.** Of an element only the number of its doublings is kept. The bytes
that the parent prints are numbered, `LineLen` of them a line. `held` is the part of
them that each process has in its copy of stdout, an interval: a fork copies the
parent's, an exit writes it out, and with a terminal a line never stays there. A line
that does not fit fills the buffer of `StdoutSize` bytes, which is written out as a
whole in the middle of the loop, and the rest of the line begins the next one: the
children forked after that do not inherit what came before. With the program's 100
children that happens, so the bounds make it happen too.

**fork_wait and exec.** The two are one module because the parent does the same:
fork, `waitpid`, `WIFEXITED`, report. They differ in what the child does, in
exec's arguments, and in what main returns when fork fails.

**eintr_example.** `read_done` and `write_done` are the moments between the return
of a call and the test of `errno` in `TEMP_FAILURE_RETRY`; the handler can run
there and overwrite `errno`. A blocked read fails with EINTR, a blocked write does
so or returns what it has moved. A pipe takes the 64 bytes as a whole.

**signalfd, race_condition.** One call or one store per step. The kernel reports
SIGUSR1 before SIGUSR2; the bound on the signals sent keeps the first from
holding up the second for ever, which the code does not prevent.

**smaps.** A line is one of the kinds that the three classifiers tell apart,
the ones that resemble another kind included: `Pss_Dirty` and the like begin with
`Pss`, `Anonymous` with a hexadecimal digit. `figures` is what the lines of each kind
really say, `all_pss` and the others what the code makes of them. Processes end at any moment: before
`fopen`, or while their file is read. A failing `readdir` leaves the loop although
the code says `continue`, because `dentry` is NULL.
`qsort` is taken for what it promises (`Sorted`): any ascending order of the same
paths; `PrintLibrary` prints or passes over one of them at a time.

**Collatz.** `Add` is the 32-bit `add` without its carry; `term` is the sequence
computed without a bound.

**remove_files.** The name is all that `fstatat` and `unlinkat` have in common:
`Change` replaces, creates or removes the file behind any name between any two
calls. `readdir` returns a name that was there all the time once, and one that
came or went perhaps; that is the C library's promise, not the program's. A failing
`readdir` ends the loop, as in smaps.

**cat.** Bytes are numbered, and those of a fresh buffer are 0. `file_size` is what
`lseek` said, `length` what the file has now. cat1 goes on to the next argument after
an error, cat2 gives up; `write` may take any part of the buffer. `stdout` is a
sequence of pairs, a file and the number of a byte in it; `InTurn` says of which
pair each one may be the next.

**drm_draw.** `owned` is what the process has, `live` the connectors that are
allocated, `connector` the pointer, which need not be one of them; `drm_draw` copies
the mode out of what it points to. `goto error`
passes over the initialisation of `encoder` when the connector has no modes:
`encoder` is then `"unset"`. Memory that was freed and pointers that nobody set go
unnoticed or end the process. An ioctl succeeds or fails.

**image_brightness.** `SseBlock` is one round of the loop over registers, with the
low byte of the brightness or of its negation, as `%al` and `negb` give it; the
loop counter goes down by a block until it is exactly zero. `main` calls the plain
loop alone: the other call is commented out, and `main` itself only reads and
writes files.

**strchr, string_lookup.** The buffer begins at any address `s` of a stack that
holds zeros and letters, in any order. `Incb` is `incb %al` on an address:
a carry into the next byte is lost. The two programs differ in what lies behind
the string: `strchr`'s buffer is zero, `string_lookup`'s has one 0 behind what
`read` took.

**oop_asm.** A command appends an object or calls one; nothing in the code tests
the bounds, so that a command beyond them (`OutOfBounds`) ends what the model can
say. A method is what it makes of its number after any number of calls
(`After`, with `Power` for the doublings).

**t1.** `Cdq` is the upper word that `cdq` makes; `Add` is `add`, `adc` and `jo`, the
last on the signed sum of the upper words and the carry.

`MCProcesses` and `MCSmallPrograms` run their programs side by side only in name:
`program` is chosen in the first state and the other programs stand still. They
share nothing. `MCProcesses` conjoins the fairness of each module, written for
the steps that are that program's own.

## 3. Runs

| run | instance | what it shows |
|---|---|---|
| `BlockingQueue_safety` | 2 producers, 2 consumers, 3 cells, 2 values, symmetry | types, memory safety, the inductive invariant, no lost wakeup, refinement of the FIFO |
| `BlockingQueue_liveness` | 2 + 2 threads, 2 cells | the head is taken while anybody waits; a push returns |
| `BqMain` | the program's two threads, 2 cells, 2 values | the queue outlives its users; a key ends the program; what is at the head is printed, unless the consumer was told to stop |
| `EchoServer` | 2 clients of 2 bytes, send buffers of 1 and 2 bytes | the array and the sockets agree; reads are ready; the echo is a prefix; no client is neglected; leavers are closed |
| `EchoServer_backlog` | 3 clients that come and go without sending | whoever waits is accepted or turned away |
| `EchoServer_unread` | 1 client with two messages | finding: a client that is still connected is closed after its first message, the second unread |
| `Timer_lost` | 2 signals | finding: a request between printing and clearing the flag is lost |
| `RotateLog_shadowed` | no failure | finding: output is lost after the first rotation |
| `ParallelSum_garbage` | 2 threads, 2 elements | finding: the sum need not be the sum of the array |
| `Processes` | timer: 4 signals, alarms, counter modulo 3; parallel_sum: 2 threads, 4 elements, garbage, failing creation and malloc; rotatelog: 8 bytes, reads of 2, files of 3, pipe of 3, all failures; signalfd: 4 signals | the counter is exact, requests outside that window are printed; blocks are disjoint, the printed number is exact, the program ends; the files hold the bytes in order, a prefix unless `fclose` fails, and are bounded; everything is logged while nothing fails and the closed FILE does what was meant; signals are worked on |
| `SmallPrograms` | see below | thirteen programs, one invariant or two for each |
| `Strings_page` | a byte of 3 values | finding: a string across a multiple of 256 is not searched to its end |

**Bounds.** Two producers and two consumers are the smallest numbers for which
a signal can wake a consumer that another one has overtaken; with three cells
the heap is exhausted while one cell is linked, one is being filled and one is
being freed. Liveness is checked without symmetry, on two cells. Two clients and
the listening descriptor are the smallest array in which the swap of
`dynarr_remove` moves another entry; the block of the array is set so that the
third entry lies past it. A send buffer smaller than the read buffer makes writes
partial. `EchoServer_backlog` has three clients, since it takes two that come back in
turn to overtake one that waits. The array grows with the listening descriptor and again
with the first client, which is where the insertion of a client that was just accepted
can fail, and with the third. They send nothing there, which keeps the run small: what they send does not
change what `accept` finds, and `EchoServer` has the rest. Eight bytes with files of
three give two rotations and a rest, and a pipe of three blocks the child. The counter of the timer is kept modulo 3, one
more than the depth to which handlers of different signals can disturb it.
`SmallPrograms` has three children, so that a byte can be inherited twice, lines of
two bytes and a buffer of three, so that it overflows in the middle of a line and of
the loop, and an array with an element left over; statuses beyond eight bits; an output of one
chunk, which fills up; registers of eight bits, in
which some sequences overflow and others end; two
processes and another name in `/proc`, files of three lines, which is enough for
two equal libraries and a third one out of order. Of the directory, two names and
a hidden one, any of which others change once: what can be said of a name
depends on its own changes only; their sizes are below the limit, at it and beyond
it. Two files of up to three bytes and a buffer of two
are read in a whole block and a rest. Three connectors allow one that is passed
over, one that is missing and one that is found. Lines of two blocks of two pixels
have a boundary between blocks and, with three pixels, a remainder, and the
brightness goes beyond a byte of four values. Strings of up to two characters
begin at every address up to a page of three, so that some cross it. Two objects
are called three times each, in words that the doubling overflows. Words of three
bits are added in every combination of signs and carries.
Each bound is a constant named in the module.

**Fairness.** A thread or process that can run is scheduled (weak fairness of
its steps). Calls need not fail: for rotatelog the steps in which one fails are outside
the fairness conditions. Strong fairness is asked for where the code only waits for something
that is true again and again: a mutex that is taken and released by others, an
`accept` or `malloc` that does not fail for ever, an instruction of `main` that
signals interrupt. `poll` need not fail, and nobody has to kill a child: those
steps are outside every fairness condition. Nothing makes a client act, a signal arrive, a key be pressed
or a call begin. Alarms expire.

**Deadlock** is checked where the system never stops: `BlockingQueue`. Every
other program may end.

## 4. Findings

* `rotatelog.c:42`: the reopened log is bound to an inner variable; the loop
  writes to the closed FILE (`RotateLog_shadowed`).
* `server.c:177`: `communicate` returns 0 for a message that was echoed completely, and
  0 is taken for the end of the connection: a client that is still there is closed
  with the rest of what it sent unread (`EchoServer_unread`).
* `timer.c:71`: the flag is cleared after printing, not before (`Timer_lost`).
* `parallel_sum.c:75`: the sums are not initialised (`ParallelSum_garbage`).
* `strchr.S:40`: `incb %al` loses the carry at a multiple of 256
  (`Strings_page`).

Other disagreements between the code and what is said of it, in the models but
without a run of their own; the properties of the passing runs leave them out, and say so:

* `smaps_parser.c:13`: three characters decide that a line is the figure, so that a
  recent kernel's `Pss_Dirty` and other parts are added to Pss, where lines 10-20 speak of
  `Pss:` (`FiguresAreSummed` speaks of Pss for kernels without such lines).
* `common.c:14`: a process that ends while its file is read ends the whole of
  pss_counter, which is to open each process's file (`pss_counter.c:28-30`); nothing is
  printed then, and nothing is said of it.
* `remove_files.c:72`: a file of exactly `MAX_SZ` is removed, where
  `sem11_fs/README.md:2` says larger (`RemovesTheBig` says nothing of that size).
* `drm_fb.c:87`: a connector that is not the one asked for is freed and stays in
  the pointer, so that the test for a missing one (`drm_fb.c:91`) never holds
  after it, and the freed connector is used (`UsesWhatItHolds` speaks of a card that has the
  connector).
* `rotatelog.c:37`: when `rename` or another call of the loop fails, the read end of the
  pipe stays open and unread. A child that still writes blocks, and main with it in
  `waitpid` (`LogsUnlessACallFails` speaks of behaviours without a failure).

And what the code does where nobody says otherwise, which the properties step around
as well. No run would notice if these became worse.

* echo server: an entry with an error is skipped for ever (`server.c:158`, excluded in
  `LeaverIsClosed`); after a write that was cut short the rest of a message is dropped
  (`server.c:41`; `EchoIsPrefix` speaks of send buffers that hold a whole message); a
  descriptor whose `set_nonblock` fails is forgotten (`server.c:132`, `leaked`); without the
  listening descriptor, whose insertion nobody checks, `poll` waits for nothing
  (`server.c:107`); entries are written behind the block (`dynarray.c:32`); what a client
  sends while an earlier message of its own is answered stays unread (the finding
  above, excluded in `ClientIsRead`).
* bq: `bq_destroy` leaves the cells that are still in the list (`bq.c:31`);
  `pthread_create` is tested for a negative result, which it never has.
* rotatelog: the bytes that `fclose` could not write are missing, and the file is rotated
  all the same (`rotatelog.c:35`, said in `OutputIsKept` and `FilesAreBounded`).
* eintr_example: a SIGALRM that cuts a write short drops the tail of the buffer
  (`eintr_example.c:45`, excluded in `CopiesStdin`).
* fork_wait returns 0 when fork fails (`SuccessIsReported`); parallel_op doubles the
  elements where `sem13_fork/README.md:7` speaks of a sum, and does not notice a child
  that was killed (`parallel_op.c:70`).
* remove_files removes a file that took the place of a big one after it was examined
  (`raced` in `RemovesTheBig`); cat1 takes a file that became shorter for a failed read,
  and leaves out what was appended (`changed` in `PrintsFilesInTurn`).
* drm_fb_init frees an encoder it never set when a connector has no modes
  (`drm_fb.c:105`, excluded in `UsesWhatItHolds`), and loses `res` when it finds none.
* The SSE loop does not stop on a line that is no multiple of 16 (`SseIsNaive` speaks of
  whole blocks); `mem.S:50` reads its count from the address 12; `cpustat.c:71` divides by
  the jiffies since the last look, which may be none.

PROJECT.json lists as hazards without a property those of them that bite in the
middle of several actors' steps.

## 5. Proofs

The queue, for any finite sets of producers and consumers, any heap and any
values, from `BQAssumption` alone (the thread sets are disjoint and finite, `NULL` is
none of the others).

* `Invariance`: `Spec => []IInv`. `TypeOK` is not inductive, and neither is
  memory safety: that `q->tail` may be followed in `bq_push` depends on the shape
  of the list, which depends on mutual exclusion, and on nobody else owning the
  cell. `IInv` therefore has five parts that hold each other up: `TypeOK`;
  `LockInv`, the mutex is held by exactly the thread in a critical section;
  `ListInv`, `head`, the `next` fields and `tail` spell out `chain`, `tail`
  lagging only between the two writes of `bq_push`; `OneOwner`, every allocated
  cell is in the list or belongs to one thread; `LocalInv`, what a thread knows of
  its local pointer. One step of the proof per action, one part per conjunct.
* `TypeCorrect` and `MemorySafety` follow from it.
* `WakeupsAreNotLost`: `NoLostWakeup` is inductive relative to `IInv`. Linking a
  cell adds an element and a signaller; a signal turns a signaller into a taker
  when anybody sleeps; unlinking removes an element and a taker; a consumer goes
  to sleep only when the list is empty. The counting uses the library's theorems
  on the cardinality of finite sets.
* `Refinement`: `Spec => ImplementsFifo`, with the mapping at the end of
  `BlockingQueue`: a push takes effect at `PushLink`, a pop at `PopUnlink`.

The bq program, for any set of cells and values (`BqMainAssumption`: the two
threads are two, and `NULL` is none of the others).

* `QueueIsOutlived`: `Spec => []QueueOutlivesThreads`. The property speaks of the
  moment after `bq_destroy`; that it is reached safely depends on what every
  earlier place of `main` guarantees. `MainInv` says, for each place, whether the
  queue exists and which threads can (`MainLife`); that a thread outside a call is
  nowhere in `bq.c`; and that the holder of the mutex is in a critical section
  (`Places`), so that a thread that has returned does not leave it locked.
* `RunsTheQueue`: `Spec => Q!Spec`. Each step of the program is a step of the queue
  or leaves it alone: what the theorems above say of every behaviour of
  `BlockingQueue` they say of the queue of this program too.
* `ProgramIsMemorySafe`, `ProgramLosesNoWakeup`, `ProgramIsFifo` are those theorems,
  restated of the program. `BqMainProofs` instantiates the modules that hold them
  (`QW`, `QR`) with the program's two threads, discharges their assumption
  (`QueueConstants`) and composes them with `RunsTheQueue`.
* `ShutdownIsNeverStuck`: `[]NeverStuck`. If the producer was created, then until
  the program ends `main`, which may wait for a key or in a `pthread_join`, or one of
  the threads has a step left that needs no spurious wakeup. It rests on the
  order of the shutdown (`StopInv`: the producer is stopped only after the consumer
  was joined) and on the place of the mutex's holder (`MainInv`); with the two stops exchanged TLC
  finds it violated: the consumer then sleeps for ever.

The echo server, for any clients, buffer sizes, blocks of malloc and bounds
(`EchoAssumption`).

* `ArrayIsTracked`, `ReadinessIsFresh`, `EchoIsFaithful`: `[]ArrayTracksSockets`,
  `[]ReadsAreReady`, `[]EchoIsPrefix`. None of the three is inductive. `EchoInv`
  adds where the loop may be (`Walking`: the client loop begins behind the listening
  entry, and `communicate` works on an entry of the array); that what the loop has
  not come to yet still has the events of the last poll, and that those are still
  true (`Fresh`: the entry that `dynarr_remove` moves forward comes from there, an
  inserted one has no events); and that a connection is silent, being answered, or
  closed (`Served`, `Writing`), which is what makes the echo a prefix, since the
  server closes a client after its first message. `Queued` is an invariant of its own:
  a client that waits is connected, not yet accepted, and waits once.
  `EchoInvariance` states both.
* `ServerNeverHangs`: `[]NobodyWaitsInVain`. While a client waits to be accepted, to
  be read or to be closed, the server has a step to take wherever it is: `poll`
  has something to report, because no accepted client is missing from the array,
  and no call between two polls blocks or meets a case without a branch
  (`Working`). What `write` finds in the send buffer never exceeds it (`Buffered`).

The programs of `MCProcesses`, from `TimerAssumption` and the constants' ranges
(`MCAssumption`).

* `TimerIsExact`: `[]CounterIsExact`, for any number of signals. `TimerInv`: of the
  handlers on the stack at most one writes the counter, which is what the masks of
  `sigaction` are for, and one between the load and the store has read what is in
  the counter.
* `ClockKeepsTicking`: `[]ClockTicks`. Once `main` is in its loop no signal ends the
  process, and an alarm is set, pending, or being handled by a `bar` that has not
  set the next one yet (`SecondIsRunning`), however the handlers nest.
* `RequestsStay`: `RequestStays`, an action property: a request that was made
  outside the window of the finding is taken back by nothing but `main`'s own
  clearing of the flag after it has printed.
* `ThreadsShareNothing`: `[]BlocksAreDisjoint`, for any array and any number of
  threads. The blocks are products and quotients, which the lemma
  `BlockFacts` orders; `SumInv` says that a thread is untouched until it is
  created and in its own block from then on.
* `PrintedSumIsExact`: `[]PrintsWhatWasSummed`, for any length, numbers, threads,
  garbage and order of the threads' steps. `AddedInv`: the `sum` of a thread is what
  it held plus the part of its block up to where it is, and `main`'s sum is that of
  the blocks and the garbage of the threads joined so far, modulo the width. A sum
  over a block is a difference of two sums of first elements, so that the induction
  is over the array only (`SumsAre`, `BlockCovered`).
* `RotatedOutputIsKept` and `RotatedFilesAreBounded`, for any sizes and failures, an
  `fclose` that does not write all of its FILE included. `LogInv`: `written` is the
  length of the log and its buffer wherever the loop is, but for a file that `fclose`
  could not write out, which is shorter (`FileSizes`), and a chunk, a log or a buffer is empty where the code has just emptied
  it (`Streams`): without that, a rename could put bytes behind those that come after
  them. `InOrder` says of all the bytes, from what a rename replaced to what is in the
  pipe, that their numbers rise (`Ordered`), and that none is missing while no `fclose`
  has failed (`Spelled`). A beginning of a rising sequence rises, which is why bytes
  that a disk cuts off do no other harm.
* `RotationEndsLogged`: `[](NeitherIsStuck /\ EndsLogged)`. While no call fails and a
  closed FILE does what was meant, parent and child never wait for each other, and
  where the program ends it has returned 0 and every byte is in the files. `EndInv`
  says who has the write end of the pipe open and what that is worth: the parent
  leaves the loop only when the pipe is empty and the child has written all.
  TLC finds it violated when the parent keeps its write end.
* `SignalsAreKept`: `[]SignalIsKept`. A signal that came when both were blocked is
  pending or being worked on until it has been; if `signalfd.c` is ended by a
  signal, it is one that came before.
* `ProgramsAreAlone`: `MCSpec => []ProgramsAreSafe`. The theorems of this section are
  about one program each; this one carries them over to the specification that
  the run checks, where the programs stand side by side.

The programs of `MCSmallPrograms`, each for all values of its constants that
`MCAssumption`, `CollatzAssumption` and `BrightnessAssumption` allow.

* `ExactOverflow` (`t2.S`, for a register of any even range `2 * Half`):
  `[]OverflowIsExact`. The comparison `3n + 1 < n` would
  miss an odd `n` in part of the upper half of the range. `IInv` says that none is
  ever tripled: an odd number comes from halving, so it is below `Half`, or is the
  first one, which is a positive signed number. For such an `n` the sum wraps once
  at most and is then smaller than `n` (`TripleFits`).
* `TearsOnlyInsideACopy`: the next store tells what is in memory (`RacInv`).
* `ElementsAreDoubledOnce` and `OutputLeavesWithEveryExit` (`parallel_op`): `OpInv`
  ties every element to the index of the one child in whose block it lies. `OutInv`,
  for any length of a line and any buffer that holds one: what the parent holds is the
  part of its bytes from the last multiple of the buffer's size (`IsWindow`), a child
  holds what the parent held when it was forked (`WindowIsInherited`), and a byte has come
  out once for each child that held it and has ended (`Heirs`, counted by the
  cardinality of finite sets), and once more if the parent has written it out.
* `SuccessIsTheProgramsOwn` (`fork_wait`, `exec`): what a child that exited passed
  to `exit` (`CStInv`).
* `StdinIsCopied`: `EinInv` gives, for each place of the copy loop, how far stdout is
  behind stdin (`InTurn`), why a failure is real (`FailuresAreReported`), and that a
  pipe that has begun to take a chunk takes all of it (`RoomIsLeft`), which is where
  the 64 bytes below `PIPE_BUF` matter.
* `SumsAreOfFigures`: which of the sums holds what has been read (`SmaInv`); of Pss
  this is said while the kernel writes no lines that only begin like it.
* `MappedFilesAreListed`: the list that is parsed has every library as often as it
  was mapped, and so has what was printed together with what is left of the sorted
  list (`LibsInv`). How often a path occurs is a cardinality, and the lemmas
  (`TimesAppended` and others) say what adding and removing one does to it.
* `FilesArePrintedInTurn`: `CatInv` says where the output has got to: all of each
  file before the one at hand, the first `Shown` bytes of that one, nothing of the
  later ones (`CatProgress`), unless the file was changed, cut short or failed.
* `ObjectsStayThemselves`: the number of an object is what its method makes of the
  one it was given after as many calls as it had (`ObjInv`, `OneCallMore`), as the
  powers of two are what their recursive definition says (`PowerIs`).
* `BigFilesAreRemoved`: between `fstatat` and `unlinkat` the name is what was seen,
  or in `raced`; names nobody touches change only by the loop (`RemInv`). Of a file of
  just the limit's size nothing is said.
* `OnlyWhatIsHeldIsUsed`: what is held at each place of `drm_fb_init` and `main`
  (`DrmInv`), and so when `drm_draw` copies the mode out of the connector, under the
  property's own condition that the connector asked for exists.
* `ScansAreExact`: nothing that ends the scan is behind the pointer (`StrInv`); for
  `strchr` as long as the string stays on one page, which is when incrementing
  the lowest byte is incrementing the pointer (`InOnePage`).
* `SumsAreExact`: the registers hold the two numbers in two words each (`WidInv`);
  the rest is arithmetic on words of any width, in named lemmas.
* `SseAgreesWithNaive`: the pixels before `edi` are done and what is left is whole
  blocks (`SseInv`); for one pixel the saturating instruction is the clamped sum
  (`PixelsAgree`).
* `ProgramsAreAlone`: as for `MCProcesses`, what is proved of each program holds of
  the specification of all of them.

**Induction over data.** The library's induction theorems are schemes, with an
operator as a parameter, and no backend here instantiates them. Their first-order
form is enough: a set of numbers without a least element is empty (`WFMin` of the
library). `NumberLemmas` derives from it that a set that contains 0 and the
successor of each of its elements contains every number (`Induction`), and that a
recursive function over `0..n` exists (`Recursion`), without which a definition such
as `S[n \in 0..m] == ...`, a `CHOOSE` by its meaning, would have no properties. The
models define sums and powers in that way, and have no RECURSIVE operator.

Every invariant above was checked by TLC on the bounds of section 3 before it was
proved; `IInv` of the queue stays in a run.

**Only model-checked** are the eleven liveness properties of the passing runs: TLAPS proves
neither fairness arguments nor ENABLED. For each there is a theorem on what no
step may break, if fairness is to bring about the rest:

| liveness property | what is proved of it |
|---|---|
| `HeadIsTaken`, `PushReturns` | `WakeupsAreNotLost`, `Refinement` |
| `ShutdownTerminates`, `HeadIsPrinted` | `ShutdownIsNeverStuck`, `ProgramLosesNoWakeup` |
| `ClientIsRead`, `ClientIsAccepted`, `LeaverIsClosed` | `ServerNeverHangs` |
| `RequestIsPrinted` | `RequestsStay`, `ClockKeepsTicking` |
| `Finishes` | `ThreadsShareNothing`: a running thread is in its block, which is finite |
| `LogsUnlessACallFails` | `RotationEndsLogged` |
| `SignalIsWorkedOn` | `SignalsAreKept` |

The predicates of these theorems spell out when a process can take a step (`MayStep`,
`ServerMayStep`, `ParentMayStep`), since the prover has no ENABLED; they are written
from the guards of the actions, and TLC has checked that they hold on the bounds of
the runs.

The invariants of the passing runs are all stated by theorems. The variables of the
modules other than the queue and the Collatz loop are compared by their properties
and have no type invariant of their own in a run; the inductive invariants contain
the types the proofs need.

## 6. Plan

The plan of the proofs is done. What could still be added needs tools that are
not used here: liveness from fairness (a prover with ENABLED); the rounding of
`float_sum`; the compiler's view of inline assembly in `image_brightness`. The hazards that no property covers become
properties when the code says what it wants there.

## 7. Not modelled

Programs without a choice or a shared state: clocks; `float_sum` and
`pythagorean` (IEEE arithmetic); `cpustat` (formatted ratios of floating point
numbers); `proc_self_mem` and `syscall.S` (straight-line calls); `sum.S` and `t3.S`
(one addition, one comparison); `mem.S`, a demonstration of addressing;
`simpleio` (wrappers of libc, except that `readi64` delivers its two words, which
`WideSum` uses). Images and build files.

`server_tcp.c` is the loop of `server.c` with another address; `EchoServer`
describes it except for resets by a TCP peer. Of the smaps tools, what is freed or
leaked is left out; of image_brightness, what a compiler may do with registers
that inline assembly changes without declaring it. An entry written behind the block
of the echo server's array, memory that was freed and a pointer that nobody set go
unnoticed or end the process: what else they may damage is not modelled. The
listening socket's backlog holds every client that waits. Memory is sequentially
consistent: the code's shared variables are accessed under a mutex, or by one
thread and its signal handlers, except the stop flags of `main.c`, which are
single `int`s.
