# TLA+ specifications of libhy_utils

libhy_utils is a C library of small services: a byte fifo, threads, a timer
wheel, a LED service for a network interface, lists, hash tables, an AT-command
engine, signal handling, logging, conversions and JSON settings. This directory holds
specifications of these parts, written from the C sources, the TLC
instances that check them, and TLAPS proofs of what matters most.

Paths below are relative to the repository; `src/src` holds its C files,
`src/include` its headers. `PROJECT.json` ties each definition to the lines it models.

## 1. The system

### Parts that keep state and run concurrently

| part | state | operations | who runs it |
|---|---|---|---|
| fifo (`hy_fifo.c`) | ring `buf` of `size` bytes; free-running `in`, `out`; a third counter `use_cnt` | Create, Destroy, Put, Get, Peek, UpdateOut, Clean, GetInfo, Dump | the caller; producer and consumer may be two threads, without a lock |
| thread (`hy_thread.c`) | callback, `exit_flag`, `pthread_t` | Create, Destroy, and the loop that calls the callback until it returns non-zero | a thread per handle, and its owner |
| net_wired (`hy_net_wired.c`) | a fifo of `{led, mode}` records, a blink counter and flag for each LED, a thread | Create, Destroy, SetLed, and the LED loop | the client and the LED thread |
| timer (`hy_timer.c`) | `slot_num` lists of timers, `cur_slot`, a mutex, a thread | Create, Destroy, Add, Del, and the tick | the client, the timer thread, and callbacks inside it |
| at_utils (`hy_at_utils.c`) | write list, read fifo, current command with retry and time-out, a frame collected over several polls | Create, Destroy, WriteCmd, Clean, PutData, and Process, one step of the state machine | the caller polls Process and writes; the UART's reader calls PutData; a legacy file outside the build |
| hash (`utils_hash.c`) | buckets of items, one mutex each | Create, Destroy, ItemAdd, ItemDel, ItemGet | any thread; a legacy file outside the build |
| signal (`hy_signal.c`) | a static context, installed handlers | Create, Destroy, the handlers | handlers run between any two steps of any thread |
| log (`hy_log.c`) | one line buffer in a shared context | Create, Destroy, Write | any thread and handler, without a lock |
| module (`hy_module.h`) | how far creation has come | `RUN_CREATE`, `RUN_DESTROY` | the main thread |
| utils, cjson_file (`hy_utils.c`, `hy_cjson_file.c`) | none between calls; the file and the descriptor they work on | `HyUtilsRead`, `HyUtilsWrite`, `HyJsonFile*` | any process; the file is shared between processes |

### Parts that are functions of their input, or wrap a library

list (`hy_list.h`, intrusive lists and list algebra), sort (bubble and quick
sort), the conversions of utils (IP, hex and bit strings, `HyUtilsIsPowerOf2`),
string, cjson, bit, math, md5sum, mem (zeroing allocation macros), dir, dlopen,
uart, log4cplus_wrapper.

### How they interact

* net_wired owns a fifo and a thread. `HyNetWiredSetLed` puts an 8-byte record;
  the LED thread polls `use_cnt` with `HyFifoGetInfo`, sleeps 100 ms, then gets one.
* thread calls the client's callback; `HyThreadDestroy` sets a flag, cancels and joins.
* timer has a thread of its own and calls timers' callbacks with its mutex
  held; they may call the timer module again.
* at_utils takes its bytes from a fifo, its work from a list, and its time-outs
  from the clock, which it reads whenever it is polled.
* signal's handlers log and allocate, in whatever thread they interrupt.
* module creates log, signal and the program's own modules in order, and destroys
  those already created when one fails.
* cjson_file reads a file that other programs write with utils, and looks a
  field up with cjson.
* Every part logs through log and allocates through mem's macros.

### What is hard, and what correctness means

* **fifo**: the counters never stop and wrap; room and fill are differences of
  wrapped numbers; a transfer may cross the end of the ring. *Correct* is: a
  bounded byte queue, at every value of the counters; and, with one producer
  and one consumer, no byte torn, lost or repeated although nothing locks.
* **thread**: the flag, the cancellation, the join and the callback's own
  result race; the flag is tested before the call, so a callback may still begin
  after the stop. *Correct* is: the context outlives the thread all the same,
  and destroy returns.
* **net_wired**: the loop acts on a count it read before it slept, writes a
  device that blinking writes too, and has an inner loop that never looks at
  the exit flag. *Correct* is: modes that are set are applied, no other mode
  is, a steady LED stays steady, a blinking one blinks, and destroy returns.
* **timer**: the traversal caches the next entry while callbacks add entries
  and re-arming moves them. *Correct* is: a timer is in the wheel once from
  add to free, fires when due, and destroy returns.
* **sort**: an allocation of `_partition` that fails is not reported, its -1 is
  taken for a position, and the pivot is kept outside the array. *Correct* is: a
  sorted permutation is returned all the same, and bubble sort is stable.
* **at_utils**: what arrives is cut anywhere, answers carry no name, and a
  command may be given up or sent again while its answer is on the way. *Correct* is: an
  answer meets its own command (a late one may not: nothing in it tells which
  command it is for), a frame is delivered whole, tries are bounded, and every
  command is answered or reported.
* **hash**: `UtilsHashItemAdd` looks up and adds under two separate locks.
  *Correct* is: the chains are whole, and the keys of one thread are a map.
* **list**: pointers at the ends of lists that are empty or become so. *Correct*
  is: each operation does to the pointers what it should do to a sequence.
* **log, signal, module**: a shared buffer without a lock, length arithmetic
  after a cut, handlers during create and destroy, handlers that allocate,
  roll-back. *Correct* is: the
  buffer is not overrun, handlers find their context, everything that was
  created is destroyed, last created first, and creation and destruction end.
* **utils, cjson, cjson_file**: transfers cut, interrupted or refused; a file cut
  under its reader; error paths that own something. *Correct* is: what is read
  was once written, whole; a call that does not fail has done all of it; a call
  fails for a cause.

`PROJECT.json` lists each hazard at its line and what covers it.

## 2. Modules

| module | models | kind |
|---|---|---|
| `FifoOps` | index arithmetic, the two-part copies, the rounding of the size | operators, no state |
| `ByteQueue` | what `hy_fifo.h` promises | abstract specification |
| `Fifo` | every call of `hy_fifo.c` by one thread | implements `ByteQueue` |
| `FifoSpsc` | `HyFifoPut` in one thread, `HyFifoGet` in another, a step for each access to a shared field | concurrent |
| `Thread` | `hy_thread.c`, for a set of handles | concurrent |
| `ThreadHandles` | `Thread` for the handles of a process, as the proofs use it | instance |
| `NetWired` | `hy_net_wired.c`, with the calls of fifo and thread that it makes | concurrent, implements `Thread` |
| `Timer` | `hy_timer.c` | concurrent |
| `Sort` | `hy_sort.c` | sequential, a step for each comparison or exchange |
| `AtUtils` | `hy_at_utils.c`, with a modem, a reader and a clock | concurrent |
| `ListOps` | `hy_list.h`, pointer by pointer | operators on heaps |
| `ListSpec` | what each of them does to sequences | reference definitions |
| `KeyMap` | what the hash promises for the keys of one thread | abstract specification |
| `Hash` | `utils_hash.c` over `ListOps` | concurrent, implements `KeyMap` |
| `Log` | `HyLogWrite` in any number of writers | concurrent, part of `Services` |
| `Services` | `hy_signal.c`, `hy_module.h` and `HyLogCreate`, `HyLogDestroy` | concurrent, composes `Log` |
| `Convert` | the conversions of `hy_utils.c`, `hy_string.c`, the sizes of a fifo | functions with their reference properties |
| `Json` | `hy_cjson.c` | operators |
| `Config` | `HyUtilsRead`, `HyUtilsWrite`, `hy_cjson_file.c`: a record from a device through a file to a reader | concurrent, composes `Convert` and `Json` |
| `FifoProofs`, `SpscProofs`, `SortProofs`, `NetWiredProofs`, `TimerProofs`, `ServicesProofs`, `HashProofs`, `AtUtilsProofs` | theorems about the module named, `NetWiredProofs` about `Thread` too, `ServicesProofs` about `Log` | proofs |
| `MC...` | values of constants for TLC | instances |

### How state and actions correspond to the code

* **FifoOps.** `size_t` is arithmetic modulo `SizeTMod`, `uint32_t` modulo
  `U32Mod`. `Index` is the mask `x & (size - 1)` for a power of two. `CopyIn`
  and `CopyOut` are the pairs of `memcpy`.
* **Fifo.** One action per call. `_get_data_com` cuts the request to 32 bits as
  its parameter does. `HyFifoUpdateOut` copies into a 1024-byte local
  (`Scratch`); a longer copy ends the behaviour with `overrun`. `HyFifoPut` is
  called only on a live handle, because it does not test it. Two values are
  not the code's: `untold` counts the bytes that `HyFifoUpdateOut` and
  `HyFifoClean` move out without telling `use_cnt`, and `ret` keeps the last
  result so that `ByteQueue` can constrain it.
* **FifoSpsc.** `p` and `c` are the two calls' program counters and locals.
  `reload` is the build: `HyUtilsMinMacro` names the other thread's counter
  twice, so a compiler may read it once or twice. The k-th byte offered is the
  number k, so that an order can be stated; `Beyond` is memory behind the buffer.
* **Thread.** `thr` is where `_thread_loop_cb` is, `destroy` where the owner is
  in `HyThreadDestroy`. The loop test and the call are two steps (`"call"` is
  between them), so a callback may begin when the flag is already set. A cancellation is taken in `usleep` or in the callback.
  `pthread_create` may fail, which the code does not notice: destroying that
  handle ends in "crashed".
* **NetWired.** The fifo is the sequence of its whole records (64 bytes, 8 at a
  time), which `Fifo` and `FifoSpsc` justify. `atomic` is the build: `use_cnt
  += len` is one step or a load and a store. `dev` is what `_led_set` last
  wrote. The LED loop has one action for each stretch between two accesses to
  something shared; its locals survive from one pass to the next, as in C.
* **AtUtils.** A byte is its character, with the message it is part of and how
  much of that follows, which only properties look at. `context` is
  `at_utils_context_t`; `call` splits `_read_handle` between its peek and what it
  does with the bytes, because the reader may put more in between. `age` is the
  clock less `sys_tick` in three classes. Digits are binary, tags have two or three
  characters, and `"SP"` is the space of the prompt. `used` is what the module is told the
  fifo holds: `HyFifoUpdateOut` of `hy_fifo.c` never lowers `use_cnt`, so that it is
  the number of bytes ever put (`put`, which tells 0, 1 and more apart). The
  module calls `HyFifoGetInfo` with two arguments where `hy_fifo.h` has three: it was
  written for an older fifo, and a fifo whose `use_cnt` is what it holds
  (`lowered`) is modelled beside it. The clock does not look at what is on its way:
  an answer that comes when the command's time is over is remembered in
  `hist.late`. `overrun` and `wild` end a behaviour that
  copies a negative length or uses the first entry of an empty list.
  `OutOfStep` is true once an answer may be late (`hist.late`) or the modem and the
  module no longer mean the same message (`hist.off_step`): the list in section 5.
* **ListOps, Hash.** A heap maps each entry and head to its two pointers, `next`
  and `prev` (`pprev` of an hlist, as the node whose pointer it is). In
  `Hash` a step is a lock, an entry of the walk, or the change made under the lock, and
  `UtilsHashDestroy` frees one item at a step. `Own`
  are the keys that one thread uses; the code compares hashes only, so `Id`
  is bucket and hash.
* **Log, Services.** A character of the buffer is the writer that put it there.
  `wr` is the `HyLogWrite` each thread or handler is in. A handler interrupts a
  thread at any step and runs until it returns; another may interrupt it. `m` is where main is in
  `RUN_CREATE` or `RUN_DESTROY`. The allocator has one lock: main in the create and destroy of
  the worker's module and in the `free` of `HySignalDestroy`, and the error handler in
  `backtrace_symbols` and the `free` behind it, are inside it for a state (`Holds`), and
  whoever comes to it waits (`HeapFree`).
* **Config.** `held` counts the descriptors and blocks the reader holds;
  `call.held` is that count when the call began. A record is written as the digits that
  `HyHex2Int2Str` gives it, between the characters that make it a document. `Received` is
  what the saving program does with a count other than -1 and 0, a short one too.
* **Timer.** A timer is an address which `malloc` may give out again. Lists are
  sequences, `list_add_tail` and `list_del` one step each. `thr.pos` and
  `thr.n` are the cursors of `list_for_each_entry_safe`. `age` and `first`
  record ticks since the timer was armed. `Racing = FALSE` lets the client
  call only while the timer thread is in `select`; `TRUE` lets it call at any time.
* **Sort.** `given` keeps the keys the array had, and each item the place it came
  from, which the comparison does not see. `calls` is the recursion of
  `HySortQuick`: the calls still to be made, the next one first.
  `PartitionFails` is `_partition` with either allocation failing.

## 3. Runs

Runs that pass:

| run | properties | what it shows |
|---|---|---|
| `fifo` | `RingSound`, `ScratchSafe`, `UseCntExact`, `QueueSpec` | every sequence of calls, through wraps of the counters, behaves as the byte queue; the dump prints the contents; the free length reported is right until the first byte is taken out; the local buffer is safe for fifos no longer than it; `use_cnt` is wrong by exactly what was moved out untold |
| `fifo_spsc` | `CellsSound`, `InOrder`, `AllDelivered` | two threads need no lock: no cell is written while it is read or unread, bytes arrive once and in order; a build that reads twice may add bytes from behind the producer's buffer, and nothing else |
| `net_wired` | `LedSound`, `SteadyShown`, `OnlyModesSet`, `SetsAreApplied`, `BlinksUnlessMissed`, `DestroyReturns`, `ThreadSpec` | the LED service: a LED that blinked is steady once it is set so; in a build that loses updates of `use_cnt` LED 1 may get a mode nobody set for it, and nothing else; a LED set to blink does, unless its tick counter has passed the number it is compared with, and then it never does; and its thread is a thread of `Thread` |
| `timer` | `WheelSound`, `FiresOnTime`, `EveryTimerFires`, `DestroyReturns` | the wheel, with callbacks that add, and with client calls between ticks |
| `sort` | `ArraySound`, `Sorted`, `BubbleStable`, `SortReturns` | both sorts, every array of five items, also with allocations that fail |
| `at_utils` | `ContextSound`, `OwnAnswer`, `FramesWhole`, `SendsBounded`, `Served`, `NoneSentAnew` | until an answer may be late: answers meet their own command, and the first entry is never taken of an empty list; also after late answers: frames are whole however they were cut, tries are bounded by `retry`, and every command is answered or reported, when the used length is what the fifo holds; with the `use_cnt` of `hy_fifo.c`, no command goes out for the first time once an answer has come |
| `hash` | `ChainSound`, `OnePerAdder`, `ListsAsSequences`, `MapSpec` | chains are whole whatever threads do to a bucket; a key has two entries only when two threads add it; the keys of one thread are a map; and every operation of `hy_list.h`, on every list of up to three entries |
| `services` | `LinesSound`, `ModulesSound`, `HandlersSafe`, `Ends` | creation, with a failure anywhere, roll-back and destruction, interrupted at any step by two of a user signal and two error signals, one inside the handler of the other too; the one buffer with all of them in it; and that only a handler that waits for the allocator below it keeps them from ending |
| `config` | `ConversionsSound`, `EndToEnd`, `FailsForCause` | records come through `HyUtilsRead`, a conversion, `HyUtilsWrite` and the file whole as long as the device is there, and what is cut off at its end when it is gone; and which error path leaves what behind |

Invariants that belong together have one name: `RingSound` is `TypeOK`,
`OccupancyBound`, `DumpShowsContents` and `FreeLenUntilOut`; `CellsSound` is
`TypeOK`, `NoTornBytes`, `OccupancyBound` and `NeverMoreThanAsked`; `LedSound`, `WheelSound`, `ArraySound`, `ContextSound`, `LinesSound` likewise name
their parts where they are defined.

Runs that end in a counterexample, each for a place where code and documents disagree:

| run | property | what it shows |
|---|---|---|
| `timer_del_race` | `TraversalOnLive` | `HyTimerDel` from another thread, as in `src/example/hy_timer_test.c:51`, frees an entry the traversal holds |
| `timer_expires` | `FiresAfterExpires` | `src/include/hy_timer.h:44` says a timer's time is `expires * slot_interval_ms`, but the slot of `HyTimerAdd` does not depend on `cur_slot`, so a first expiry may come a revolution away from that; `FiresOnTime` of the run `timer` states what the code does instead |
| `at_utils_unsent` | `SentBeforeTimeout` | `wait_time` is documented as counted from the sending, but the first poll after a pause compares it with an older clock: a command with one try is given up before it was sent |

Other disagreements the models show have no run of their own:
`HY_FIFO_INFO_FREE_LEN` is `size - (in + out)`, wrong after the first get
(`FreeLenUntilOut` says until when it is right); a build that evaluates
the other thread's counter twice moves more than it was asked for, which the copy
that is compiled out at `src/src/hy_fifo.c:121` was to prevent
(`NeverMoreThanAsked` excepts that build); a LED set to blink after
its tick counter has passed the number it is compared with does not blink, where
`src/include/hy_net_wired.h:50` names the mode slow blink (`BlinksUnlessMissed` states both
halves); and `HyUtilsRead` returns a short count at the end of a file, where
`src/include/hy_utils.h:108` promises `len` or -1, so that a caller who relies on it saves the
beginning of a record before the rest of an old one (`EndToEnd` states when). These are
stated by properties that hold, because what the code does instead is as precise.

### Bounds, and why they are enough

* `fifo`: `size_t` of 4 bits, `uint32_t` of 3, rings of 1, 2 and 4 cells, bytes
  0 and 1, puts of 0 to 3 bytes, requests that fit, that exceed the ring and
  that exceed a `uint32_t` (9, 15). The counters have 16 values: every call is
  tried at every position of `in` and `out`, across the end of the ring and
  across the wrap. Nothing caps a counter, so the state space is closed.
* `fifo_spsc`: two cells, counters of four values that wrap, transfers of 1 and
  3 bytes (below and above the ring), `Total` = 6 bytes so that every cell is
  used three times and the counters wrap once. Both values of `reload`.
* `net_wired`: `MaxSets` = 3 calls against a fifo of `FifoCap` = 2 records, so
  that one may be dropped; LED 0 is set to slow blink and ON, one after the other in either
  order, LED 1 to fast blink; `CntMod` =
  8. `CntCap` = 6 is one more than the largest number the tick counter is
  compared with, past which all values behave alike until the wrap at 2^32.
* `timer`: three slots and expirations 1, 3, 4 and 6: within a revolution, equal to one,
  beyond one, and a multiple. Two timers give the cases in which one
  moves while the other is cached.
  `AgeCap` stops the age of a timer, which only `FiresOnTime` reads,
  past the last value it tells apart.
* `sort`: five items of three keys give ranges of every length, the pivot first,
  last, in the middle, and with equals on both sides; `MaxFails` = 2
  allocations fail, at any of the calls.
* `at_utils`: two commands, one with data, two tries each, so that an answer may be late
  for the first when the second is at the head, and a command sent twice may be answered
  twice; one text of the modem's own, of three: a frame with a length of three digits whose
  payload looks like an answer, `CLOSED` and `busy s...`. A peek takes `FACTOR_LEN` = 6
  bytes, fewer than the frame has, so that it is collected over several. `FifoLen` = 8 is
  less than `MaxAhead` = 10, the bytes the modem may be ahead: a piece may not fit.
  Behaviours go on after a late answer. `Follow = FALSE` stops them at `hist.off_step`,
  where the properties say nothing more. A second text of the modem's own only repeats
  what one does, as commands and texts are handled one at a time.
* `hash`: two threads, a key of each alone in one shared bucket, and one whose bucket and
  hash collide with the other's; arithmetic in 10 bits, with a multiplier that keeps
  these collisions; three items, one more than the threads. Items are symmetric.
* `services`: a buffer of one character and its terminator; lines of one character (main)
  and of none, with the pieces around them: shorter, just fitting, and so long that the length arithmetic
  passes the end. `size_t` has 4 bits. `MaxSignals` = 2 of three signals come, a user's and
  two errors': two are enough for a handler inside another's, and a third only repeats that.
* `config`: two records of two bytes, with octets of one, two and three digits
  in `Octet`; `MaxFds` = 2 and `MaxBlocks` = 3 let one leak happen and
  then the limit be met. `ConversionsSound` is over all inputs of up to two bytes,
  every buffer from too short to ample, all 512 requests for a size (widths of
  7 and 9 bits, so that the cut to `uint32_t` matters); it is evaluated once.

Deadlock is checked in `fifo_spsc` and `config`. Elsewhere the system may stop: a
client that calls nothing, a program that ended or crashed.

### Fairness, and why the code justifies it

* Threads are scheduled: weak fairness of each thread's next step.
* A client inside a call goes on; it is never obliged to begin one. The
  exceptions are the threads of `FifoSpsc`, whose delivery property is about a producer
  that retries and a consumer that polls.
* A cancellation sent to a thread that reaches a cancellation point again and
  again takes effect: strong fairness of `ThreadCancelled` in `NetWired`. A
  tick that was about to run may run first, which is why weak fairness would
  not do.
* `select` in the timer thread ends however often the client calls: strong
  fairness of `Tick`, because the instance holds a tick back during a call.
* The thread that sorts is scheduled, and its allocations do not fail for ever:
  if they did, `HySortQuick` would call itself on one range again and again.
* Callbacks return (`hy_thread.h:39` and `hy_timer.h` leave that to their author).
* The client of at_utils polls, as `HyAtUtilsProcess` is made for; the reader
  reads, and the clock runs. `Idle` names the states in which a poll changes
  nothing, so that weak fairness of polling is stated without ENABLED:
  `[]<>Idle \/ []<><<HyAtUtilsProcess>>_vars`.
* In `Services` the main thread, the worker's end, and handlers that have begun are
  scheduled; no signal need ever come.
* `EveryTimerFires` and `DestroyReturns` of `Timer` assume that ticks end
  (`TicksEnd`), which the code does not ensure: callbacks that add timers to the
  slot that is being visited keep its traversal going. `DestroyReturns` excepts
  a callback that calls `HyTimerDel` and so waits for its own mutex.

## 4. Proofs

TLAPS proves the following for all values of the constants that satisfy the
named assumptions; TLC evaluates the assumptions on the instances.

| theorem | statement |
|---|---|
| `FifoProofs!RingAlways` | `Spec => []RingSound` (from `TypeCorrect`, `OccupancyAlways`, `DumpAlways`) |
| `FifoProofs!ScratchAlways` | `Spec => []ScratchSafe` |
| `FifoProofs!UseCntAlways` | `Spec => []UseCntExact` |
| `FifoProofs!FifoImplementsQueue` | `Spec => QueueSpec` |
| `SpscProofs!UnlockedCellsSound` | `Spec => []CellsSound` (of `FifoSpsc`) |
| `SpscProofs!UnlockedInOrder` | `Spec => []InOrder` (of `FifoSpsc`) |
| `NetWiredProofs!ThreadSoundAlways` | `HandlesSpec => []ThreadSound` (of `ThreadHandles`) |
| `SortProofs!ArraySoundAlways` | `Spec => []ArraySound` (from `PermutedAlways`, `PivotSplitsAlways`) |
| `SortProofs!SortedAlways` | `Spec => []Sorted` |
| `SortProofs!BubbleStableAlways` | `Spec => []BubbleStable` |
| `NetWiredProofs!LedSoundAlways` | `Spec => []LedSound` |
| `NetWiredProofs!SteadyShownAlways` | `Spec => []SteadyShown` |
| `NetWiredProofs!OnlyModesSetAlways` | `Spec => []OnlyModesSet` |
| `NetWiredProofs!NetWiredImplementsThread` | `Spec => ThreadSpec` |
| `TimerProofs!WheelSoundAlways` | `ASSUME ~Racing PROVE Spec => []WheelSound` |
| `TimerProofs!FiresOnTimeAlways` | `ASSUME ~Racing PROVE Spec => FiresOnTime` |
| `ServicesProofs!LinesSoundAlways` | `Spec => []LinesSound` |
| `ServicesProofs!ModulesSoundAlways` | `Spec => []ModulesSound` |
| `ServicesProofs!HandlersSafeAlways` | `Spec => []HandlersSafe` |
| `HashProofs!ChainSoundAlways` | `Spec => []ChainSound` |
| `HashProofs!OnePerAdderAlways` | `Spec => []OnePerAdder` |
| `HashProofs!ListsAlways` | `Spec => []ListsAsSequences` (from `ListOpsAre`, for any heap) |
| `HashProofs!HashImplementsKeyMap` | `Spec => MapSpec` |
| `AtUtilsProofs!ContextSoundAlways` | `Spec => []ContextSound` |
| `AtUtilsProofs!OwnAnswerAlways` | `Spec => []OwnAnswer` |
| `AtUtilsProofs!FramesWholeInStep` | `Spec => [](OutOfStep \/ FramesWhole)` |
| `AtUtilsProofs!SendsBoundedInStep` | `Spec => [](OutOfStep \/ SendsBounded)` |

**Assumptions.** `WidthAssumption`: the integer types have some width, and a
`uint32_t` is no wider than a `size_t`. `SizeAssumption`: each ring size is a
`uint32_t` that divides the range of `size_t`; a power of two does, and
`config` checks that the rounding yields one up to 0x80000000 (`LeastPowerOf2`).
`CallAssumption`: requests are `size_t` values. `SpscAssumption` says the same of
the ring and the requests of `FifoSpsc`, and that the byte numbers up to `Total`
are bytes. `SortAssumption`: keys are numbers. `NetWiredAssumption`: `use_cnt` can
count one record more than the fifo holds, which it needs between a get and its
subtraction. `LogAssumption`: the buffer, which the heap
provided, is at most a quarter of what `size_t` counts, lengths of lines are numbers, and the values that stand for no
buffer, no call and an empty cell differ from the others. `ServicesAssumption`:
main, the worker and the signals are different things, and no signal is both a user's and
an error. `TimerAssumption`: the wheel has a slot, expirations are numbers, and the head
of a list is no timer. `HashAssumption`: there are finitely many threads and items, the
number of buckets divides the range of an `int32_t` as a power of two does, no key is
empty, and NULL is no value and no thread; `ListAssumption`: entries, heads, NULL and the
poison are different pointers. `AtAssumption`: what `AtCmd_t` and the configuration allow.
`TextsAssumption` is what the client of `hy_at_utils.c` owes it, and what the modem does: the
answers are among the texts to catch; any two texts to catch differ in their first two bytes,
and differ so also from what is left of an answer when a poll finds its first byte alone
and drops it; and on its own the modem sends texts of that list and whole frames, whose header says how long they are.
The repository holds no such list; the texts its states are named for (`OK`, `ERROR`, `> `, `+IPD`,
`+CSQ` and `+CWJAP_DEF`, `CLOSED`, `busy s...`, `ready`), shortened to two or three characters
with one text for the two signals, are of this kind (`MCCatchStr`). Without the assumption a piece
of one message can be taken for another, and nothing in the code would tell. Payloads are
arbitrary, and may look like answers.
Nothing bounds the number of calls, timers, signals, writers, commands or texts, or the
lengths of the array, the fifo, a peek or a frame.

The theorems about `Timer` assume `~Racing`: the client calls while the timer thread is
in `select`. This is a hypothesis because without it they are false: `timer_del_race`
is the run that shows it. What callbacks do is not restricted.

**Argument for the fifo.** `OccupancyBound` is what everything needs: only
while fill is at most `size` is `size - in + out` the room, rather than a number
near 2^64 after an underflow. It is inductive only with `TypeOK`, which in turn
needs it: a put keeps `buf` inside its cells only if its length fits the room. So
`Inv == TypeOK /\ OccupancyBound`, preserved call by call, and the others follow
from it. The lemmas are modular arithmetic (`ModSplit`, `ModUnique`,
`IndexStep`, `IndexWrap`): where a counter wraps, the ring index goes on
without a jump because `size` divides the range. `UseCntExact` adds a fact
about sums of wrapped numbers (`ModAdd`).

**Refinement.** The abstract queue is `Contents(buf, size, in, out)`. A get
drops a prefix of it (`WindowDrop`, `FrontAndRest`), a put appends to it
without touching the cells in use (`WindowPut`, `PutAppends`), all other calls
clear it or leave it. `RefinementStep` maps each call to the queue's operation
of the same name.

**Two threads on the ring.** The argument counts bytes, not cells. `in` and `out`
are `sent` and `got` wrapped (`Counters`), so byte k lives in cell
`(k - 1) % Size`, and two bytes less than a ring length apart never share one
(`OwnCell`). `CellsSound` and `InOrder` are not inductive: between the first
`memcpy` and the store to `in` nothing visible says which cells already hold
their bytes. `IInv` adds that (`Filled`, with `Written` for the part of a
running put), what the running get has already copied (`Taken`), and what a call
may have claimed (`Asked`). Each thread only ever enlarges what the other may
use: a put in progress leaves every premise of the get true, and the other way
round, so that a stale counter is only a cautious one. `Beyond` enters in one place:
a build that reads the counter again may claim more than it was asked for.

**Threads.** `ContextOutlivesThread` is inductive with `TypeOK` and with
`FlagFirst`, which says that the flag is set whenever destroy has begun. No run checks it for
several handles: they share nothing, and `ThreadSoundAlways` is for any number of them.

**Sorting.** `Permuted` needs to know where the pivot is between the exchanges
(`PivotPlace`), or storing it might overwrite an item. `Sorted` is not inductive.
For `HySortBubble`, `PassesDone` says that the tail the passes have dealt with is
in order. For `HySortQuick`, `InversionsCovered` says that two items out of order
are both in one of the ranges still to be sorted, and `CallsApart` that these
ranges are disjoint and in order, so that an exchange within one disorders
nothing outside it. A failed allocation keeps both, because it replaces a range by a
longer one that ends at the same place. When no range is left, nothing is out of order.

**LED service.** `CntTracksFifo` alone is not inductive: a put is admitted by the room it
saw before, and a get by the count it woke for. `Room` says that the room is still
there, since only this client puts, and `Exact` that the count that woke the
loop still covers a record, since only this loop gets. `OnlyModesSet` needs that
every record in the fifo was set, and what the loop's locals can be when it gets nothing
because an update was lost: the LED is 1, the mode is what a blink showed or a record said
(`ToldModes`). `SteadyShown` holds in builds with lost
updates too, and there the argument is another one: as long as the loop has no
mode it has taken nothing out, so the client alone writes `use_cnt` and nothing can be
lost (`FirstRecord`); hence the loop never applies the mode it starts with. For the
refinement, `exit`, the cancellation and the return value of the loop are those of
one handle of `Thread`; `ThreadStep` takes every step of the service to the step of
`Thread` that it is, or to a stutter.

**Timer wheel.** `WheelSound` is inductive with `Cursor`: the traversal is at an entry of its slot,
and the cached one is the entry behind it, or the head although a callback has
put something there since. The second case is why a timer that is added to the
visited slot may be missed by this visit. Removing an entry keeps this because the cached entry is not
the one removed (`HandledNext`, `AfterRemoved`), and a timer re-armed into the visited
slot goes behind it (`AfterAdded`). For `FiresOnTime` the invariant is `Timing`: age,
rotations left and slots still to go add up to one number, `FiringAge`. A tick moves one from
the last to the first, the end of a tick turns a visited slot into one a
revolution away, a rotation passed is a revolution waited. Only arming sets this number:
`HyTimerAdd` anywhere within a revolution (`FirstInTime`), re-arming to
exactly `expires`, or a revolution more if the timer goes behind the
traversal in the slot it came from (`AgainInTime`). `InTimeBound` shows that the bound on ages
is never met before the timer fires.

**Log and handlers.** `Printed` says how far a line has come: `ret` is the length of the
pieces before, or is past the buffer, which only a refused piece does not add to.
From it follow when the unsigned room can underflow, and that one who is `alone` finds
its own pieces from the first cell on (`OwnCells`). That a piece is refused rather than
printed behind the end rests on `buf_len <= SizeMod \div 4`. `ModulesSound` and `HandlersSafe` need to know
what exists at each point of the four loops (`Creating`, `Running`, `RollingBack`,
`Destroying`), from which it follows that between two calls the modules that stand are as
many as the loop and its index say (`Standing`, by `StandingFollows`), that a handler is only installed or running in the first two when the context
is there (`Armed`), and that a thread which is gone left no call and no handler
behind (`Gone`): a thread goes on, and so ends, only when the handlers on its
stack have returned.

**Hash.** `HEntries` reads a chain by following its pointers, which is a recursion, so
nothing is proved by unfolding it. `Linked(h, b, q)` says instead that the pointers make the
sequence q: each `next` and `pprev`, and no entry twice. `AddHeadLinks` and
`DelLinks` show what `hlist_add_head` and `hlist_del` do to that sequence, and that they
write to no other chain. `WalkReads` shows that then `HEntries` reads q: the walk after
k steps has read the first k + 1 entries, for the least k of which this were false
there is a step before (`Least`, from the well-foundedness of the naturals), and a chain
without repetitions ends before the walk does (`NoneTwiceLength`). `_key_to_index` is dealt with
in the same way. The invariant adds to `ChainSound` who holds which mutex, that an item not yet
linked is one thread's (`InHand`, `HandApart`), and where a walk is: everything it has passed
has another key (`CursorAt`). Hence a walk that ends has shown that there is no entry
(`NoneThere`), as long as the mutex is held. `OnePerAdder` is not inductive, for the mutex
is given up before the insertion; `Counted` is: the entries of a key and the threads
that have not found it and will add it are together no more than its users. For a key
of one thread, that makes the entry unique and the insertion a `Put` of a key that is not
there (`AddsCount`), which is what the refinement needs; a get reads `ValueOf` because what is
found is that entry. The crash of `FoundReplace` is a `PutAgain` when some thread is about to
replace the value of its own key, else a stutter that leaves the hash as it is.

**Lists.** `ListsAsSequences` is about every operation of `hy_list.h` on two lists, or
hlists, at once; `ListOpsAre` proves it for any number of entries and heads and any pointers in
the entries that are not in a list. `Two(kind, h, x, p, y, q)` says of a heap that it has p at x
and q at y: each is a `Path`, where two neighbours point at each other (`Link`), from the head
through the entries to the head again, or to NULL (`End`). `Exchange` is the lemma
the rest comes from: an operation that takes o out of u o v and puts m there, and writes to no
`next` but those of the last of u, of o and of m, and to no `prev` but those of o, of m and of
the first of v (`Differ`), leaves the path u m v. For each operation it remains to
follow its assignments, in their order, to these two sets: `list_add` has o empty, `list_del` has m
empty, a replacement has one entry in both, a splice puts the whole of the other list.
`TwoExchange` adds that the other list keeps its pointers, as its entries are
others (`PathFrame`). The walks read what the pointers say (`WalkReads`, forwards
with `PathReads` and backwards with `RingReadsBack`). For the safe walks, whose function is
a CHOOSE over a recursion, `SafeExists` first shows that there is a solution; `SafeAt` is
what holds after k steps: the entries that were read and those that are left make p, the heap is
`Two` of those left, and the `n` that was read before the body is the next of them, whatever
the body does to the entry it was read from (`SafeStep`).

**AT commands.** None of the four is inductive: an answer is recognised long after it was
sent, perhaps after other bytes. `IInv` is about the bytes on their way as one sequence, what is
in the fifo and then what the reader has not put yet (`Stream`), so that a reader who puts
some of them, wherever in a poll, moves a border and changes nothing else. In step, behind what is
left of a frame that is being collected (`FrameLeft`), the stream is whole: each
message goes on to its last byte (`Whole`). What in it is not the modem's own belongs to
the first command, and may still be expected of it (`Answers`): which bytes these are depends
on how far the command has come (`ExpOf`), and which may follow which, so that what is left of one answer and the
beginning of another are never read as a third (`MayOf`). When the time of a command is over
no answer to it is under way, or that counts as late; therefore the next one begins with
none (`Quiet`). `UsedInv` says that bytes were put when the used length says so, and that none
is there or was peeked before. `PlaceOk`
connects the state of the poll with what is in front: only an answer, or the end of
one, looks like an answer; a frame's payload is never in front, because it is taken with its header or
is `FrameLeft`. `FrameOk` says that what was kept and `FrameLeft` bytes of the stream are one payload.
`TriesOk` counts: sendings and tries left are together `retry`, or one more between
a sending and its time-out; after the first of two answers a command is not sent
again. Most lemmas say that a sequence made of messages keeps this when one is appended, or one is
taken from its front. A step that leaves the step (section 5), a late answer among them, has no
obligation but types and `UsedInv`; that frames stay whole and tries bounded after a late
answer is checked by the run only.

### Only model-checked

* `ConversionsSound`, and the functions of `Convert`: what recursive definitions compute
  for every input is an induction over data. `HashProofs` does it by well-foundedness for the
  three definitions it needs; `HighBit` halves its argument, and the texts are of any length.
  `EndToEnd` and `FailsForCause` of `Config` rest on the conversions.
* `FramesWhole` and `SendsBounded` after a late answer, where the proofs stop at `OutOfStep`.
* `TraversalOnLive`, `FiresAfterExpires` and `SentBeforeTimeout`, which are violated.
* Every liveness property, `SortReturns` and `BlinksUnlessMissed` among them, and `NoneSentAnew`: liveness under fairness is outside the
  prover's reach.

## 5. What the models leave out, and what they show the code to do

**fifo, thread, net_wired, timer, sort**

* *Requests above 0x80000000.* The rounding doubles in 32 bits and ends at
  0, and the request is first cut to 32 bits. `SizeAssumption` excludes these sizes.
* *Weak memory.* `FifoSpsc` is sequentially consistent: stores are seen in
  program order, as on x86. The code has no barrier, so on ARM the published
  counter may be seen before the bytes.
* *The id of a new thread.* `_thread_loop_cb` names the thread by an id its
  creator may not have stored yet; a sleep of 1 ms stands in for the synchronisation.
* *Torn list operations.* `Timer` takes `list_add_tail` and `list_del` as one
  step. Two threads inside them at once would corrupt the list; the model
  finds the use of freed entries before that, and no more is claimed.
* *Stale handles.* A one-shot timer frees itself and its handle stays with the
  client, who may delete whatever `malloc` puts there next; the model keeps such handles.
* *Lost updates of `use_cnt`.* Where the update is not indivisible,
  `CntTracksFifo`, `NoPhantomGet` and `SetsAreApplied` say nothing: the loop may wake for a record
  that is not there, and sleep on one that is. It then applies its locals, to LED 1: `OnlyModesSet` says
  which modes these can be. The other properties of `NetWired` hold for those builds too.
* *Descriptors and ioctls.* `_led_set` is one write of `dev`; it leaks a
  descriptor when an ioctl fails, which its callers do not notice.
* *LED pairs that never blink.* `judge_condition` is indexed by the LED, so LED 1
  has no slow and LED 0 no fast blink; `Blinks` models it, and `BlinksUnlessMissed` is about the
  pairs that there are.
* *LEDs set to blink too late.* The tick counter of a LED runs in every mode from the
  creation on, is compared for equality, and is reset by a match only. Half a second after
  the creation (five or three sleeps of 100 ms) it has passed, and the LED does
  not blink before it has gone round 2^32 (`BlinksUnlessMissed`).
* *Programs after a crash.* A thread that was never created, or an allocation
  that fails where the clean-up uses NULL, ends the behaviour.
* *Scratch space of `_partition`.* When its second allocation fails it keeps the first.
* The thread's name, the layout of printed text.

**at_utils.** Answers may be late (`hist.late`) when `wait_time` was over, or the client
called `HyAtUtilsClean`, with something still on its way. A late answer is
credited to whatever command is the first; the second OK of a command that was sent twice
takes the first entry of an empty list (`wild`). `OwnAnswer` and `FirstEntryNonEmpty` except
this, the other properties do not. The module is out of step altogether (`hist.off_step`), and its
properties say nothing more, when

* a piece does not fit into the fifo, whose rest `HyFifoPut` drops without a word;
* an ERROR, or `HyAtUtilsClean`, empties the fifo in the middle of a message;
* a poll finds the first byte of a text of the modem's own alone, which `_read_handle` drops,
  and the rest of a frame is then read as text;
* the first piece of a frame is too short for its length to be read, and
  `_destroy_cmd_list` drops all commands;
* a command goes out again after one of its two answers was counted: `del_cnt` is not set back;
* the client ignores `AT_STATE_READ_CLOSED`: the state is kept, after the last ERROR
  that is WRITE, and the next poll takes the empty list's head for a command
  (TLC shows this with `Follow = TRUE`).

*The used length.* With the `use_cnt` of `hy_fifo.c` the state IDLE goes to READ for ever
once a byte has come: no time-out is noticed and no other command goes out
(`NoneSentAnew`), so that `Served` is claimed only while nothing has come, or
for a fifo whose `use_cnt` is lowered. A `>` alone is then also
taken for the prompt only when it is the first byte ever (`LonePrompt`).

Also: a length of three digits without a colon gives `memcpy` a negative length
(`overrun`); the time-out of a module that has just been idle costs a try; a
tag that has begun and does not go on is waited for without a time-out;
the texts of READY_1, READY_2 and ERROR_ALREADY_CONNECTED are recognised and
never consumed. Left out: failed allocations, the build with `SAVE_TEST_DATA`.

**hash, list.** `UtilsHashItemAdd` of a key that is there frees the new value and copies through NULL: the
program does not survive it (`FoundReplace`, `PutAgain`). Left out: failed
allocations, for which `_item_init` tests the wrong variable;
`UtilsHashItemGet` into a caller's buffer that it does not terminate;
`UtilsHashDump`, `hlist_add_fake`, and the walks that begin in the middle.

**log, signal, module.** `HyLogCreate` whose buffer cannot be allocated logs that through a
context without a buffer and crashes. Lines of several writers mix in the one buffer:
`WholeLine` is about lines that nobody interrupted. Handlers stay installed
after `HySignalDestroy` and read through NULL. An error handler allocates and frees,
and never returns when it interrupted `malloc` or `free`, be it that of the module with the thread,
that of `HySignalDestroy`, whose handlers are still installed, or that of the handler
of another error signal below it (`HeapDeadlock`); `Ends` says that nothing else keeps the
program from ending, and that only its exit gets it out. Left out: signals nobody
handles, `HyLogHex`, the shell commands of the error handler.

**utils, string, cjson, cjson_file.** `_get_file_content` keeps the descriptor when `calloc` fails
or the file is shorter than it was, and then the buffer too; `HyJsonFileGetRoot` keeps the buffer when the text does not
parse; `HyJsonFileGet*` keep the root when the field is missing: `FailsForCause` says
exactly this. `HyUtilsWrite` fails on EAGAIN with part of the text
written, where `HyUtilsRead` goes round without a wait; at the end of a file
`HyUtilsRead` returns a short count, which is neither `len` nor -1 (`EndToEnd`). Left out: the buffer handed to `cJSON_Parse`
has no terminator, and is taken not to continue into a document; `HyJsonGetString`
copies without a bound; a bracket that holds no number leaves its index uninitialised; a field that cannot be copied for lack of
memory is used through NULL; `HyStrCopyRight` of a string without a delimiter looks at the byte before it.

**Parts not modelled.** uart is termios set-up and a reader over an older thread
interface; dir walks a directory and calls back by suffix; dlopen and
log4cplus_wrapper forward to a library; md5sum is the published algorithm
over constant tables; bit and math are single expressions.

## 6. Plan

Every part with state of its own is modelled. What is left, in order:

1. Proofs: `FailsForCause` of `Config`.
2. `FifoSpsc` with a store buffer, for the builds on ARM.
3. `AtUtils` beyond `hist.off_step` (`Follow = TRUE`), and whether the module gets back in step
   once the modem is silent; and a proof that frames stay whole and tries bounded after late answers.

## 7. Running

    tlc -config MCFifo.cfg MCFifo      # and so on: the runs of PROJECT.json
    tlapm FifoProofs.tla               # and SpscProofs, SortProofs, NetWiredProofs,
                                       # TimerProofs, ServicesProofs, HashProofs,
                                       # AtUtilsProofs
