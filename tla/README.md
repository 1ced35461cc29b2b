# Verification of mpi-benchmark

The program measures how long fourteen ways of moving one buffer from MPI rank 0
to MPI rank 1 take (blocking and non-blocking messages, persistent requests,
partitioned communication with and without helpers, one-sided windows).  This
directory holds TLA+ models of its concurrent parts, the TLC configurations that
check them, and TLAPS proofs about them.  A wrong benchmark does not crash: it
prints a number for something that did not happen.  Most of the properties
therefore say that what lies between two timers is what the column promises,
and that both ranks, all threads and all restarts agree about it.

## The system

| part | state | operations | talks to |
|---|---|---|---|
| progress thread (`benchmarks/bench_psend_progress_thread.c`) | `thread->request`, three POSIX semaphores, one helper thread | create, set_request, continue, pause, destroy; the helper's polling loop | the run method that owns it, by shared memory; MPI, by `MPI_Request_get_status` |
| main loop (`bench.c`) | loop index, results, verdict, `R0.csv`/`R1.csv` | open file, bench, skip, record, finalize | run methods (function pointer), the other rank (only through MPI), the file system |
| partitioned run methods (`bench_psend*.c`, `custom_psend_dummy.c`) | one partitioned request per rank, an OpenMP team on rank 0 | init, start, Pready / Pready_list, get_status, Parrived, wait, free | MPI, the team |
| point-to-point run methods (`bench_send*.c`, `bench_isend*.c`) | an array of requests, a team on each rank | send, isend, start, get_status, testall, waitall | MPI, the team |
| one-sided run methods (`bench_win*.c`) | one window, or one for every partition | lock, put, unlock, free | MPI |
| test cases (`test_cases.c`, `setups.c`) | list of tests, two buffers, results | enumerate the options, look up the pattern, free | command line parser, send patterns |
| send patterns (`send_patterns.c`) | a byte pattern, and for each partition size a partition pattern | linear, inverse, stride, random, random bursts; partition pattern | test cases |
| timers (`timers.c`) | start time, count, sum, average, spread for every column | start, stop, store | every run method |
| command line parser (`cmdline.c`, generated by gengetopt) | values, `_given` counters and texts of the options | parse: take an option, refuse one, help, version | test cases |
| job scripts and plots (`pbs/`, `plotting/`, `plots/`) | result directories | submit, plot | result files |

How they interact: `main` walks through the test list on each rank by itself,
calls the run method of each test through a function pointer and writes one row
per test.  A run method is a warm-up, a barrier, the timed iterations, a second
barrier.  No message and no barrier carries the number of its test; that the
two ranks are in the same test is a matter of the order of calls alone.

What is hard about it:

* **interleavings** of the run method with its helper thread, of the threads of
  a team that share one request, of two ranks of which the sender may be an
  iteration ahead;
* **stale state**: a pointer is checked and used later, a time limit is read by
  each rank from its own clock;
* **ordering**: semaphores, barriers and messages are matched by count;
* **liveness**: polling loops, semaphores held over a loop, a rank that skips
  what the other one starts;
* **restarts**: the batch system kills the job at its walltime, and somebody starts
  the program again in a directory that has result files (`pbs/bench.sh` empties
  the directory first, a start by hand does not);
* **boundaries**: thread counts that do not divide the partition count, patterns
  whose index leaves the buffer, sizes and thread counts of 0 or below, numbers
  that do not fit an `int`;
* **two loops that must agree**: tests are counted in `setups.c` and listed in
  `test_cases.c`, patterns are stored by one loop and looked up by another.

What makes each part correct:

* progress thread - polls only a request that is started and not waited for,
  never exchanges the request under a poll, stops exactly once, after the last
  iteration; pause always returns;
* main loop - the ranks time the same test, rows of both files belong together,
  a skipped test repeats a result above the limit and no other, also in the rows a killed
  job has left, the verdict is about all rows;
* partitioned methods - each partition is ready exactly once in each epoch and
  before the wait; the buffer of rank 1 holds one epoch; barriers fence off the
  measured interval; the method returns;
* point-to-point methods - each message lands in the iteration it was sent in, no
  request is reused while it is active, nothing is left over for the next test;
* one-sided methods - no two holders of a lock, rank 1 compares its buffer after
  the last put;
* every run method - between its barriers a rank never meets the warm-up of the
  other one, and it is done only after the last iteration of the other one;
* command line parser - nothing on a command line is lost or taken twice;
* test cases - the list is the one the options ask for (where they agree: see below), it fits its memory,
  the looked up pattern belongs to the partition size, slices cover the partitions, the loops end;
* send patterns - a pattern is a permutation of the partitions, in the order in
  which they get complete;
* timers - the columns of a row fit each other, and no transfer looks faster
  than it was.

## Modules

| module | models | proofs |
|---|---|---|
| `PollWindow` | abstract: what a progress thread promises to its user | |
| `ProgressThread` | `bench_psend_progress_thread.c`, both threads of one rank | `ProgressThreadProofs` |
| `MainLoop` | `main` and `bench` on both ranks, result files, kill and rerun | `MainLoopProofs` |
| `RunMethod` | abstract: what a run method promises to the main loop | at the end of `MainLoopProofs` |
| `Partitioned` | five run methods on partitioned requests, both ranks, the team, MPI as environment | `PartitionedProofs` |
| `Messages` | six run methods on messages, both ranks, both teams, MPI as environment | `MessagesProofs` |
| `Windows` | two run methods on windows, both ranks, MPI as environment | `WindowsProofs` |
| `Options` | `cmdline.c` as `main` calls it: the parser, element by element | `TestCasesProofs` |
| `TestCases` | extends `Options` by `make_setup` and `test_cases_init` | `TestCasesProofs` |
| `SendPatterns` | `send_patterns.c`: byte patterns and the partition patterns made of them | `SendPatternsProofs` |
| `Timers` | `timers.c` and the calls to it in a run method | `TimersProofs` |
| `MCPartitioned`, `MCMessages`, `MCWindows`, `MCSendPatterns`, `MCTestCases` | the tests, patterns, setups and command lines used for checking | |

How they fit together: `ProgressThread` implements `PollWindow`; `Partitioned`,
`Messages` and `Windows` implement `RunMethod`, by a mapping of each rank's program
counter to a phase; the run method of `MainLoop` - two barriers, then a result - is
what `RunMethod` leaves of them.  `TestCases` goes on where the parser of `Options`
ends, and its `patterns` are what `SendPatterns` makes.

Each module has one action per step that another thread, rank or the transport
can observe; `PROJECT.json` maps each definition to the lines it stands for.
A definition named `Faulty...` is its neighbour with one fault, of the kind a
change of the code could introduce.  No specification uses it: each property is
known to be violated when the fault takes the place of the original.

### ProgressThread

One rank.  `main` and `helper` are the program counters of the benchmark's thread
and of `progress()`.  Each semaphore operation is one atomic action, each access
to `thread->request` is one, `MPI_Start`, `MPI_Wait` and each poll is one.
`progress_thread_set_request` and `progress_thread_pause` therefore are three
actions each, with everything the helper can do in between.  `caller` says on
behalf of which call `set_request` and `continue` run (creation, an iteration,
destruction).  `rank` is 0 or 1: rank 1 creates and destroys a helper, but never
drives it.  The warm-up comes before the helper exists and is part of `Init`.
The parallel region is one action here, its loop is modelled in `Partitioned`.

`ENABLE_STATUS` is 0 in the source, so `progress_thread_check` is not compiled.

### MainLoop

Both ranks, each with its loop index `i`, its results, its verdict and its file.
A file is a sequence of headers, each with the rows below it.  A `Result` is
abstracted to what `main` reads of it: whether `timings[Total]` is above the limit,
and `success`; the field `by` (which test measured it) is added to state
properties.  A run method is its two barriers; a barrier is a counter, because
MPI matches collectives by call order.  `LeaveSecondBarrier` covers the rest of
`bench`: `Total` is this rank's clock, `memcmp` this rank's buffer.  `Kill` ends both
ranks at any point, `Rerun` starts them again with the files as they are.
`skewed`, chosen at the beginning, says whether the two ranks may disagree about
which test is above the limit, as clocks of two nodes do near 5 s.

### RunMethod

`phase` of a rank is `warmup`, `first` (in the barrier behind the warm-up), `timed`,
`second` (in the barrier behind the iterations) or `done`; `iter` counts its completed
iterations, `Rounds` says how many it takes part in.  A rank leaves a barrier
only if the other one has entered it.  The specification has weak fairness of each
rank, so an implementation of it returns.  In `Windows` rank 1 has 0 rounds: it
waits between the barriers, and the transfers are rank 0's alone.

### Partitioned

`test`, chosen at the beginning, is a test case: its mode (the run method) and
thread count.  Rank 0 starts the request, the team goes through its slices (one action per mode, since the loops differ),
joins, waits; rank 1 starts, polls in two of the modes, waits.  `epoch` 0 is the
warm-up.  MPI is external: `Take` removes a ready partition from the send buffer,
`Deliver` puts it into the receive buffer once the receive of the same epoch is
started; both happen at any time, so that the sender may return from its wait
before anything has arrived.  `misuse` records a call that the MPI standard calls
erroneous (a partition marked twice, or outside of the request; a request started
or freed while active).  A read behind the end of `send_pattern` is undefined and
returns any number.

### Messages

Both ranks have a team of threads.  MPI matches the messages of a tag in the order
of the calls, and a tag is a partition number in every iteration and every test; so
a message is its number.  `test` is again the test case.  `posted` counts the sends and receives of a tag, `landed`
the messages in the receive buffer, `taken` the sends whose buffer MPI needs no
more (`landed <= taken <= posted`).  A request handle is the number of its call,
`requests` is the array of handles in the code.  MPI is external: `Deliver`
moves a message that has its receive, `Buffered` completes a send before there is
one - it may happen or not, so both eager and rendezvous protocols are covered.
The warm-up of `bench_isend` is the only place where threads share an array entry:
the call, the store of its handle, the read of the handle by `MPI_Wait` and the
store of `MPI_REQUEST_NULL` are four actions there.  Waiting twice for one request
is undefined; it sets `misuse`, and the model goes on as if both calls returned.

### Windows

`pc` is the next MPI call of a rank.  All collectives (barriers, creating and
freeing windows) are counted like barriers.  A lock taken with `MPI_MODE_NOCHECK`
acquires nothing; one taken without it waits for `holder`.  `Arrive` moves the data
of a put at any time before its unlock returns.  Rank 1 compares its buffer after
the windows are freed, so that the copies the separate memory model distinguishes
agree by then.

### SendPatterns

A sequential program, as `test_cases_init` calls it on each rank: the byte pattern first,
the partition pattern second.  `setup` says which kind, how many bytes, which stride or
burst (`gap`) and which partition size.  The three loops whose invariants carry the
argument - stride, `shuffle`, `make_partition_send_pattern` - take a step for each
round; the linear patterns and the copy of the bursts are a step as a whole.
`rand()` returns any number, a superset of what the constant seed produces.  A byte
whose partition number is behind `num_ready` is a step of its own (`CountOutside`): what is
read there is undefined, so the partition may be listed or not.

`Partitioned` and `Messages` take a permutation as their pattern (`PatternAssumption`,
`TestsAssumption`); `PatternIsPermutation` is the ground for it.

### Options and TestCases

A command line is a sequence of elements as `getopt_long` delivers them.  `args`,
`given` and `orig` are the fields of `args_info`, `seen` the counters of
`local_args_info`; each element is one action: a repeated option, one that is stored, a
numeric one with text behind the number (stored, then refused, as in the code), help,
an unknown option, an operand.  The text of a number is abstracted to what `strtol` reads.
A `long` that goes into an `int` keeps its lowest bits: it is taken modulo `2 * MaxInt + 2` (`ToInt`),
where `MaxInt` is `INT_MAX`.

`TestCases` runs the nested loops of `make_setup` (`CountTest`, `CountNextSize`) and
`test_cases_init` (`MakePattern`, `AddTest`, `LeaveOutTest`, `NextSize`), an action for each
round, with their own loop variables `i` and `j`.  `make_setup` sets minimum and maximum of the
thread count to the same value, so the thread loops have one round and no variable.
`Halves(n)` is the sequence of values of a loop that begins with `n`.

`debug`, chosen at the beginning, is which of the two programs of the Makefile runs: `bench_dbg`, or `bench`, which is built
with `-DNDEBUG`.  There are three ends besides a list of tests and a refused command line:

* `endless` or `undefined` (`CountForEver`): the variable of a loop stays 0 and a counter is increased for ever, or `t *= 2`
  leaves the range of `int` (`setups.c:44`, `:48`), which is undefined and on most machines gives 0;
* `undefined` (`BufferTooSmall`, `PatternOverruns`): the six entries of the byte pattern that `test_cases.c:151` prints are not there, the size
  for `malloc` and `calloc` is negative, or `bench` increments an element behind `num_ready` (`send_patterns.c:94`).  If the
  size is not negative the program may also go on as if nothing had happened;
* `aborted` (`PatternAborts`, `UnevenTest`): an assertion of `send_patterns.c:93-100` or `test_cases.c:225` fails in `bench_dbg`.

### Timers

One rank of one run method.  Each reading of `MPI_Wtime` is an action and may be later
than the last one by 0 to `MaxStep` units.  `Stop` is `timer_stop` with its formulas; averages are integers in
units of `1 / Scale`, chosen so that the divisions by the counts are exact.
`timed` says whether this rank times its iterations (rank 1 of the window methods
does not).

## Runs

| run | shows |
|---|---|
| `progress_thread` | all interleavings, 4 iterations, both ranks: `PollOwned`, `RequestStable`, `MissedRoundIsForever`, `Shutdown`; it implements `PollWindow` with its liveness (`WindowSpec`) |
| `main_loop` | 3 tests, 2 starts, kills anywhere, clocks that agree or not: the ranks never time different tests (`SameTestBenched`), rows pair, the rows of each section are those of the tests in their order up to the first over the limit (`RowsFollowLimit`), the verdict covers them, the loop ends if the clocks agree |
| `main_loop_limit` | violation: one rank skips and the other waits for ever |
| `partitioned` | five methods with 2 threads, `bench_psend` and `bench_custom_psend` also with 3 that do not divide 4 partitions (the guard of `bench_psend` is sufficient), 2 timed iterations: `MpiUsedCorrectly`, `PollEndsComplete`, `BufferOfEpoch`; they implement `RunMethod` (`MethodSpec`), `bench_psend_progress` without its liveness |
| `messages` | six methods, 2 threads on each rank, 2 iterations: `IterationIsComplete`, `InStep`, `NothingLeft` and `MethodSpec` for all of them, `FirstBarrierFences` and `MpiUsedCorrectly` for all but `bench_isend` |
| `messages_warmup` | violation: a warm-up message of `bench_isend` is under way when `Total` starts |
| `windows` | both methods, 3 partitions, 2 iterations: `NoCheckInIterations`, `WarmupIsOver`, `DataAtCheck`, `MethodSpec` |
| `send_patterns` | all patterns of up to 6 bytes, all random numbers: `BytesArePermutation`, `CompletionOrder`, `PatternIsPermutation` |
| `send_patterns_assert` | violation: a partition number behind the last partition, against the assertion in line 93 |
| `startup` | command lines through parser, `make_setup` and `test_cases_init`, with assertions and without: `ParsedAsGiven`, `ListFits`, `PatternsOfSizes`, `ListIsComplete`, `SlicesCover`; legal options lead to the list, or to an assertion or overrun if they leave a rest (`LegalStarts`) |
| `timers` | up to 3 iterations, all durations of 0 to 2 units: `ColumnsAreNested`, `NeverUnderstates` |
| `timers_mean` | violation: the "average time" of two iterations is not their mean |

### Bounds, and why they are enough

* `Iterations = 4` for the progress thread: a round can be missed, its surplus be
  carried over, met by a second missed round, and both by the destroying NULL; the
  proofs remove the bound for all safety properties.
* `Count = 3`, `MaxRuns = 2`: a skipped test between a measured and a skipped one; a
  kill in each state of the first start, followed by a full second one.  With three
  tests and clocks that disagree one rank can be two tests ahead of the other.
  The proofs remove both bounds for all safety properties.
* `PartitionCount = 4`, `Threads = 2`, `RecvCount = 2`: each thread has two steps, so
  slices interleave and a partition number differs from its index (the pattern is
  the linear inverse one), and the round-robin over receive partitions wraps.
  With three threads the last one has no partition at all.
  `Iterations = 2` behind a warm-up gives three epochs, one more than the sender can
  be ahead.  The proofs remove all of these bounds for the safety properties.
* `Messages` has the same sizes: each thread sends two partitions in each iteration, so
  that the order of blocking calls within a thread matters, and in the polling of
  `bench_isend_then_test` there are partitions that are asked for and others that
  are not; with two iterations a sender that does not wait is a whole iteration
  ahead.  `bench_isend` has one partition for each thread: its race needs two
  threads and one tag.  The proofs remove these bounds for the safety properties.
* `Windows` has three partitions, so that a window is first, in between or last, and
  two iterations behind the warm-up.  The proofs remove these bounds, too.
* `SendPatterns` has 0 to 6 bytes, strides and bursts of 1 to 4 and partitions of 1 to
  3 bytes: each may be 1, divide the buffer, leave a rest or exceed it.  The proofs
  remove all of these bounds.
* `startup` takes all sequences of up to three elements, so that an error may come before or
  behind another one, before help or behind `--`; 4,500 complete command lines (`Setups`)
  whose sizes are negative, 0, equal, powers of two or not, in the wrong order or larger than
  the buffer, with fewer, as many and more threads than partitions; and 720 more (`Edges`) with buffers that are
  negative, too small to print, or leave a rest behind bursts, and thread counts on both sides of half of `MaxInt`.
  Each of them runs through both builds.  `MaxInt = 32767`, the least that C
  promises, makes 65540 a number that does not fit.
  The proofs remove all of these bounds for the safety properties.
* `Timers` has three iterations: the shares `1`, `1/2` and `1/3` all enter an average, and `Scale = 12`
  is divisible by each count of stops.  The proofs remove these bounds.

### Fairness, and why the code justifies it

* ProgressThread: weak fairness of each thread - POSIX threads that can run are
  scheduled.  `sem_wait` needs no strong fairness here: at most one thread
  competes with the other for `accept_requests`, and the helper returns to a
  `sem_wait` on another semaphore between two rounds.  That `MPI_Wait` returns is assumed;
  `Shutdown` is about the semaphores.  The comments of the code have doubts about MPI:
  one records a crash in `MPI_Wait` (`bench_psend_progress_thread.c:153-170`), another one says that
  a sender which calls `MPI_Request_get_status`, as the helper does, may get stuck (`bench_psend_progress.c:120`).
* MainLoop: weak fairness of each rank, none of `Kill` and `Rerun`.
* Partitioned: weak fairness of each rank, of each thread, and of MPI as a whole:
  MPI's progress rule says that a started transfer completes, whether
  or not somebody polls.  Not so for `bench_psend_progress`: "also, sometimes gets stuck here, but only if
  MPI_Request_get_status is called" (`bench_psend_progress.c:120`) is said of the place in front of `MPI_Wait`, and the method always
  calls it.  There is no fairness of MPI in this method, and its half of `MethodSpec` is the safety part alone.
* Messages: weak fairness of each rank, of each thread and of the delivery of each tag;
  none of buffering, which MPI promises nobody.
* Windows: weak fairness of each rank and of the arrival of each put; an unlock
  returns only when the data of the window has arrived.
* TestCases: weak fairness of the one sequential program.
* RunMethod: weak fairness of each rank, which the three modules that implement it
  have to show from their own fairness.
* SendPatterns, Timers: no liveness property; each step advances a loop with a fixed end.

## Proofs

The inductive invariants are at the end of their modules, below the properties they are for.
They are proved for all values of the constants, so no run checks them any more; `INVARIANT IInv` (or
`RowsInv`, `MarkInv`) in the cfg of its module is how to try a change of one before the proof.  All of them held
on the small instances before they were proved.

| module | properties of its run that are proved | only model-checked |
|---|---|---|
| `ProgressThread` | `PollOwned`, `RequestStable`, `MissedRoundIsForever`, safety of `WindowSpec` | `Shutdown`, liveness of `WindowSpec` |
| `MainLoop` | `TypeOK`, `SameTestBenched`, `RowsPair`, `VerdictCoversRows`, `RowsFollowLimit` | `Termination` |
| `Partitioned` | `TypeOK`, `PollEndsComplete`, `BufferOfEpoch`, `MpiUsedCorrectly`, safety of `MethodSpec` | liveness of `MethodSpec` |
| `Messages` | `TypeOK`, `MpiUsedCorrectly`, `IterationIsComplete`, `InStep`, `FirstBarrierFences`, `NothingLeft`, safety of `MethodSpec` | liveness of `MethodSpec` |
| `Windows` | `TypeOK`, `NoCheckInIterations`, `WarmupIsOver`, `DataAtCheck`, safety of `MethodSpec` | liveness of `MethodSpec` |
| `SendPatterns` | `BytesArePermutation`, `CompletionOrder`, `PatternIsPermutation` | |
| `Timers` | `ColumnsAreNested`, `NeverUnderstates` | |
| `Options`, `TestCases` | `TypeOK`, `ParsedAsGiven`, `ListFits`, `PatternsOfSizes`, `ListIsComplete`, `SlicesCover` | `LegalStarts` |

`ProgressThreadProofs` proves, for every number of iterations, that
`IInv` is an invariant of `ProgressThread`, and from it `TypeOK`, `PollOwned`,
`TokensBinary` (`request_available` and `accept_requests` never exceed 1), `ExitOnlyOnDestroy`, `RequestStable`, `MissedRoundIsForever`
and the safety part of the implementation of `PollWindow` (initial states map to
initial states, each step to a step or a stutter).

`PollOwned` alone is not inductive.  The strengthening has four parts:

* `ControlInv` ties the caller of `set_request`/`continue` to the program counter,
  the iteration and the request's state;
* `RequestInv` says exactly when `thread->request` is NULL, and that the helper's
  check of it stays true for as long as the helper relies on it;
* `OneHolder` is the mutual exclusion argument: `accept_requests`, plus one for the
  thread that took it, is always 1, counting the helper that has not posted its
  first token yet;
* `EveryRoundAnswered` counts: posts of `signal_done` minus rounds that the helper is in
  or can still begin is never negative (so no round lasts for ever), and zero
  while the helper polls (so it polls only in a round that the current pause will
  end).

Assumption: `Iterations` is a natural number, as the type `size_t` of the code.

`MainLoopProofs` proves, for every number of tests and any disagreement of the clocks,
`IInv` and from it `SameTestBenched`.  The idea of the invariant (`BarrierCount`):
a rank enters two barriers in each test until a test exceeds the limit and none
after that, so the number of barriers it has entered determines its test;
`Passed(r) <= barriers[Other(r)]` is what a barrier guarantees.  A rank between
its barriers has entered an odd number of them, the other one has entered at
least as many, and could only be elsewhere with an even number that is too small.

`RowsInv` carries the argument from tests to files.  The tests a rank has a result for
(`Decided`) are those before `i`; `Measured` of them it has measured, the others repeat the last of these,
and the number of barriers says how many (`ResultsOf`).  Below the newest header a file is the
results so far, row by row, and rank 1's verdict is their conjunction (`RowsOf`).  If the ranks disagree
about a limit, one of them waits in a barrier that the other one never enters (`LimitStopsTheMode`), so the rows they have
in common come from the same test all the same (`RowsPair`).

`LimitInv` is behind `RowsFollowLimit`: the results of a rank are those of the tests in their order up to the first one over the limit
and copies of it from there on, and while a test is under way the result before it is not over the limit.  Since every
copy is over the limit like its original, no result before it is (`OneMoreResult`).  `RowsOf` makes the newest section a copy of
the results, the older ones stay what they were, whole or cut off by a kill.

Assumptions: `Count` and `MaxRuns` are natural numbers, `Skews` is a set of Booleans.

`SendPatternsProofs` proves, for every number of bytes, every stride, burst and
partition size and every sequence of random numbers, `IInv` and from it `TypeOK`,
`ShuffleKeepsValues`, `StrideFits`, `BytesArePermutation` and `PatternIsPermutation`.
The parts of `IInv`:

* `StrideInv`: the values written so far are exactly those the loops have passed, each
  once.  So there is room as long as a value is left (`Pigeonhole`), and none
  when all are passed (`AllTaken`).
* `ShuffleInv`: what is put out and what remains are different values, all of
  them numbers of bytes (or offsets with room for their burst);
* `ListInv` and `CountInv`: `num_ready[p]` is the number of bytes of `p` counted so far, and
  a partition is listed, once, if and only if it is full.  Since the byte pattern is a
  permutation, a partition has `partition_size` bytes in it (`PartitionSize`, by counting
  them in an interval), so it is full if and only if the last of them has been
  counted (`FullIsPassed`, `AllFull`): this gives `CompletionOrder`.

Assumption: each setup has a natural number of bytes and positive gap and partition size.

`TimersProofs` proves, for every number of iterations of any length, `IInv` of `Timers` and from it
`TypeOK`, `ColumnsAreNested` and `NeverUnderstates`.  The parts of `IInv`:

* `Counts`: a stop is counted in every iteration and nowhere else, so the two inner timers
  divide by the same numbers;
* `Bounds`: `average` is at most `sum`, and `count * average` at least `sum`.  The step is
  `StopTimer`: the k-th part of the new duration counts k times in the
  new product, and the old average once more than before;
* `PartInside`: each share of `IterationStartToWait` is at most the share of the `Iteration` around it.
  While an iteration lasts, the share it has so far stands in for the one to come;
* `LocalInside`: the iterations follow each other inside `Total`, so their sum, which
  bounds their average, is not above it.

Assumption: `Scale` is divisible by each number of stops, so that the model's integers are
exact.  What the rounding of doubles adds is left out.

The last section of `MainLoopProofs` proves `Fenced` of `RunMethod` (`IterationsFenced`) for any number of iterations on each rank.  Its
`PhaseInv` says which phases two ranks can be in at once: a rank behind the first barrier has the other one out
of its warm-up, a rank that is done has the other one in or behind the second barrier.

`PartitionedProofs` proves that `Partitioned` implements the safety part of `RunMethod`, for every pattern,
number of threads, partitions and iterations (`ImplementsRunMethod`; with `IterationsFenced` it gives the
fence for the partitioned methods).  The invariant `ControlInv` says that
where a rank is in its code determines how many barriers it has entered and which epochs it may
be in; a rank that leaves a barrier has the other one's count at least as high, and so
the other one's phase.  `HiddenStep` and `VisibleMove` are the two ways in which a step can map.

What happens to the data is proved on top of it, in two parts:

* `IInv`, for every team: the state of a request is told from where its rank is (`RequestInv`), and while
  rank 1's request is active what has arrived is of rank 1's epoch, while it is not the whole buffer is of the last one
  (`RecvInv`).  So `BufferOfEpoch` and `PollEndsComplete` hold even if threads mark partitions twice or never: what MPI
  delivers is of the epoch of the receive.
* `MarkInv`, for teams that are even (`TeamsAreEven`, a hypothesis of these theorems): the partitions
  that are ready in an epoch are those whose threads have passed them, and each of them once.
  Slices do not overlap (`IndexInjective`) and the pattern is a permutation (`MarkInjective`), so no thread marks what another one has
  marked: `MpiUsedCorrectly`.  `EachMarkedOnce` is the other half: slices and pattern
  cover the partitions (`SlicesCoverAll`, `PatternCovers`), so none is left when rank 0 waits.  A test with
  a team that is not even is aborted by `assert` at `test_cases.c:225`; with `-DNDEBUG` it is `misuse`, except in `bench_psend`, which has a guard of its
  own, and in `bench_custom_psend`, which has no team.

Assumptions: positive counts, a send pattern that is a permutation of the partitions.

`MessagesProofs` proves, for every team, pattern and number of iterations, all safety properties of
`Messages` and the safety part of `RunMethod`.  `ControlInv` is as above, with the barriers in front of the iterations
of two methods counted, too (`BarrierCount`); `InStep` follows from the counts of both ranks.  For the data, `RankInv` has for each rank

* `TeamInv`: where its threads can be in their loops;
* `CountInv`: the number of sends or receives of a tag, as messages of the warm-up plus completed
  iterations plus one if the tag was started in this iteration.  A thread starts what no other thread has (`StartStep`): slices do
  not overlap and the pattern is a permutation (`Slices`, `PatternPermutes`).  At the end of the region all
  tags are started (`AllStarted`, from `SlicesCover`);
* `HandleInv`: the handle in `requests` is that of the last send or receive of its tag, and with persistent requests
  that of an inactive one is null.  This is what makes waiting for the array waiting for the iteration;
* `BlockingInv`: the same for the calls of `bench_send`, which keep no handle in an array;
* `WaitedInv`: what was waited for is complete.

`NetInv` bounds what MPI has done by what was called.  A step of a rank leaves the other one's
`RankInv` alone, and MPI only ever completes more (`Frame`).  `NothingIsLeft` has a hypothesis: there is at least
one iteration, or no test of `bench_isend`.  Its warm-up can leave a
message that nobody waits for, the handle being lost; only the requests of a later iteration, which MPI matches behind it, prove it
received.  With `Iterations = 0` TLC shows the message that is left.

Assumptions: a positive number of threads and of partitions for each of them, a pattern that is a permutation.

`WindowsProofs` proves, for every pattern and number of partitions and iterations, all safety properties of `Windows` and
the safety part of `RunMethod`, in which rank 1 has no rounds.  `CollectiveInv` counts collectives where the other two
count barriers: `Behind` is the number a rank has left.  `LockInv` says that a lock is held between its lock and unlock
and nowhere else.  `MemoryInv` says which partitions have the data of the current epoch: those whose
puts are behind rank 0 (`Filled`), and at the end of an epoch all, because the pattern covers them.

Assumptions: positive counts, a pattern that is a permutation of the partitions.

`TestCasesProofs` proves, for every set of command lines and every width of an `int`, all safety properties of
`Options` and `TestCases`.  The parts of `IInv`:

* `ParserInv`: what is in `args_info` is what the elements taken so far say, none of which is one the parser should have
  stopped at; a counter in `local_args_info` is positive if and only if one of these elements names its option
  (`RepeatedIsNamed`).  At the end these elements are all there are in front of `--` (`ParserResult`: `ParsedAsGiven`);
* `SetupInv`: what `make_setup` has taken over from `args_info`;
* `LoopInv`: a loop variable that is not below the minimum is a size, and nobody gets behind `make_setup`
  with options for which its loops do not end (`Sane` for those over sizes, `OneRound` for those over thread counts);
* `CountInv` and `ListInv`: `Behind` is the set of pairs of sizes that two nested loops have passed.  `make_setup` counts pairs of
  sizes, `test_cases_init` adds one entry for each wanted pair it passes.  A round of the inner loop passes one pair more
  (`BehindCount`), a round of the outer one none (`BehindOuter`), although the two
  programs begin their inner loops in different places.  So the list has as many entries as there are wanted pairs, and these
  are no more than were counted (`WantedAreCounted`: `ListFits`); at the end all pairs are passed (`BehindEnd`: `ListIsComplete`);
* `EvenInv`: with assertions, the sizes of all patterns divide the buffer and the threads of all tests their partitions;
* `PatternsInv` and `EntryInv`: the table of patterns has one for each round of its loop, and the numbers of a test are those of its sizes.
  The round in which the lookup of `test_cases_send_pattern` stops is the only one with this size (`IndexIsRound`), and it is one of
  those that made a pattern, since sizes only get smaller (`HalvesMonotone`): `PatternsOfSizes`.

Sizes are what repeated halving of the maximum passes through.  Facts about it need induction over the rounds, which is done by hand: a set
of natural numbers that is not empty has a least element (`Least`, from the library's theorem that `<` is well-founded),
so a set that has 0 and all successors has all (`NoLeast`).  With it, `HalvesDef` shows that the recursive
definition of `Halves` has a value, and `HalvesDown`, `HalvesStrict` that it decreases until it is 0.

Two more theorems are about `LegalStarts`, whose liveness is left to TLC.  With options that are `Legal` - a positive size, a positive thread count that
an `int` can hold twice, six values at least - the program is never `endless`; it is `aborted` or `undefined` only in the build that is, and only with
sizes or thread counts that leave a rest (`Uneven`; `OnlyIllegalIsEndless`, from `WholeParts` and `WholeSlices`: what divides
the buffer passes the assertions).  And each step takes another element, makes the
number of a loop smaller and not negative, begins a later part of the program, or is such an end (`LegalOptionsAdvance`).

Assumptions: `MaxInt` is at least 32767; command lines are sequences of the elements described above, of any length.

Out of the reach of the prover, and only model-checked: all liveness (`Shutdown`,
`Termination`, `LegalStarts`, the fairness parts of `WindowSpec` and `MethodSpec`).

## Where code and text disagree

Four of these are exhibited by a run that expects a violation (`main_loop_limit`, `messages_warmup`,
`send_patterns_assert`, `timers_mean`); the others can be read off the definition or property named.

* `timer_stop` adds `delta / count` to the average (`timers.c:37`) and so prints as "average
  time" (`bench.c:204`) the sum of the k-th duration over k: for 100 equal iterations 5.19 times their length
  (`MeanIsAverage`).  The spread computed from two such averages is the root of a negative number
  for some durations, and 0 / 0 for `Total`, which is stopped once.
* `allow_n_to_1` is set from the option `allow_1_to_n` (`test_cases.c:183`), against the help texts: "whether to test cases where
  receive side has more partitions than sender" and "where send side has more partitions than receiver" (`cmdline.ggo:14-15`).  With
  `--allow-1-to-n=1` alone the list has the pairs of both, with `--allow-n-to-1=1` alone those of none.  `Asked` is what the
  texts say; `ListIsComplete` states that the list is that where both options agree, and excepts the pairs of unequal sizes where they do not.
* The default pattern "Linear" is none of the identifiers ("linear", `bench.h:12`); it and
  every unknown mode or pattern silently become the first of their table (`Lookup`).
* `is_psend` leaves out `PsendList` (`test_cases.c:42`), so the options for sender
  and receiver of different sizes do not apply to it.
* A receiver partition size above the buffer gives `partition_count_recv = 0`; rank 1 of
  `bench_psend_parrived` then polls for ever, without asking for the status once.  `Partitioned` assumes a receive partition.
* A partition size or thread count of 0 hangs `make_setup` (`CountForEver`), and so does a thread count above half of
  `INT_MAX` where doubling it wraps around; `--num-threads=` is 0, since
  only text behind a number is refused, and a number beyond `int` is cut down (`ToInt`).
* Operands are ignored: a word of a job script that lacks its `--option=` has no effect and no message.
* `signal_done` is not binary, against `assert(signal_done_value <= 1)`
  (`bench_psend_progress_thread.c:61`); a missed round leaves a surplus that is never
  removed, and from then on the helper leaves each round without a poll
  (`MissedRoundIsForever`).  Data is not affected, the measured mode is.
* The time limit is compared by each rank with its own clock (`bench.c:193`);
  if they disagree, one rank waits for ever (`LimitStopsTheMode`).
* "open file and overwrite with header line" (`bench.c:44`) stands above `fopen(..., "a")`, which appends: in `MainLoop` a second
  start adds a header line below the rows of the first (`OpenResultFile`).  No property depends on which of the two is meant:
  `RowsPair` and `VerdictCoversRows` are about the newest section, `RowsFollowLimit` about each one that is there.
* `assert(test_case->partitions_per_thread * test_case->thread_count == test_case->partition_count)` (`test_cases.c:225`)
  fails for options with which nothing else is wrong, as 3 threads and 4 partitions: `bench_dbg` ends (`UnevenTest`).  `bench`, with `-DNDEBUG`,
  goes on, and the methods other than `bench_psend` then read behind
  the pattern (`Read` in `Partitioned`).  `SlicesCover` has what the assertion says for the build that has it, and for the other one
  only that the slices cover the partitions and are no larger than that takes.
* The comments of `bench_psend_progress.c` say that `MPI_Request_get_status` "sometimes returns true despite not all Pready calls being
  done" (`:108-110`; nobody reads the answer) and that the sender "sometimes gets stuck here, but only if MPI_Request_get_status is called" (`:120`).
  Neither is a fault of this code, both are doubts about the MPI below it.  So no progress of MPI is assumed for this method; that the
  polling loop of rank 1 may trust `MPI_Request_get_status` still is (`PollEndsComplete`).
* `make_partition_send_pattern` asserts that each byte has a partition (`send_patterns.c:93`);
  with the default options (4096 values, 100 in a partition) 96 bytes have none, an
  element behind `num_ready` is incremented, and these bytes are never sent.
* `bench_isend`'s warm-up loses handles (`bench_isend.c:17`): messages of the section headed
  "warmup" may be part of `Total`, and without iterations one may be left for the next test.
* `bench_win_single.c:31` asserts `MPI_MODE_NOCHECK` while rank 1 locks the window.
* `bench_isend_then_test` leaves an iteration when a request below
  `partitions_per_thread` is complete; `IterationIsComplete` holds for its receiver
  and excepts its sender.

## Not modelled

* Time itself, and how long anything takes: `Timers` is about values of a clock.
* The rounding of doubles, and the format of numbers in the result files.
* `work()`, `init_buffer`, `check_buffer`: computations without shared state.
* The entry points of the generated parser that the program does not call (dumping and saving
  a configuration, parameters with `override`), and its help texts.
* The Makefile beyond the two builds of `TestCases`, the Python and the shell scripts (`pbs/`, `plotting/`, `plots/`): they start the program and
  read what it has written.
* `num_test_cases` (`setups.c:58`), which nothing calls, and builds with `DISABLE_PSEND`.
* Freeing of the list, the buffers and the patterns at the end of `main`: no state is read afterwards.
* MPI: only what the standard promises of the calls used, as environment.
* `custom_psend.h` beyond its dummy implementation, the only one in the repository.

## Plan

Order: the parts where threads and ranks interact first, data second.

1. `ProgressThread`, `MainLoop`, `Partitioned` (done).
2. `Messages`, `Windows` (done).
3. `SendPatterns`, `Options`, `TestCases` (done).
4. `Timers` (done).
5. `RunMethod`, which `Partitioned`, `Messages` and `Windows` implement (done, and proved for all three).
6. Proofs of all safety properties that the runs check (done).
7. Left: liveness, which stays with TLC.
