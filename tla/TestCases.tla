------------------------------- MODULE TestCases -------------------------------
(***************************************************************************)
(* From the command line to the list of test cases: make_setup (setups.c)  *)
(* turns what the parser has stored into a setup and counts the tests,     *)
(* test_cases_init (test_cases.c) makes a partition pattern for each       *)
(* partition size and fills the list.  Both ranks do all of it, with the   *)
(* same command line.                                                      *)
(*                                                                         *)
(* The loops over partition sizes halve the size until it is below the     *)
(* minimum.  make_setup gives minimum and maximum of the thread count the  *)
(* same value, so a loop over thread counts makes one round: doubling the  *)
(* count ends it, unless the count is 0 or the double is no int.  A loop   *)
(* whose variable stays 0 is the state "endless".  Where the C standard    *)
(* leaves open what happens (an int overflows, memory is read behind its   *)
(* end) the program may go on as it does when nothing comes of it, or be   *)
(* "undefined"; what it does from there is not followed.                   *)
(*                                                                         *)
(* The Makefile builds two programs: bench_dbg with the assertions, and    *)
(* bench without (-DNDEBUG).  A failed assertion ends the program.         *)
(*                                                                         *)
(* What is in a partition pattern is the subject of SendPatterns; here a   *)
(* pattern is the partition size it was made for, and of its assertions it *)
(* counts whether one fails.  Memory is there when asked for.              *)
(***************************************************************************)
EXTENDS Options, FiniteSets

VARIABLES
  debug,     (* the build has assertions, a constant                       *)
  setup,     (* struct setup_t                                             *)
  i,         (* loop counter over partition sizes                          *)
  j,         (* loop counter over partition sizes of the receiver          *)
  patterns,  (* partition_send_patterns, in the order of their index       *)
  tests      (* the list of test cases                                     *)

vars == <<parser, pc, debug, setup, i, j, patterns, tests>>

\* mode_names; the enumeration Mode has other words for two of them.
ModeNames ==
  <<"Send", "SendPersistent", "Isend", "IsendTest", "IsendThenTest",
    "IsendTestall", "PsendCustom", "WinSingle", "Win", "Psend", "PsendList",
    "PsendParrived", "PsendProgress", "PsendProgressThreaded">>

Modes ==
  <<"Send", "SendPersistent", "Isend", "IsendTest", "IsendThenTest",
    "IsendTestall", "CustomPsend", "WinSingle", "Win", "Psend", "PsendList",
    "PsendParrived", "PsendProgress", "PsendProgressThread">>

PatternNames ==
  <<"linear", "linear_inverse", "stride_128", "stride_1K", "stride_16K",
    "random", "random_burst_128", "random_burst_1K", "random_burst_16K">>

\* The loops that look for a name; without one it is the first of the table.
Lookup(table, name) ==
  IF \E n \in DOMAIN table : table[n] = name
  THEN CHOOSE n \in DOMAIN table : table[n] = name
  ELSE 1

IsPsend(mode) ==
  mode \in {"Psend", "PsendProgress", "PsendParrived", "PsendProgressThread",
            "CustomPsend"}

\* C divides towards zero.
Half(n) == IF n >= 0 THEN n \div 2 ELSE -((-n) \div 2)

\* The variable of a loop that begins with n, after k rounds.
Halves(n) == LET h[k \in Nat] == IF k = 0 THEN n ELSE Half(h[k - 1]) IN h

NoSetup == [none |-> TRUE]

Init ==
  /\ ParserInit
  /\ debug \in BOOLEAN
  /\ setup = NoSetup
  /\ i = 0 /\ j = 0
  /\ patterns = <<>> /\ tests = <<>>

(* assert: the process is gone, and all of its memory.                     *)
Abort ==
  /\ pc' = "aborted"
  /\ setup' = NoSetup /\ patterns' = <<>> /\ tests' = <<>>
  /\ UNCHANGED <<parser, debug, i, j>>

-------------------------------------------------------------------------------
(* make_setup.                                                             *)

MakeSetup ==
  /\ pc = "parsed"
  /\ LET max == IF args["partition_size_max"] # 0
                THEN args["partition_size_max"] ELSE args["partition_size"]
     IN  /\ setup' =
              [num_test_cases |-> 0,
               buffer_size |-> args["num_values"],
               mode |-> Lookup(ModeNames, args["mode"]),
               allow_1_to_n |-> args["allow_1_to_n"] # 0,
               allow_n_to_1 |-> args["allow_n_to_1"] # 0,
               min_partition_size |-> args["partition_size"],
               max_partition_size |-> max,
               thread_count |-> args["num_threads"],
               send_pattern |-> Lookup(PatternNames, args["send_pattern"])]
         /\ i' = max /\ j' = max
  /\ pc' = "count"
  /\ UNCHANGED <<parser, debug, patterns, tests>>

Mode == Modes[setup.mode]
MinSize == setup.min_partition_size
MaxSize == setup.max_partition_size
Threads == setup.thread_count
Psend == IsPsend(Mode)

\* The body of the loops is reached; the outer one is there in psend modes.
Counting == pc = "count" /\ j >= MinSize /\ (Psend => i >= MinSize)

\* Doubling t ends in a number that is no int, at once or by and by.
Overflows == Threads < 0 \/ 2 * Threads > MaxInt

CountTest ==
  /\ Counting
  /\ j # 0 /\ Threads # 0 /\ ~Overflows
  /\ setup' = [setup EXCEPT !.num_test_cases = @ + 1]
  /\ j' = Half(j)
  /\ UNCHANGED <<parser, debug, pc, i, patterns, tests>>

\* j or t stays 0, until num_test_cases++ overflows; or t *= 2 does.
CountForEver ==
  /\ Counting
  /\ j = 0 \/ Threads = 0 \/ Overflows
  /\ pc' \in {"endless", "undefined"}
  /\ UNCHANGED <<parser, debug, setup, i, j, patterns, tests>>

FaultyCountNextSize ==
  /\ pc = "count" /\ j < MinSize
  /\ Psend /\ i >= MinSize
  /\ i' = Half(i) /\ j' = Half(i)
  /\ UNCHANGED <<parser, debug, pc, setup, patterns, tests>>

CountNextSize ==
  /\ pc = "count" /\ j < MinSize
  /\ Psend /\ i >= MinSize
  /\ i' = Half(i) /\ j' = MaxSize
  /\ UNCHANGED <<parser, debug, pc, setup, patterns, tests>>

Counted ==
  /\ pc = "count"
  /\ IF Psend THEN i < MinSize ELSE j < MinSize

\* Then test_cases_init makes the byte pattern, and prints its beginning.
EndCount ==
  /\ Counted
  /\ setup.buffer_size >= 0
  /\ i' = MaxSize
  /\ pc' = "patterns"
  /\ UNCHANGED <<parser, debug, setup, j, patterns, tests>>

(* There is no memory of a negative size (malloc and calloc return a null  *)
(* pointer), and a small pattern does not have the six entries to print.   *)
BufferTooSmall ==
  /\ Counted
  /\ setup.buffer_size < 6
  /\ pc' = "undefined"
  /\ UNCHANGED <<parser, debug, setup, i, j, patterns, tests>>

-------------------------------------------------------------------------------
(* test_cases_init.                                                        *)

\* The length of the bursts of a send pattern; the others have none.
Burst(pattern) ==
  CASE pattern = 7 -> 128 [] pattern = 8 -> 1024 [] pattern = 9 -> 16384
    [] OTHER -> 1

(* The assertions of make_partition_send_pattern: each byte belongs to a   *)
(* partition, and none has more bytes than its size.  The bytes behind the *)
(* last whole burst are 0 in the byte pattern, that is in partition 0.     *)
PatternHolds(size) ==
  /\ setup.buffer_size % size = 0
  /\ setup.buffer_size % Burst(setup.send_pattern) = 0 \/ size = setup.buffer_size

\* The partition pattern for the next size.
MakePattern ==
  /\ pc = "patterns" /\ i >= MinSize
  /\ debug => PatternHolds(i)
  /\ patterns' = Append(patterns, i)
  /\ i' = Half(i)
  /\ UNCHANGED <<parser, debug, pc, setup, j, tests>>

PatternAborts ==
  /\ pc = "patterns" /\ i >= MinSize
  /\ debug /\ ~PatternHolds(i)
  /\ Abort

(* Without assertions bytes behind the last whole partition are counted    *)
(* behind the end of num_ready; often nothing comes of it (MakePattern).   *)
PatternOverruns ==
  /\ pc = "patterns" /\ i >= MinSize
  /\ ~debug /\ setup.buffer_size % i # 0
  /\ pc' = "undefined"
  /\ UNCHANGED <<parser, debug, setup, i, j, patterns, tests>>

\* Both follow the option allow_1_to_n (test_cases.c:182-183).
Allow1ToN == Psend /\ setup.allow_1_to_n
AllowNTo1 == Psend /\ setup.allow_1_to_n

MaxRecv(size) == IF Allow1ToN THEN MaxSize ELSE size
MinRecv(size) == IF AllowNTo1 THEN MinSize ELSE size

EndPatterns ==
  /\ pc = "patterns" /\ i < MinSize
  /\ i' = MaxSize /\ j' = MaxRecv(MaxSize)
  /\ pc' = "fill"
  /\ UNCHANGED <<parser, debug, setup, patterns, tests>>

FaultyIndexOf(size) ==
  CHOOSE k \in 0..MaxSize :
    /\ Halves(MaxSize)[k] < size
    /\ \A m \in 0 .. k - 1 : Halves(MaxSize)[m] >= size

\* test_cases_send_pattern: halve the maximum until it is not above the size.
IndexOf(size) ==
  CHOOSE k \in 0..MaxSize :
    /\ Halves(MaxSize)[k] <= size
    /\ \A m \in 0 .. k - 1 : Halves(MaxSize)[m] > size

Count(size) == setup.buffer_size \div size

FaultyTooManyThreads == Count(i) = 0 \/ Threads > Count(i) + 1
FaultyNotFewerThreads == Threads >= Count(i)

TooManyThreads == Threads > Count(i)

TestCase ==
  LET threads == IF Count(i) < Threads THEN Count(i) ELSE Threads
  IN  [mode |-> Mode,
       send_pattern |-> IndexOf(i),
       recv_pattern |-> IndexOf(j),
       partition_size |-> i,
       partition_size_recv |-> j,
       partition_count |-> Count(i),
       partition_count_recv |-> Count(j),
       thread_count |-> threads,
       partitions_per_thread |-> (Count(i) + threads - 1) \div threads]

\* The assertion at the end of the loop; only of an uneven test can the product
\* be more than an int holds.
Even(t) == t.partitions_per_thread * t.thread_count = t.partition_count

Filling == pc = "fill" /\ i >= MinSize /\ j >= MinRecv(i)

AddTest ==
  /\ Filling
  /\ ~TooManyThreads
  /\ debug => Even(TestCase)
  /\ tests' = Append(tests, TestCase)
  /\ j' = Half(j)
  /\ UNCHANGED <<parser, debug, pc, setup, i, patterns>>

UnevenTest ==
  /\ Filling
  /\ ~TooManyThreads
  /\ debug /\ ~Even(TestCase)
  /\ Abort

FaultyLeaveOutTest ==
  /\ Filling
  /\ TooManyThreads
  /\ UNCHANGED vars

LeaveOutTest ==
  /\ Filling
  /\ TooManyThreads
  /\ j' = Half(j)
  /\ UNCHANGED <<parser, debug, pc, setup, i, patterns, tests>>

NextSize ==
  /\ pc = "fill" /\ i >= MinSize /\ j < MinRecv(i)
  /\ i' = Half(i) /\ j' = MaxRecv(Half(i))
  /\ UNCHANGED <<parser, debug, pc, setup, patterns, tests>>

EndFill ==
  /\ pc = "fill" /\ i < MinSize
  /\ pc' = "ready"
  /\ UNCHANGED <<parser, debug, setup, i, j, patterns, tests>>

Startup ==
  \/ Parser /\ UNCHANGED <<debug, setup, i, j, patterns, tests>>
  \/ MakeSetup
  \/ CountTest \/ CountForEver \/ CountNextSize \/ EndCount \/ BufferTooSmall
  \/ MakePattern \/ PatternAborts \/ PatternOverruns \/ EndPatterns
  \/ AddTest \/ UnevenTest \/ LeaveOutTest \/ NextSize \/ EndFill

Stopped ==
  pc \in {"failed", "informed", "endless", "undefined", "aborted", "ready"}

Next == Startup \/ (Stopped /\ UNCHANGED vars)

\* A sequential program runs.
Spec == Init /\ [][Next]_vars /\ WF_vars(Startup)
-------------------------------------------------------------------------------
(* Properties.                                                             *)

TypeOK ==
  /\ line \in CommandLines
  /\ optind \in 1 .. Len(line) + 1
  /\ given \in [OptionNames -> Nat] /\ seen = given
  /\ pc \in {"parse", "parsed", "count", "patterns", "fill"} \/ Stopped
  /\ debug \in BOOLEAN
  /\ i \in Int /\ j \in Int
  /\ patterns \in Seq(Int)

(* The list never grows beyond what calloc was given (test_cases.c:172):   *)
(* make_setup has counted with other loops than those that fill it.        *)
ListFits == setup # NoSetup /\ pc # "count" => Len(tests) <= setup.num_test_cases

(* Each test has the patterns of its own partition sizes: the lookup finds *)
(* the place where the other loop has stored it (test_cases.c:106-112),    *)
(* and its assertion (line 110) holds.                                     *)
PatternsOfSizes ==
  \A n \in DOMAIN tests :
    LET t == tests[n]
    IN  /\ {t.send_pattern + 1, t.recv_pattern + 1} \subseteq DOMAIN patterns
        /\ patterns[t.send_pattern + 1] = t.partition_size
        /\ patterns[t.recv_pattern + 1] = t.partition_size_recv

\* The sizes between the options, by repeated halving of the larger one.
Sizes == {s \in MinSize..MaxSize : \E k \in 0..MaxSize : s = Halves(MaxSize)[k]}

(* The pairs of sizes of sender and receiver that the options ask for by   *)
(* their help texts (cmdline.ggo:14-15): equal sizes; with allow_1_to_n,   *)
(* "receive side has more partitions than sender"; with allow_n_to_1,      *)
(* "send side has more partitions than receiver".                          *)
\* The methods with requests of their own on each side take them (is_psend).
On(option) == Psend /\ args[option] # 0
Asked ==
  {p \in Sizes \X Sizes :
     /\ Threads * p[1] <= setup.buffer_size
     /\ \/ p[1] = p[2]
        \/ On("allow_1_to_n") /\ p[2] < p[1]
        \/ On("allow_n_to_1") /\ p[1] < p[2]}

(* The finished list has each pair once.  With both options or none it has *)
(* the pairs that are asked for and no other.  The code reads the second   *)
(* option from the first (test_cases.c:183), so with one of them it does   *)
(* not do what the help says: allow_1_to_n alone brings the pairs of both, *)
(* allow_n_to_1 alone none.  Then only the pairs of equal sizes are those  *)
(* that are asked for.                                                     *)
ListIsComplete ==
  pc = "ready" =>
    LET pair(n) == <<tests[n].partition_size, tests[n].partition_size_recv>>
        Listed == {pair(n) : n \in DOMAIN tests}
        Equal == {p \in Sizes \X Sizes : p[1] = p[2]}
    IN  /\ Listed \cap Equal = Asked \cap Equal
        /\ On("allow_1_to_n") = On("allow_n_to_1") => Listed = Asked
        /\ \A m, n \in DOMAIN tests : pair(m) = pair(n) => m = n

(* The slices of the threads cover the partitions of a test and every      *)
(* thread has a partition at least if they divide it ("something went      *)
(* wrong" is never printed, test_cases.c:218-221).  The assertion of line  *)
(* 225 says more, that the slices are the partitions: it does not hold of  *)
(* uneven tests.  bench_dbg ends there, and in the tests it gets to the    *)
(* slices are all bytes of the buffer; bench goes on with uneven tests.    *)
SlicesCover ==
  \A n \in DOMAIN tests :
    LET t == tests[n]
    IN  /\ t.thread_count = Threads
        /\ t.thread_count * t.partitions_per_thread >= t.partition_count
        /\ t.thread_count * (t.partitions_per_thread - 1) < t.partition_count
        /\ debug => t.thread_count * t.partitions_per_thread * t.partition_size
                     = setup.buffer_size

(* Options with which the loops end, by the C standard, and the byte       *)
(* pattern has the entries that are printed.                               *)
Legal ==
  /\ args["partition_size"] > 0
  /\ args["num_threads"] > 0 /\ 2 * args["num_threads"] <= MaxInt
  /\ args["num_values"] >= 6

\* The size at which the program is does not divide the buffer, bursts do
\* not, or the threads do not divide its partitions.
Uneven ==
  LET values == args["num_values"]
  IN  /\ Legal /\ i > 0
      /\ \/ values % i # 0
         \/ values % Burst(Lookup(PatternNames, args["send_pattern"])) # 0
         \/ (values \div i) % args["num_threads"] # 0

(* With such options the program gets to its tests, or to the end of an    *)
(* empty list: none of the nested loops over sizes, threads and receivers  *)
(* runs for ever (setups.c:41-50, test_cases.c:157-188).  Only sizes and   *)
(* thread counts that leave a rest can end it before, bench_dbg in an      *)
(* assertion (send_patterns.c:93, :100, test_cases.c:225), and bench,      *)
(* which has none, in an overrun (send_patterns.c:94).                     *)
LegalStarts ==
  pc = "parsed" /\ Legal
    ~> pc = "ready" \/ (Uneven /\ pc = IF debug THEN "aborted" ELSE "undefined")

-------------------------------------------------------------------------------
(* The inductive invariant of the properties above.                        *)

SetupType ==
  [num_test_cases : Nat, buffer_size : Int, mode : DOMAIN Modes,
   allow_1_to_n : BOOLEAN, allow_n_to_1 : BOOLEAN,
   min_partition_size : Int, max_partition_size : Int, thread_count : Int,
   send_pattern : DOMAIN PatternNames]

TestType ==
  [mode : {Modes[m] : m \in DOMAIN Modes}, send_pattern : Int, recv_pattern : Int,
   partition_size : Int, partition_size_recv : Int,
   partition_count : Int, partition_count_recv : Int,
   thread_count : Int, partitions_per_thread : Int]

Looping == pc \in {"count", "patterns", "fill", "ready"}

SetupInv ==
  IF Looping \/ pc \in {"endless", "undefined"}
  THEN /\ setup \in SetupType
       /\ MinSize = args["partition_size"] /\ Threads = args["num_threads"]
       /\ setup.buffer_size = args["num_values"]
       /\ setup.allow_1_to_n <=> args["allow_1_to_n"] # 0
       /\ setup.send_pattern = Lookup(PatternNames, args["send_pattern"])
       /\ pc \in {"count", "endless"} => patterns = <<>>
       /\ pc \notin {"fill", "ready"} => tests = <<>>
  ELSE setup = NoSetup /\ patterns = <<>> /\ tests = <<>>

\* Without one of these the loops of make_setup do not end.
Sane == MinSize > 0 \/ MinSize > MaxSize

\* The loops over thread counts end, in test_cases_init (line 188), too.
OneRound == Threads > 0 /\ ~Overflows

(* The loops pass through the sizes, and nobody gets behind make_setup     *)
(* with options for which they would not end.                              *)
LoopInv ==
  Looping =>
    /\ Sane => /\ i >= MinSize => i \in Sizes
               /\ j >= MinSize => j \in Sizes
    /\ pc = "count" => /\ ~Sane => i >= MinSize /\ j >= MinSize
                       /\ OneRound \/ (i = MaxSize /\ j = MaxSize)
    /\ pc # "count" => Sane /\ (MinSize <= MaxSize => OneRound)

\* The pairs of sizes that two nested loops have behind them at a and b.
Behind(P, a, b) == {p \in P : p[1] > a \/ (p[1] = a /\ p[2] > b)}

(* make_setup counts pairs of sizes, or the second halves of such pairs.   *)
CountInv ==
  /\ pc = "count" /\ Sane =>
       /\ setup.num_test_cases = Cardinality(Behind(Sizes \X Sizes, i, j))
       /\ ~Psend => i = MaxSize
  /\ pc \in {"patterns", "fill", "ready"} =>
       setup.num_test_cases =
         Cardinality((IF Psend THEN Sizes ELSE {MaxSize}) \X Sizes)

(* The table of patterns has one for each round of the loop, to the last.  *)
PatternsInv ==
  pc \in {"patterns", "fill", "ready"} =>
    /\ \A n \in DOMAIN patterns : patterns[n] = Halves(MaxSize)[n - 1]
    /\ IF pc = "patterns" THEN i = Halves(MaxSize)[Len(patterns)]
       ELSE Halves(MaxSize)[Len(patterns)] < MinSize

(* The numbers of a test are those that belong to its sizes.               *)
Consistent(t) ==
  /\ t.partition_size \in Sizes /\ t.partition_size_recv \in Sizes
  /\ t.send_pattern = IndexOf(t.partition_size)
  /\ t.recv_pattern = IndexOf(t.partition_size_recv)
  /\ t.partition_count = Count(t.partition_size)
  /\ t.partition_count_recv = Count(t.partition_size_recv)
  /\ t.thread_count = Threads
  /\ t.partitions_per_thread = (t.partition_count + Threads - 1) \div Threads

EntryInv ==
  /\ tests \in Seq(TestType)
  /\ \A n \in DOMAIN tests : Consistent(tests[n])

Wanted ==
  {p \in Sizes \X Sizes :
     Threads * p[1] <= setup.buffer_size /\ (Allow1ToN \/ p[1] = p[2])}

(* What the assertions have let through.                                   *)
EvenInv ==
  debug => /\ \A n \in DOMAIN patterns : setup.buffer_size % patterns[n] = 0
           /\ \A n \in DOMAIN tests : Even(tests[n])

(* The list has each wanted pair that the loops have behind them once.     *)
ListInv ==
  pc \in {"fill", "ready"} =>
    LET pair(n) == <<tests[n].partition_size, tests[n].partition_size_recv>>
    IN  /\ {pair(n) : n \in DOMAIN tests} = Behind(Wanted, i, j)
        /\ \A m, n \in DOMAIN tests : pair(m) = pair(n) => m = n
        /\ Len(tests) = Cardinality(Behind(Wanted, i, j))
        /\ Allow1ToN \/ j <= i
        /\ pc = "ready" => i < MinSize

IInv ==
  /\ TypeOK /\ ParserInv
  /\ SetupInv /\ LoopInv /\ CountInv /\ PatternsInv /\ EntryInv /\ EvenInv /\ ListInv
===============================================================================
