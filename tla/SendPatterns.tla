----------------------------- MODULE SendPatterns -----------------------------
(***************************************************************************)
(* send_patterns.c, as test_cases_init uses it: a byte pattern (the order  *)
(* in which the bytes of the buffer are written) is made first, then the   *)
(* partition pattern, the order in which the partitions get complete.  All *)
(* arrays start with the index 0.                                          *)
(*                                                                         *)
(* The loops whose invariants matter (stride, shuffle, partitions) take a  *)
(* step for each round, the others are a step as a whole.  rand() returns  *)
(* anything: the code seeds it with a constant, so that both ranks shuffle *)
(* alike.                                                                  *)
(*                                                                         *)
(* A definition named Faulty... is the one behind it with a single fault.  *)
(* No behaviour of Spec takes it: it shows what a property would detect.   *)
(***************************************************************************)
EXTENDS Integers, Sequences, FiniteSets

CONSTANT Setups   (* the setups to consider                                *)

Kinds == {"Linear", "LinearInverse", "Stride", "Random", "RandomBurst"}

\* count is the number of bytes, gap the stride or the size of a burst, size
\* that of a partition.
Setup ==
  [kind : Kinds, count : Nat, gap : Nat \ {0}, size : Nat \ {0}]

ASSUME SetupsAssumption == Setups \subseteq Setup

VARIABLES
  setup,      (* what is to be made, a constant                            *)
  pc,         (* "make", "stride", "shuffle", "partition" or "done"        *)
  i,          (* the inner loop counter                                    *)
  j,          (* stride: the outer loop counter                            *)
  index,      (* stride: where the next value goes                         *)
  output,     (* the array that is filled or shuffled                      *)
  remaining,  (* shuffle: remaining_values                                 *)
  bytes,      (* the byte pattern                                          *)
  num_ready,  (* for each partition: its bytes so far                      *)
  order,      (* the partitions that are complete, in this order           *)
  outside     (* a partition number was behind the last one                *)

loops == <<i, j, index, output, remaining>>
parts == <<num_ready, order, outside>>
vars == <<setup, pc, loops, bytes, parts>>

Upto(n) == 0 .. n - 1
Identity(n) == [k \in Upto(n) |-> k]
Zeros(n) == [k \in Upto(n) |-> 0]     (* calloc *)

Count == setup.count
Bytes == Upto(Count)
PartitionCount == Count \div setup.size
Partitions == Upto(PartitionCount)

Init ==
  /\ setup \in Setups
  /\ pc = "make"
  /\ i = 0 /\ j = 0 /\ index = 0
  /\ output = Zeros(0) /\ remaining = Zeros(0)
  /\ bytes = Zeros(Count)
  /\ num_ready = Zeros(PartitionCount)
  /\ order = <<>>
  /\ outside = FALSE

-------------------------------------------------------------------------------
(* Byte patterns.                                                          *)

\* The byte pattern is made; on to the partitions.
Made(pattern) ==
  /\ bytes' = pattern
  /\ pc' = "partition"
  /\ i' = 0
  /\ UNCHANGED <<setup, j, index, output, remaining, parts>>

MakeLinear == pc = "make" /\ setup.kind = "Linear" /\ Made(Identity(Count))

MakeLinearInverse ==
  /\ pc = "make" /\ setup.kind = "LinearInverse"
  /\ Made([k \in Bytes |-> Count - 1 - k])

MakeStride ==
  /\ pc = "make" /\ setup.kind = "Stride"
  /\ pc' = "stride"
  /\ output' = Zeros(Count)
  /\ UNCHANGED <<setup, i, j, index, remaining, bytes, parts>>

FaultyStrideRow ==
  /\ pc = "stride" /\ j < setup.gap /\ i >= Count
  /\ j' = j + 1
  /\ i' = j
  /\ UNCHANGED <<setup, pc, index, output, remaining, bytes, parts>>

\* The rows of make_stride_pattern: the values j, j + gap, j + 2 * gap, ...
StrideRow ==
  /\ pc = "stride" /\ j < setup.gap /\ i >= Count
  /\ j' = j + 1
  /\ i' = j + 1
  /\ UNCHANGED <<setup, pc, index, output, remaining, bytes, parts>>

StrideStep ==
  /\ pc = "stride" /\ j < setup.gap /\ i < Count
  /\ output' = [output EXCEPT ![index] = i]
  /\ index' = index + 1
  /\ i' = i + setup.gap
  /\ UNCHANGED <<setup, pc, j, remaining, bytes, parts>>

EndStride == pc = "stride" /\ j = setup.gap /\ Made(output)

\* What is shuffled: all bytes, or the offsets of the bursts.
ShuffleCount ==
  IF setup.kind = "Random" THEN Count ELSE Count \div setup.gap
Values ==
  IF setup.kind = "Random" THEN Identity(Count)
  ELSE [k \in Upto(ShuffleCount) |-> k * setup.gap]

StartShuffle ==
  /\ pc = "make" /\ setup.kind \in {"Random", "RandomBurst"}
  /\ pc' = "shuffle"
  /\ output' = Values /\ remaining' = Values
  /\ UNCHANGED <<setup, i, j, index, bytes, parts>>

\* remaining_values_count
Left == ShuffleCount - i

\* shuffle: a remaining value is taken, the last one fills its place.
ShuffleStep ==
  /\ pc = "shuffle" /\ i < ShuffleCount
  /\ \E num \in Upto(Left) :
       /\ output' = [output EXCEPT ![i] = remaining[num]]
       /\ remaining' = [remaining EXCEPT ![num] = remaining[Left - 1]]
  /\ i' = i + 1
  /\ UNCHANGED <<setup, pc, j, index, bytes, parts>>

FaultyBursts(offsets) ==
  [k \in Bytes |-> IF k < setup.gap * ShuffleCount
                   THEN offsets[k \div setup.gap] + (k \div setup.gap) ELSE 0]

\* Each offset followed by the rest of its burst; no burst reaches the bytes
\* behind the last whole one.
Bursts(offsets) ==
  [k \in Bytes |-> IF k < setup.gap * ShuffleCount
                   THEN offsets[k \div setup.gap] + (k % setup.gap) ELSE 0]

EndShuffle ==
  /\ pc = "shuffle" /\ i = ShuffleCount
  /\ Made(IF setup.kind = "Random" THEN output ELSE Bursts(output))

-------------------------------------------------------------------------------
(* make_partition_send_pattern.                                            *)

PartitionOf(byte) == byte \div setup.size

FaultyCountByte ==
  /\ pc = "partition" /\ i < Count
  /\ LET p == PartitionOf(bytes[i])
     IN  /\ p \in Partitions
         /\ num_ready' = [num_ready EXCEPT ![p] = @ + 1]
         /\ order' = IF num_ready[p] = 0 THEN Append(order, p) ELSE order
  /\ i' = i + 1
  /\ UNCHANGED <<setup, pc, j, index, output, remaining, bytes, outside>>

\* One more byte of its partition; the last one completes it.
CountByte ==
  /\ pc = "partition" /\ i < Count
  /\ LET p == PartitionOf(bytes[i])
     IN  /\ p \in Partitions
         /\ num_ready' = [num_ready EXCEPT ![p] = @ + 1]
         /\ order' = IF num_ready'[p] = setup.size THEN Append(order, p)
                     ELSE order
  /\ i' = i + 1
  /\ UNCHANGED <<setup, pc, j, index, output, remaining, bytes, outside>>

\* The byte is behind the last whole partition: num_ready is read and written
\* behind its end, with any result (the assertion is not compiled).
CountOutside ==
  /\ pc = "partition" /\ i < Count
  /\ LET p == PartitionOf(bytes[i])
     IN  /\ p \notin Partitions
         /\ order' \in {order, Append(order, p)}
  /\ outside' = TRUE
  /\ i' = i + 1
  /\ UNCHANGED <<setup, pc, j, index, output, remaining, bytes, num_ready>>

Finish ==
  /\ pc = "partition" /\ i = Count
  /\ pc' = "done"
  /\ UNCHANGED <<setup, loops, bytes, parts>>

Next ==
  \/ MakeLinear \/ MakeLinearInverse
  \/ MakeStride \/ StrideRow \/ StrideStep \/ EndStride
  \/ StartShuffle \/ ShuffleStep \/ EndShuffle
  \/ CountByte \/ CountOutside \/ Finish
  \/ pc = "done" /\ UNCHANGED vars

Spec == Init /\ [][Next]_vars
-------------------------------------------------------------------------------
(* Properties.                                                             *)

TypeOK ==
  /\ setup \in Setups
  /\ pc \in {"make", "stride", "shuffle", "partition", "done"}
  /\ i \in Nat /\ j \in 0 .. setup.gap /\ index \in 0 .. Count
  /\ pc = "stride" => output \in [Bytes -> Bytes]
  /\ pc = "shuffle" =>
       /\ output \in [Upto(ShuffleCount) -> Bytes]
       /\ remaining \in [Upto(ShuffleCount) -> Bytes]
  /\ bytes \in [Bytes -> Bytes]
  /\ num_ready \in [Partitions -> 0 .. Count]
  /\ order \in Seq(Nat)
  /\ outside \in BOOLEAN

\* The numbers below n in some order, which is what the run methods rely on
\* (PatternAssumption of Partitioned, TestsAssumption of Messages).
IsPermutation(f, n) ==
  /\ f \in [Upto(n) -> Upto(n)]
  /\ \A k, l \in Upto(n) : f[k] = f[l] => k = l

\* The partition pattern: what is not written is 0 (permutation_create).
Pattern ==
  [k \in Partitions |-> IF k < Len(order) THEN order[k + 1] ELSE 0]

\* No byte is left over by the bursts, or by the partitions.
WholeBursts == setup.kind = "RandomBurst" => Count % setup.gap = 0
WholePartitions == Count % setup.size = 0

(* A shuffle takes each value once: what it has put out and what remains   *)
(* are always different values, although the place of a value it takes is  *)
(* filled with another one (send_patterns.c:45-47).                        *)
ShuffleKeepsValues ==
  pc = "shuffle" =>
    /\ \A k, l \in Upto(i) : output[k] = output[l] => k = l
    /\ \A k, l \in Upto(Left) : remaining[k] = remaining[l] => k = l
    /\ \A k \in Upto(i), l \in Upto(Left) : output[k] # remaining[l]

(* The rows of a stride fill the array to its end and not further, whether *)
(* or not the gap divides the count or exceeds it (send_patterns.c:31).    *)
StrideFits ==
  pc = "stride" =>
    /\ j < setup.gap /\ i < Count => index < Count
    /\ j = setup.gap => index = Count

(* A byte pattern names each byte of the buffer once.                      *)
BytesArePermutation ==
  pc \in {"partition", "done"} /\ WholeBursts => IsPermutation(bytes, Count)

(* The partition pattern is the order in which the partitions get complete *)
(* when the bytes are written in the order of the byte pattern: one is     *)
(* listed as soon as its last byte has come, and behind those listed       *)
(* before (send_patterns.c:96).                                            *)
Passed(p) ==
  \A k \in Bytes : PartitionOf(bytes[k]) = p => k < i

CompletionOrder ==
  pc = "partition" /\ WholeBursts /\ WholePartitions =>
    /\ {order[k] : k \in 1..Len(order)} = {p \in Partitions : Passed(p)}
    /\ \A k, l \in 1..Len(order) : k < l =>
         \E m \in Upto(i) :
           /\ PartitionOf(bytes[m]) = order[l]
           /\ \A n \in m .. Count - 1 : PartitionOf(bytes[n]) # order[k]

(* The threads of a run method mark each partition once: the pattern they  *)
(* follow is a permutation.                                                *)
PatternIsPermutation ==
  pc = "done" /\ WholeBursts /\ WholePartitions =>
    IsPermutation(Pattern, PartitionCount)

(* "assert(partition_index >= 0 && partition_index < partition_count);"    *)
(* (send_patterns.c:93).                                                   *)
IndexInRange == ~outside

(* The inductive invariant behind all of them.                             *)

\* What StrideStep has passed when it is at value i of row j.
Before(v) == v % setup.gap < j \/ (v % setup.gap = j /\ v < i)

\* The values written so far are those the loops have passed, each once.
StrideInv ==
  pc = "stride" =>
    /\ output \in [Bytes -> Bytes]
    /\ j < setup.gap => i >= j /\ i % setup.gap = j
    /\ \A k, l \in Upto(index) : output[k] = output[l] => k = l
    /\ \A k \in Upto(index) : Before(output[k])
    /\ \A v \in Bytes : Before(v) => \E k \in Upto(index) : output[k] = v

\* The two arrays of a shuffle hold nothing but the values it began with.
Shuffled == {Values[k] : k \in Upto(ShuffleCount)}

ShuffleInv ==
  pc = "shuffle" =>
    /\ setup.kind \in {"Random", "RandomBurst"}
    /\ i <= ShuffleCount
    /\ output \in [Upto(ShuffleCount) -> Shuffled]
    /\ remaining \in [Upto(ShuffleCount) -> Shuffled]
    /\ ShuffleKeepsValues

\* Partitions are listed when they are full, and none is listed twice.
ListInv ==
  /\ num_ready \in [Partitions -> Nat] /\ order \in Seq(Nat)
  /\ \A p \in Partitions : num_ready[p] <= i
  /\ ~outside =>
       /\ \A k \in 1..Len(order) :
            order[k] \in Partitions /\ num_ready[order[k]] >= setup.size
       /\ \A k, l \in 1..Len(order) : order[k] = order[l] => k = l

\* num_ready counts, full partitions are listed, and no byte is left over if
\* the partitions are whole.
Counted(n, p) == {k \in Upto(n) : PartitionOf(bytes[k]) = p}

CountInv ==
  pc \in {"partition", "done"} =>
    /\ \A p \in Partitions :
         /\ num_ready[p] = Cardinality(Counted(i, p))
         /\ num_ready[p] >= setup.size => \E k \in 1..Len(order) : order[k] = p
    /\ WholePartitions => ~outside
    /\ pc = "done" => i = Count

ControlInv ==
  /\ setup \in Setups
  /\ pc \in {"make", "stride", "shuffle", "partition", "done"}
  /\ i \in Nat /\ j \in 0 .. setup.gap /\ index \in 0..Count
  /\ outside \in BOOLEAN
  /\ bytes \in [Bytes -> Bytes]
  /\ pc = "make" => i = 0 /\ j = 0 /\ index = 0
  /\ IF pc \in {"partition", "done"} THEN i <= Count
     ELSE num_ready = Zeros(PartitionCount) /\ order = <<>> /\ outside = FALSE

IInv ==
  /\ ControlInv /\ StrideInv /\ ShuffleInv /\ ListInv /\ CountInv
  /\ BytesArePermutation
===============================================================================
