-------------------------- MODULE SendPatternsProofs --------------------------
(***************************************************************************)
(* What SendPatterns guarantees for every number of bytes, every stride,   *)
(* burst and partition size, and whatever rand() returns.                  *)
(***************************************************************************)
EXTENDS SendPatterns, FiniteSetTheorems, TLAPS

(* Arithmetic.                                                             *)

\* Quotient and remainder.
LEMMA DivMod ==
  ASSUME NEW n \in Nat, NEW g \in Nat \ {0}
  PROVE  /\ n \div g \in Nat
         /\ n % g \in 0 .. g - 1
         /\ n = g * (n \div g) + (n % g)
OBVIOUS

\* A multiple of the divisor stays below, the next one is a divisor further.
LEMMA DivBound ==
  ASSUME NEW n \in Nat, NEW g \in Nat \ {0}
  PROVE  g * (n \div g) <= n /\ (n % g = 0 => g * (n \div g) = n)
BY DivMod

LEMMA NextMultiple ==
  ASSUME NEW k \in Nat, NEW g \in Nat
  PROVE  g * (k + 1) = k * g + g /\ k * g \in Nat
OBVIOUS

\* They are unique.
LEMMA DivModUnique ==
  ASSUME NEW g \in Nat \ {0}, NEW a \in Int, NEW b \in Int,
         NEW x \in 0 .. g - 1, NEW y \in 0 .. g - 1,
         g * a + x = g * b + y
  PROVE  a = b /\ x = y
<1>1. ~(a < b)
  <2> SUFFICES ASSUME a < b PROVE FALSE
    OBVIOUS
  <2>1. g * b >= g * (a + 1) /\ g * (a + 1) = g * a + g
    OBVIOUS
  <2> QED
    BY <2>1
<1>2. ~(b < a)
  <2> SUFFICES ASSUME b < a PROVE FALSE
    OBVIOUS
  <2>1. g * a >= g * (b + 1) /\ g * (b + 1) = g * b + g
    OBVIOUS
  <2> QED
    BY <2>1
<1> QED
  BY <1>1, <1>2

\* One stride further the remainder is the same.
LEMMA ModPlus ==
  ASSUME NEW n \in Nat, NEW g \in Nat \ {0}
  PROVE  (n + g) % g = n % g
<1> DEFINE q == n \div g
           s == (n + g) \div g
           x == n % g
           y == (n + g) % g
<1>1. q \in Nat /\ x \in 0 .. g - 1 /\ n = g * q + x
  BY DivMod
<1>2. n + g \in Nat
  OBVIOUS
<1>3. s \in Nat /\ y \in 0 .. g - 1 /\ n + g = g * s + y
  BY <1>2, DivMod
<1> HIDE DEF q, s, x, y
<1>4. g * q + g = g * (q + 1)
  BY <1>1
<1>5. q + 1 \in Int /\ s \in Int /\ g * (q + 1) + x = g * s + y
  BY <1>1, <1>3, <1>4
<1>6. x = y
  BY <1>1, <1>3, <1>5, DivModUnique
<1> QED
  BY <1>6 DEF x, y

\* Two values of a row are a stride apart.
LEMMA SameRow ==
  ASSUME NEW a \in Nat, NEW b \in Nat, NEW g \in Nat \ {0},
         a % g = b % g, a <= b, b < a + g
  PROVE  a = b
<1> DEFINE q == a \div g
           s == b \div g
           x == a % g
<1>1. q \in Nat /\ x \in 0 .. g - 1 /\ a = g * q + x
  BY DivMod
<1>2. s \in Nat /\ b = g * s + x
  BY DivMod
<1> HIDE DEF q, s, x
<1>3. q = s
  <2>1. 0 <= g * s - g * q /\ g * s - g * q < g
    BY <1>1, <1>2
  <2>2. ~(s < q)
    <3> SUFFICES ASSUME s < q PROVE FALSE
      OBVIOUS
    <3>1. g * q >= g * (s + 1) /\ g * (s + 1) = g * s + g
      BY <1>1, <1>2
    <3> QED
      BY <3>1, <2>1, <1>1, <1>2
  <2>3. ~(q < s)
    <3> SUFFICES ASSUME q < s PROVE FALSE
      OBVIOUS
    <3>1. g * s >= g * (q + 1) /\ g * (q + 1) = g * q + g
      BY <1>1, <1>2
    <3> QED
      BY <3>1, <2>1, <1>1, <1>2
  <2> QED
    BY <2>2, <2>3, <1>1, <1>2
<1> QED
  BY <1>1, <1>2, <1>3

(* Counting.                                                               *)

LEMMA UptoFinite ==
  ASSUME NEW n \in Nat
  PROVE  IsFiniteSet(Upto(n)) /\ Cardinality(Upto(n)) = n
<1>1. IsFiniteSet(0 .. n - 1) /\ Cardinality(0 .. n - 1) = n
  BY FS_Interval
<1> QED
  BY <1>1 DEF Upto

\* One number more, and none beyond a bound.
LEMMA UptoNext ==
  ASSUME NEW n \in Nat
  PROVE  /\ Upto(n + 1) = Upto(n) \cup {n}
         /\ n \notin Upto(n)
         /\ \A m \in Nat : n <= m => Upto(n) \subseteq Upto(m)
BY DEF Upto

\* n different values need n places.
LEMMA Pigeonhole ==
  ASSUME NEW m \in Nat, NEW n \in Nat, NEW f \in [Upto(m) -> Upto(n)],
         \A k, l \in Upto(m) : f[k] = f[l] => k = l
  PROVE  m <= n
<1>1. f \in Injection(Upto(m), Upto(n))
  BY DEF Injection, IsInjective
<1> QED
  BY <1>1, UptoFinite, FS_Injection

\* n places that are all taken need n values.
LEMMA AllTaken ==
  ASSUME NEW m \in Nat, NEW n \in Nat, NEW f \in [Upto(m) -> Upto(n)],
         \A v \in Upto(n) : \E k \in Upto(m) : f[k] = v
  PROVE  n <= m
<1>1. f \in Surjection(Upto(m), Upto(n))
  BY DEF Surjection
<1> QED
  BY <1>1, UptoFinite, FS_Surjection

(* The setup never changes, and what is computed from it does not either.  *)

LEMMA SetupType ==
  ASSUME IInv
  PROVE  /\ setup.gap \in Nat \ {0} /\ setup.size \in Nat \ {0}
         /\ Count \in Nat /\ PartitionCount \in Nat /\ ShuffleCount \in Nat
         /\ setup.kind \in Kinds
<1>1. setup \in Setup
  BY SetupsAssumption DEF IInv, ControlInv
<1>2. /\ setup.gap \in Nat \ {0} /\ setup.size \in Nat \ {0}
      /\ Count \in Nat /\ setup.kind \in Kinds
  BY <1>1 DEF Setup, Count
<1>3. PartitionCount \in Nat /\ Count \div setup.gap \in Nat
  BY <1>2, DivMod DEF PartitionCount
<1> QED
  BY <1>2, <1>3 DEF ShuffleCount

LEMMA SetupStays ==
  ASSUME setup' = setup
  PROVE  /\ Count' = Count /\ Bytes' = Bytes
         /\ PartitionCount' = PartitionCount /\ Partitions' = Partitions
         /\ ShuffleCount' = ShuffleCount /\ Values' = Values
         /\ Shuffled' = Shuffled /\ WholeBursts' = WholeBursts
         /\ WholePartitions' = WholePartitions
<1>1. Count' = Count /\ Bytes' = Bytes /\ ShuffleCount' = ShuffleCount
  BY DEF Count, Bytes, ShuffleCount
<1>2. PartitionCount' = PartitionCount /\ Partitions' = Partitions
  BY <1>1 DEF PartitionCount, Partitions
<1>3. Values' = Values
  BY <1>1 DEF Values
<1> QED
  BY <1>1, <1>2, <1>3 DEF Shuffled, WholeBursts, WholePartitions

(* Shuffling.                                                              *)

\* The values of a shuffle are different, and numbers of bytes; an offset
\* leaves room for its burst.
LEMMA ValuesDiffer ==
  ASSUME IInv, setup.kind \in {"Random", "RandomBurst"}
  PROVE  /\ Values \in [Upto(ShuffleCount) -> Shuffled]
         /\ Shuffled \subseteq Bytes
         /\ \A k, l \in Upto(ShuffleCount) : Values[k] = Values[l] => k = l
<1>1. setup.gap \in Nat \ {0} /\ Count \in Nat /\ ShuffleCount \in Nat
  BY SetupType
<1>2. CASE setup.kind = "Random"
  <2>1. ShuffleCount = Count /\ Values = [k \in Upto(Count) |-> k]
    BY <1>2 DEF ShuffleCount, Values, Identity
  <2> QED
    BY <2>1 DEF Shuffled, Bytes
<1>3. CASE setup.kind = "RandomBurst"
  <2>1. /\ ShuffleCount = Count \div setup.gap
        /\ Values = [k \in Upto(ShuffleCount) |-> k * setup.gap]
    BY <1>3 DEF ShuffleCount, Values
  <2>2. setup.gap * ShuffleCount <= Count
    BY <1>1, <2>1, DivBound
  <2>3. \A k \in Upto(ShuffleCount) : k * setup.gap \in Upto(Count)
    <3> TAKE k \in Upto(ShuffleCount)
    <3>1. k \in Nat /\ k + 1 <= ShuffleCount
      BY <1>1 DEF Upto
    <3>2. setup.gap * (k + 1) <= setup.gap * ShuffleCount
      BY <1>1, <3>1
    <3>3. setup.gap * (k + 1) = k * setup.gap + setup.gap
          /\ k * setup.gap \in Nat
      BY <1>1, <3>1, NextMultiple
    <3> QED
      BY <1>1, <2>2, <3>2, <3>3 DEF Upto
  <2>4. ASSUME NEW k \in Upto(ShuffleCount), NEW l \in Upto(ShuffleCount),
               k * setup.gap = l * setup.gap
        PROVE  k = l
    <3>1. k \in Int /\ l \in Int
      BY <1>1 DEF Upto
    <3>2. setup.gap * k + 0 = setup.gap * l + 0 /\ 0 \in 0 .. setup.gap - 1
      BY <1>1, <2>4, <3>1
    <3> QED
      BY <1>1, <3>1, <3>2, DivModUnique
  <2> QED
    BY <2>1, <2>3, <2>4 DEF Shuffled, Bytes
<1> QED
  BY <1>2, <1>3

\* Whole bursts in any order are a permutation of the bytes.
LEMMA BurstsPermute ==
  ASSUME IInv, setup.kind = "RandomBurst",
         NEW offsets \in [Upto(ShuffleCount) -> Shuffled],
         \A k, l \in Upto(ShuffleCount) : offsets[k] = offsets[l] => k = l
  PROVE  /\ Bursts(offsets) \in [Bytes -> Bytes]
         /\ WholeBursts => IsPermutation(Bursts(offsets), Count)
<1> DEFINE g == setup.gap
           n == ShuffleCount
<1>1. g \in Nat \ {0} /\ Count \in Nat /\ n \in Nat
  BY SetupType
<1>2. /\ n = Count \div g
      /\ Shuffled = {k * g : k \in Upto(n)}
  BY DEF ShuffleCount, Shuffled, Values
<1>3. g * n <= Count /\ (WholeBursts => g * n = Count)
  BY <1>1, <1>2, DivBound DEF WholeBursts
<1>4. /\ Bytes = Upto(Count)
      /\ Bursts(offsets) =
           [k \in Bytes |-> IF k < g * n
                            THEN offsets[k \div g] + (k % g) ELSE 0]
  BY DEF Bytes, Bursts
<1> HIDE DEF g, n
<1>5. ASSUME NEW k \in Bytes, k < g * n
      PROVE  /\ k \div g \in Upto(n) /\ k % g \in 0 .. g - 1
             /\ k = g * (k \div g) + (k % g)
             /\ \E a \in Upto(n) : /\ offsets[k \div g] = a * g
                                   /\ a * g + (k % g) \in Bytes
  <2>1. k \in Nat
    BY <1>1, <1>4 DEF Upto
  <2>2. k \div g \in Nat /\ k % g \in 0 .. g - 1 /\ k = g * (k \div g) + (k % g)
    BY <1>1, <2>1, DivMod
  <2>3. k \div g < n
    <3> DEFINE q == k \div g
    <3>1. q \in Nat /\ g * q <= k
      BY <1>1, <2>2
    <3> HIDE DEF q
    <3>2. ~(n <= q)
      <4> SUFFICES ASSUME n <= q PROVE FALSE
        OBVIOUS
      <4>1. g * n <= g * q
        BY <1>1, <3>1
      <4> QED
        BY <4>1, <3>1, <1>1, <1>5, <2>1
    <3> QED
      BY <1>1, <3>1, <3>2 DEF q
  <2>4. k \div g \in Upto(n)
    BY <1>1, <2>2, <2>3 DEF Upto
  <2>5. PICK a \in Upto(n) : offsets[k \div g] = a * g
    BY <1>2, <2>4 DEF n
  <2>6. a * g + (k % g) \in Bytes
    <3> DEFINE x == k % g
    <3>1. a \in Nat /\ a + 1 <= n /\ x \in 0 .. g - 1
      BY <1>1, <2>2 DEF Upto
    <3> HIDE DEF x
    <3>2. g * (a + 1) <= g * n /\ g * (a + 1) = a * g + g /\ a * g \in Nat
      BY <1>1, <3>1
    <3>3. a * g + x \in Upto(Count)
      BY <1>1, <1>3, <3>1, <3>2 DEF Upto
    <3> QED
      BY <1>4, <3>3 DEF x
  <2> QED
    BY <2>2, <2>4, <2>5, <2>6
<1>6. Bursts(offsets) \in [Bytes -> Bytes]
  <2> SUFFICES ASSUME NEW k \in Bytes
               PROVE  (IF k < g * n THEN offsets[k \div g] + (k % g) ELSE 0)
                        \in Bytes
    BY <1>4
  <2>1. CASE k < g * n
    BY <1>5, <2>1
  <2>2. CASE ~(k < g * n)
    BY <1>1, <1>4, <2>2 DEF Upto
  <2> QED
    BY <2>1, <2>2
<1>7. ASSUME WholeBursts, NEW k \in Bytes, NEW l \in Bytes,
             Bursts(offsets)[k] = Bursts(offsets)[l]
      PROVE  k = l
  <2>1. k < g * n /\ l < g * n
    BY <1>1, <1>3, <1>4, <1>7 DEF Upto
  <2>2. PICK a \in Upto(n) : offsets[k \div g] = a * g
    BY <1>5, <2>1
  <2>3. PICK b \in Upto(n) : offsets[l \div g] = b * g
    BY <1>5, <2>1
  <2>4. a * g + (k % g) = b * g + (l % g)
    BY <1>4, <1>7, <2>1, <2>2, <2>3
  <2>5. k % g \in 0 .. g - 1 /\ l % g \in 0 .. g - 1
    BY <1>5, <2>1
  <2>6. a = b /\ k % g = l % g
    <3> DEFINE x == k % g
               y == l % g
    <3> HIDE DEF x, y
    <3>1. a \in Int /\ b \in Int /\ x \in 0 .. g - 1 /\ y \in 0 .. g - 1
      BY <1>1, <2>5 DEF Upto, x, y
    <3>2. g * a + x = g * b + y
      BY <1>1, <2>4, <3>1 DEF x, y
    <3> QED
      BY <1>1, <3>1, <3>2, DivModUnique DEF x, y
  <2>7. k \div g = l \div g
    BY <1>5, <2>1, <2>2, <2>3, <2>6 DEF n
  <2> QED
    BY <1>5, <2>1, <2>6, <2>7
<1> QED
  BY <1>4, <1>6, <1>7 DEF IsPermutation

(* The steps.                                                              *)

LEMMA InitIInv == Init => IInv
<1> SUFFICES ASSUME Init PROVE IInv
  OBVIOUS
<1>1. setup \in Setup
  BY SetupsAssumption DEF Init
<1>2. setup.gap \in Nat \ {0} /\ Count \in Nat
  BY <1>1 DEF Setup, Count
<1>3. PartitionCount \in Nat
  BY <1>1, <1>2, DivMod DEF PartitionCount, Setup
<1>4. bytes \in [Bytes -> Bytes]
  BY <1>2 DEF Init, Zeros, Bytes, Upto
<1>5. ControlInv
  <2>1. /\ pc = "make" /\ setup \in Setups /\ outside = FALSE
        /\ i = 0 /\ j = 0 /\ index = 0
        /\ num_ready = Zeros(PartitionCount) /\ order = <<>>
    BY DEF Init
  <2>2. 0 \in 0 .. setup.gap /\ 0 \in 0..Count
    BY <1>2
  <2> QED
    BY <1>4, <2>1, <2>2 DEF ControlInv
<1>6. ListInv
  BY <1>3 DEF ListInv, Init, Zeros, Partitions, Upto
<1> QED
  BY <1>5, <1>6
     DEF Init, IInv, StrideInv, ShuffleInv, CountInv, BytesArePermutation

\* A byte pattern is made, and it is what BytesArePermutation asks for.
LEMMA MadeIInv ==
  ASSUME IInv, pc \in {"make", "stride", "shuffle"}, Made(bytes'),
         bytes' \in [Bytes -> Bytes],
         WholeBursts => IsPermutation(bytes', Count)
  PROVE  IInv'
<1>1. /\ setup' = setup /\ pc' = "partition" /\ i' = 0 /\ j' = j
      /\ index' = index /\ num_ready' = num_ready /\ order' = order
      /\ outside' = outside
  BY DEF Made, parts
<1>2. /\ Count' = Count /\ Bytes' = Bytes /\ Partitions' = Partitions
      /\ PartitionCount' = PartitionCount /\ WholeBursts' = WholeBursts
  BY <1>1, SetupStays
<1>3. num_ready = Zeros(PartitionCount) /\ order = <<>> /\ outside = FALSE
  BY DEF IInv, ControlInv
<1>4. ControlInv'
  <2>1. 0 \in Nat /\ 0 <= Count
    BY SetupType
  <2>2. /\ setup \in Setups /\ j \in 0 .. setup.gap /\ index \in 0..Count
        /\ outside \in BOOLEAN
    BY DEF IInv, ControlInv
  <2> QED
    BY <1>1, <1>2, <2>1, <2>2 DEF ControlInv
<1>5. ListInv'
  BY <1>1, <1>2, <1>3, SetupType DEF ListInv, Zeros, Partitions, Upto
<1>6. BytesArePermutation'
  BY <1>2 DEF BytesArePermutation, IsPermutation
<1>7. CountInv'
  <2>1. \A q : Counted(i, q)' = {}
    BY <1>1 DEF Counted, Upto
  <2>2. \A q \in Partitions' : num_ready'[q] = Cardinality(Counted(i, q)')
    BY <1>1, <1>2, <1>3, <2>1, FS_EmptySet DEF Zeros, Partitions
  <2>3. \A q \in Partitions' : ~(num_ready'[q] >= setup'.size)
    BY <1>1, <1>2, <1>3, SetupType DEF Zeros, Partitions
  <2> QED
    BY <1>1, <1>3, <2>2, <2>3 DEF CountInv
<1> QED
  BY <1>1, <1>4, <1>5, <1>6, <1>7 DEF IInv, StrideInv, ShuffleInv

LEMMA LinearIInv == IInv /\ (MakeLinear \/ MakeLinearInverse) => IInv'
<1> SUFFICES ASSUME IInv, MakeLinear \/ MakeLinearInverse PROVE IInv'
  OBVIOUS
<1>1. Count \in Nat
  BY SetupType
<1>2. CASE MakeLinear
  <2>1. pc = "make" /\ bytes' = [k \in Upto(Count) |-> k] /\ Made(bytes')
    BY <1>2 DEF MakeLinear, Made, Identity
  <2>2. bytes' \in [Bytes -> Bytes] /\ IsPermutation(bytes', Count)
    BY <2>1 DEF Bytes, IsPermutation
  <2> QED
    BY <2>1, <2>2, MadeIInv
<1>3. CASE MakeLinearInverse
  <2>1. pc = "make" /\ bytes' = [k \in Bytes |-> Count - 1 - k] /\ Made(bytes')
    BY <1>3 DEF MakeLinearInverse, Made
  <2>2. bytes' \in [Bytes -> Bytes] /\ IsPermutation(bytes', Count)
    BY <1>1, <2>1 DEF Bytes, IsPermutation, Upto
  <2> QED
    BY <2>1, <2>2, MadeIInv
<1> QED
  BY <1>2, <1>3

\* A step before the partitions keeps what is not about its own loop.
LEMMA LoopIInv ==
  ASSUME IInv, setup' = setup, UNCHANGED <<bytes, parts>>,
         pc \in {"make", "stride", "shuffle"}, pc' \in {"stride", "shuffle"},
         i' \in Nat, j' \in 0 .. setup.gap, index' \in 0..Count,
         StrideInv', ShuffleInv'
  PROVE  IInv'
<1>1. /\ Count' = Count /\ Bytes' = Bytes /\ Partitions' = Partitions
      /\ PartitionCount' = PartitionCount
  BY SetupStays
<1>2. num_ready = Zeros(PartitionCount) /\ order = <<>> /\ outside = FALSE
  BY DEF IInv, ControlInv
<1>3. ControlInv'
  BY <1>1, <1>2 DEF IInv, ControlInv, parts
<1>4. ListInv'
  BY <1>1, <1>2, SetupType
     DEF parts, IInv, ListInv, Zeros, Partitions, Upto
<1> QED
  BY <1>3, <1>4 DEF IInv, CountInv, BytesArePermutation

LEMMA ShuffleIInv == IInv /\ (StartShuffle \/ ShuffleStep \/ EndShuffle) => IInv'
<1> SUFFICES ASSUME IInv, StartShuffle \/ ShuffleStep \/ EndShuffle
             PROVE  IInv'
  OBVIOUS
<1>1. Count \in Nat /\ ShuffleCount \in Nat
  BY SetupType
<1>2. i \in Nat /\ j \in 0 .. setup.gap /\ index \in 0..Count
  BY DEF IInv, ControlInv
<1>3. CASE StartShuffle
  <2>1. /\ setup' = setup /\ pc = "make" /\ pc' = "shuffle" /\ i' = i
        /\ j' = j /\ index' = index /\ output' = Values /\ remaining' = Values
        /\ UNCHANGED <<bytes, parts>>
        /\ setup.kind \in {"Random", "RandomBurst"}
    BY <1>3 DEF StartShuffle
  <2>2. i = 0
    BY <2>1 DEF IInv, ControlInv
  <2>3. ShuffleCount' = ShuffleCount /\ Shuffled' = Shuffled
    BY <2>1, SetupStays
  <2>4. ShuffleInv'
    BY <1>1, <2>1, <2>2, <2>3, ValuesDiffer
       DEF ShuffleInv, ShuffleKeepsValues, Left, Upto
  <2> QED
    BY <1>2, <2>1, <2>4, LoopIInv DEF StrideInv
<1>4. CASE ShuffleStep
  <2>1. /\ setup' = setup /\ pc = "shuffle" /\ pc' = "shuffle" /\ i' = i + 1
        /\ j' = j /\ index' = index /\ i < ShuffleCount
        /\ UNCHANGED <<bytes, parts>>
    BY <1>4 DEF ShuffleStep
  <2>2. PICK num \in Upto(Left) :
          /\ output' = [output EXCEPT ![i] = remaining[num]]
          /\ remaining' = [remaining EXCEPT ![num] = remaining[Left - 1]]
    BY <1>4 DEF ShuffleStep
  <2>3. ShuffleCount' = ShuffleCount /\ Shuffled' = Shuffled
    BY <2>1, SetupStays
  <2>4. /\ output \in [Upto(ShuffleCount) -> Shuffled]
        /\ remaining \in [Upto(ShuffleCount) -> Shuffled]
        /\ ShuffleKeepsValues /\ setup.kind \in {"Random", "RandomBurst"}
    BY <2>1 DEF IInv, ShuffleInv
  <2>5. /\ Left \in Nat /\ Left' = Left - 1
        /\ i \in Upto(ShuffleCount) /\ num \in Upto(ShuffleCount)
        /\ Left - 1 \in Upto(ShuffleCount)
    BY <1>1, <1>2, <2>1, <2>2, <2>3 DEF Left, Upto
  <2>6. /\ output' \in [Upto(ShuffleCount) -> Shuffled]
        /\ remaining' \in [Upto(ShuffleCount) -> Shuffled]
    BY <2>2, <2>4, <2>5
  <2>7. ShuffleKeepsValues'
    <3>1. /\ \A k, l \in Upto(i) : output[k] = output[l] => k = l
          /\ \A k, l \in Upto(Left) : remaining[k] = remaining[l] => k = l
          /\ \A k \in Upto(i), l \in Upto(Left) : output[k] # remaining[l]
      BY <2>1, <2>4 DEF ShuffleKeepsValues
    <3>2. /\ \A k \in Upto(i) : output'[k] = output[k]
          /\ output'[i] = remaining[num]
          /\ \A l \in Upto(Left - 1) :
               remaining'[l] = remaining[IF l = num THEN Left - 1 ELSE l]
      BY <1>1, <1>2, <2>1, <2>2, <2>4, <2>5 DEF Upto
    <3>3. /\ Upto(i + 1) = Upto(i) \cup {i}
          /\ \A l \in Upto(Left - 1) : l \in Upto(Left) /\ l # Left - 1
          /\ Left - 1 \in Upto(Left)
      BY <1>2, <2>2, <2>5 DEF Upto
    <3>4. \A k, l \in Upto(i + 1) : output'[k] = output'[l] => k = l
      BY <2>2, <3>1, <3>2, <3>3
    <3>5. \A k, l \in Upto(Left - 1) : remaining'[k] = remaining'[l] => k = l
      BY <2>2, <3>1, <3>2, <3>3
    <3>6. \A k \in Upto(i + 1), l \in Upto(Left - 1) : output'[k] # remaining'[l]
      BY <2>2, <3>1, <3>2, <3>3
    <3> QED
      BY <2>1, <2>5, <3>4, <3>5, <3>6 DEF ShuffleKeepsValues
  <2>8. ShuffleInv'
    BY <1>1, <1>2, <2>1, <2>3, <2>4, <2>6, <2>7 DEF ShuffleInv
  <2> QED
    BY <1>2, <2>1, <2>8, LoopIInv DEF StrideInv
<1>5. CASE EndShuffle
  <2>1. /\ pc = "shuffle" /\ i = ShuffleCount /\ Made(bytes')
        /\ bytes' = IF setup.kind = "Random" THEN output ELSE Bursts(output)
    BY <1>5 DEF EndShuffle, Made
  <2>2. /\ output \in [Upto(ShuffleCount) -> Shuffled]
        /\ \A k, l \in Upto(ShuffleCount) : output[k] = output[l] => k = l
        /\ setup.kind \in {"Random", "RandomBurst"}
    BY <2>1 DEF IInv, ShuffleInv, ShuffleKeepsValues
  <2>3. /\ bytes' \in [Bytes -> Bytes]
        /\ WholeBursts => IsPermutation(bytes', Count)
    <3>1. CASE setup.kind = "Random"
      BY <2>1, <2>2, <3>1, ValuesDiffer DEF ShuffleCount, Bytes, IsPermutation
    <3>2. CASE setup.kind = "RandomBurst"
      BY <2>1, <2>2, <3>2, BurstsPermute
    <3> QED
      BY <2>2, <3>1, <3>2
  <2> QED
    BY <2>1, <2>3, MadeIInv
<1> QED
  BY <1>3, <1>4, <1>5

\* What a stride writes next has not been written yet, and there is room.
LEMMA StrideRoom ==
  ASSUME IInv, pc = "stride", j < setup.gap, i < Count
  PROVE  /\ i \in Bytes /\ i % setup.gap = j
         /\ index \in Upto(Count)
         /\ \A k \in Upto(index) : output[k] # i
<1>1. setup.gap \in Nat \ {0} /\ Count \in Nat
  BY SetupType
<1>2. /\ i \in Nat /\ index \in 0..Count
      /\ output \in [Bytes -> Bytes] /\ i % setup.gap = j
      /\ \A k, l \in Upto(index) : output[k] = output[l] => k = l
      /\ \A k \in Upto(index) : Before(output[k])
  BY DEF IInv, ControlInv, StrideInv
<1>3. i \in Bytes
  BY <1>1, <1>2 DEF Bytes, Upto
<1>4. ~Before(i)
  BY <1>1, <1>2 DEF Before
<1>5. \A k \in Upto(index) : output[k] # i
  BY <1>2, <1>4
<1>6. index < Count
  <2> DEFINE f == [k \in Upto(index + 1) |-> IF k = index THEN i ELSE output[k]]
  <2>1. index + 1 \in Nat /\ Upto(index + 1) = Upto(index) \cup {index}
        /\ Upto(index) \subseteq Bytes /\ index \notin Upto(index)
    <3>1. index \in Nat /\ index + 1 \in Nat /\ index <= Count
      BY <1>1, <1>2
    <3> HIDE DEF f
    <3> QED
      BY <1>1, <3>1, UptoNext DEF Bytes
  <2>2. f \in [Upto(index + 1) -> Upto(Count)]
    BY <1>2, <1>3, <2>1 DEF Bytes
  <2>3. \A k, l \in Upto(index + 1) : f[k] = f[l] => k = l
    BY <1>2, <1>5, <2>1
  <2> HIDE DEF f
  <2>4. index + 1 <= Count
    BY <1>1, <2>1, <2>2, <2>3, Pigeonhole
  <2> QED
    BY <1>1, <1>2, <2>4
<1> QED
  BY <1>1, <1>2, <1>3, <1>5, <1>6 DEF Upto

\* When all rows are written the array is full, of different values.
LEMMA StrideFull ==
  ASSUME IInv, pc = "stride", j = setup.gap
  PROVE  index = Count /\ IsPermutation(output, Count)
<1>1. setup.gap \in Nat \ {0} /\ Count \in Nat
  BY SetupType
<1>2. /\ index \in 0..Count /\ output \in [Bytes -> Bytes]
      /\ \A k, l \in Upto(index) : output[k] = output[l] => k = l
      /\ \A v \in Bytes : Before(v) => \E k \in Upto(index) : output[k] = v
  BY DEF IInv, ControlInv, StrideInv
<1>3. \A v \in Bytes : Before(v)
  <2> TAKE v \in Bytes
  <2>1. v \in Nat
    BY <1>1 DEF Bytes, Upto
  <2>2. v % setup.gap \in 0 .. setup.gap - 1
    BY <1>1, <2>1, DivMod
  <2>3. v % setup.gap < setup.gap
    BY <1>1, <2>2
  <2> QED
    BY <2>3 DEF Before
<1>4. Count <= index
  <2> DEFINE f == [k \in Upto(index) |-> output[k]]
  <2>1. Upto(index) \subseteq Bytes /\ Bytes = Upto(Count)
    BY <1>1, <1>2 DEF Bytes, Upto
  <2>2. /\ f \in [Upto(index) -> Upto(Count)]
        /\ \A v \in Upto(Count) : \E k \in Upto(index) : f[k] = v
    BY <1>2, <1>3, <2>1
  <2> HIDE DEF f
  <2> QED
    BY <1>1, <1>2, <2>2, AllTaken
<1>5. index = Count
  BY <1>1, <1>2, <1>4
<1> QED
  BY <1>2, <1>5 DEF IsPermutation, Bytes

LEMMA StrideIInv ==
  IInv /\ (MakeStride \/ StrideRow \/ StrideStep \/ EndStride) => IInv'
<1> SUFFICES ASSUME IInv, MakeStride \/ StrideRow \/ StrideStep \/ EndStride
             PROVE  IInv'
  OBVIOUS
<1>1. setup.gap \in Nat \ {0} /\ Count \in Nat
  BY SetupType
<1>2. i \in Nat /\ j \in 0 .. setup.gap /\ index \in 0..Count
  BY DEF IInv, ControlInv
<1>3. \A v \in Bytes : v \in Nat /\ v % setup.gap \in Nat /\ v % setup.gap <= v
  <2> TAKE v \in Bytes
  <2>1. v \in Nat
    BY <1>1 DEF Bytes, Upto
  <2>2. /\ v \div setup.gap \in Nat /\ v % setup.gap \in 0 .. setup.gap - 1
        /\ v = setup.gap * (v \div setup.gap) + (v % setup.gap)
    BY <1>1, <2>1, DivMod
  <2>3. setup.gap * (v \div setup.gap) >= 0
    BY <1>1, <2>2
  <2> QED
    BY <1>1, <2>1, <2>2, <2>3
<1>4. CASE MakeStride
  <2>1. /\ setup' = setup /\ pc = "make" /\ pc' = "stride" /\ i' = i
        /\ j' = j /\ index' = index /\ output' = Zeros(Count)
        /\ UNCHANGED <<bytes, parts>>
    BY <1>4 DEF MakeStride
  <2>2. i = 0 /\ j = 0 /\ index = 0
    BY <2>1 DEF IInv, ControlInv
  <2>3. Bytes' = Bytes /\ setup'.gap = setup.gap
    BY <2>1, SetupStays
  <2>4. output' \in [Bytes -> Bytes]
    BY <1>1, <2>1 DEF Zeros, Bytes, Upto
  <2>5. 0 % setup.gap = 0
    BY <1>1
  <2>6. \A v \in Bytes : ~Before(v)'
    BY <1>3, <2>1, <2>2, <2>3 DEF Before
  <2>7. StrideInv'
    BY <2>1, <2>2, <2>3, <2>4, <2>5, <2>6 DEF StrideInv, Upto
  <2> QED
    BY <1>2, <2>1, <2>7, LoopIInv DEF ShuffleInv
<1>5. CASE StrideRow
  <2>1. /\ setup' = setup /\ pc = "stride" /\ pc' = "stride" /\ i' = j + 1
        /\ j' = j + 1 /\ index' = index /\ output' = output
        /\ j < setup.gap /\ i >= Count
        /\ UNCHANGED <<bytes, parts>>
    BY <1>5 DEF StrideRow
  <2>2. Bytes' = Bytes /\ setup'.gap = setup.gap
    BY <2>1, SetupStays
  <2>3. \A v \in Bytes : Before(v)' <=> Before(v)
    <3> TAKE v \in Bytes
    <3>1. v \in Nat /\ v % setup.gap \in Nat /\ v % setup.gap <= v /\ v < i
      BY <1>1, <1>2, <1>3, <2>1 DEF Bytes, Upto
    <3> QED
      BY <1>1, <1>2, <2>1, <2>2, <3>1 DEF Before
  <2>4. j + 1 < setup.gap => (j + 1) % setup.gap = j + 1
    BY <1>1, <1>2
  <2>5. /\ output \in [Bytes -> Bytes]
        /\ \A k, l \in Upto(index) : output[k] = output[l] => k = l
        /\ \A k \in Upto(index) : Before(output[k]) /\ output[k] \in Bytes
        /\ \A v \in Bytes : Before(v) => \E k \in Upto(index) : output[k] = v
    BY <1>1, <1>2, <2>1 DEF IInv, StrideInv, Bytes, Upto
  <2>6. \A k \in Upto(index) : Before(output[k])'
    BY <2>1, <2>3, <2>5
  <2>7. StrideInv'
    BY <1>2, <2>1, <2>2, <2>3, <2>4, <2>5, <2>6 DEF StrideInv
  <2>8. i' \in Nat /\ j' \in 0 .. setup.gap /\ index' \in 0..Count
    BY <1>1, <1>2, <2>1
  <2> QED
    BY <2>1, <2>7, <2>8, LoopIInv DEF ShuffleInv
<1>6. CASE StrideStep
  <2>1. /\ setup' = setup /\ pc = "stride" /\ pc' = "stride"
        /\ i' = i + setup.gap /\ j' = j /\ index' = index + 1
        /\ output' = [output EXCEPT ![index] = i]
        /\ j < setup.gap /\ i < Count
        /\ UNCHANGED <<bytes, parts>>
    BY <1>6 DEF StrideStep
  <2>2. Bytes' = Bytes /\ setup'.gap = setup.gap
    BY <2>1, SetupStays
  <2>3. /\ i \in Bytes /\ i % setup.gap = j /\ index \in Upto(Count)
        /\ \A k \in Upto(index) : output[k] # i
    BY <2>1, StrideRoom
  <2>4. /\ output \in [Bytes -> Bytes]
        /\ \A k, l \in Upto(index) : output[k] = output[l] => k = l
        /\ \A k \in Upto(index) : Before(output[k])
        /\ \A v \in Bytes : Before(v) => \E k \in Upto(index) : output[k] = v
    BY <2>1 DEF IInv, StrideInv
  <2>5. \A v \in Bytes : Before(v)' <=> Before(v) \/ v = i
    <3> TAKE v \in Bytes
    <3>1. v \in Nat /\ v % setup.gap \in Nat
      BY <1>3
    <3>2. v % setup.gap = j /\ v >= i /\ v < i + setup.gap => v = i
      BY <1>1, <1>2, <2>3, <3>1, SameRow
    <3> QED
      BY <1>1, <1>2, <2>1, <2>2, <2>3, <3>1, <3>2 DEF Before
  <2>6. /\ Upto(index + 1) = Upto(index) \cup {index}
        /\ index \notin Upto(index) /\ Upto(index) \subseteq Bytes
        /\ index \in Bytes
    BY <1>1, <1>2, <2>3 DEF Bytes, Upto
  <2>7. /\ output' \in [Bytes -> Bytes] /\ output'[index] = i
        /\ \A k \in Upto(index) : output'[k] = output[k]
    BY <2>1, <2>3, <2>4, <2>6
  <2>8. \A k, l \in Upto(index + 1) : output'[k] = output'[l] => k = l
    BY <2>3, <2>4, <2>6, <2>7
  <2>9. \A k \in Upto(index + 1) : Before(output[k])'
    <3> TAKE k \in Upto(index + 1)
    <3>1. CASE k = index
      BY <1>1, <1>2, <2>1, <2>2, <2>3, <2>7, <3>1 DEF Before
    <3>2. CASE k \in Upto(index)
      <4>1. output'[k] = output[k] /\ Before(output[k])
        BY <2>4, <2>7, <3>2
      <4>2. output[k] \in Nat
        BY <1>3, <2>4, <2>6, <3>2
      <4> QED
        BY <1>1, <1>2, <2>1, <2>2, <4>1, <4>2 DEF Before
    <3> QED
      BY <2>6, <3>1, <3>2
  <2>10. \A v \in Bytes : Before(v)' => \E k \in Upto(index + 1) : output'[k] = v
    BY <2>4, <2>5, <2>6, <2>7
  <2>11. (i + setup.gap) % setup.gap = j /\ i + setup.gap >= j
    <3>1. (i + setup.gap) % setup.gap = i % setup.gap
      BY <1>1, <1>2, ModPlus
    <3>2. i + setup.gap >= j
      BY <1>1, <1>2, <2>1
    <3> QED
      BY <2>3, <3>1, <3>2
  <2>12. StrideInv'
    BY <2>1, <2>2, <2>7, <2>8, <2>9, <2>10, <2>11 DEF StrideInv
  <2>13. i' \in Nat /\ j' \in 0 .. setup.gap /\ index' \in 0..Count
    BY <1>1, <1>2, <2>1, <2>3 DEF Upto
  <2> QED
    BY <2>1, <2>12, <2>13, LoopIInv DEF ShuffleInv
<1>7. CASE EndStride
  <2>1. pc = "stride" /\ j = setup.gap /\ bytes' = output /\ Made(bytes')
    BY <1>7 DEF EndStride, Made
  <2>2. output \in [Bytes -> Bytes]
    BY <2>1 DEF IInv, StrideInv
  <2> QED
    BY <2>1, <2>2, StrideFull, MadeIInv
<1> QED
  BY <1>4, <1>5, <1>6, <1>7

(* Partitions.                                                             *)

\* The next byte is one more of its partition, and of no other.
LEMMA OneMore ==
  ASSUME NEW n \in Nat, NEW q
  PROVE  /\ IsFiniteSet(Counted(n, q)) /\ Cardinality(Counted(n, q)) \in Nat
         /\ Cardinality(Counted(n + 1, q)) =
              IF PartitionOf(bytes[n]) = q THEN Cardinality(Counted(n, q)) + 1
              ELSE Cardinality(Counted(n, q))
<1>1. Upto(n + 1) = Upto(n) \cup {n} /\ n \notin Upto(n)
  BY UptoNext
<1>2. IsFiniteSet(Counted(n, q))
  <2>1. Counted(n, q) \subseteq Upto(n)
    BY DEF Counted
  <2> QED
    BY <2>1, UptoFinite, FS_Subset
<1>3. CASE PartitionOf(bytes[n]) = q
  <2>1. Counted(n + 1, q) = Counted(n, q) \cup {n} /\ n \notin Counted(n, q)
    BY <1>1, <1>3 DEF Counted
  <2> QED
    BY <1>2, <1>3, <2>1, FS_AddElement, FS_CardinalityType
<1>4. CASE PartitionOf(bytes[n]) # q
  <2>1. Counted(n + 1, q) = Counted(n, q)
    BY <1>1, <1>4 DEF Counted
  <2> QED
    BY <1>2, <1>4, <2>1, FS_CardinalityType
<1> QED
  BY <1>3, <1>4

\* Each byte belongs to a partition if the partitions are whole.
LEMMA NoneOutside ==
  ASSUME IInv, WholePartitions, NEW v \in Bytes
  PROVE  PartitionOf(v) \in Partitions
<1> DEFINE g == setup.size
           n == PartitionCount
           q == v \div g
<1>1. g \in Nat \ {0} /\ Count \in Nat /\ n \in Nat
  BY SetupType
<1>2. v \in Nat /\ v < Count
  BY <1>1 DEF Bytes, Upto
<1>3. q \in Nat /\ g * q <= v
  BY <1>1, <1>2, DivMod, DivBound
<1>4. g * n = Count
  BY <1>1, DivBound DEF PartitionCount, WholePartitions
<1> HIDE DEF g, n, q
<1>5. ~(n <= q)
  <2> SUFFICES ASSUME n <= q PROVE FALSE
    OBVIOUS
  <2>1. g * n <= g * q
    BY <1>1, <1>3
  <2> QED
    BY <1>1, <1>2, <1>3, <1>4, <2>1
<1>6. q \in 0 .. n - 1
  BY <1>1, <1>3, <1>5
<1> QED
  BY <1>6 DEF PartitionOf, Partitions, Upto, q, g, n

LEMMA PartitionIInv == IInv /\ (CountByte \/ CountOutside \/ Finish) => IInv'
<1> SUFFICES ASSUME IInv, CountByte \/ CountOutside \/ Finish
             PROVE  IInv'
  OBVIOUS
<1>1. setup.size \in Nat \ {0} /\ Count \in Nat /\ PartitionCount \in Nat
  BY SetupType
<1>2. /\ setup' = setup /\ pc = "partition" /\ pc' \in {"partition", "done"}
      /\ bytes' = bytes /\ j' = j /\ index' = index
  BY DEF CountByte, CountOutside, Finish, loops
<1>3. /\ Count' = Count /\ Bytes' = Bytes /\ Partitions' = Partitions
      /\ WholeBursts' = WholeBursts /\ setup'.size = setup.size
  BY <1>2, SetupStays
<1>4. /\ i \in Nat /\ i <= Count /\ bytes \in [Bytes -> Bytes]
      /\ num_ready \in [Partitions -> Nat] /\ order \in Seq(Nat)
      /\ \A p \in Partitions : num_ready[p] <= i
      /\ Partitions \subseteq Nat
  BY <1>1, <1>2 DEF IInv, ControlInv, ListInv, Partitions, Upto
<1>5. StrideInv' /\ ShuffleInv' /\ BytesArePermutation'
  BY <1>2, <1>3
     DEF IInv, StrideInv, ShuffleInv, BytesArePermutation, IsPermutation
<1>6. ASSUME i' \in Nat, i' <= Count, outside' \in BOOLEAN
      PROVE  ControlInv'
  BY <1>2, <1>3, <1>6 DEF IInv, ControlInv
<1>7. CASE CountByte
  <2> DEFINE p == PartitionOf(bytes[i])
  <2>1. /\ i < Count /\ i' = i + 1 /\ outside' = outside
        /\ p \in Partitions
        /\ num_ready' = [num_ready EXCEPT ![p] = @ + 1]
        /\ order' = IF num_ready'[p] = setup.size THEN Append(order, p)
                    ELSE order
    BY <1>7 DEF CountByte
  <2> HIDE DEF p
  <2>2. ControlInv'
    <3>1. i' \in Nat /\ i' <= Count
      BY <1>1, <1>4, <2>1
    <3>2. outside' \in BOOLEAN
      BY <2>1 DEF IInv, ControlInv
    <3> QED
      BY <1>6, <3>1, <3>2
  <2>3. /\ num_ready' \in [Partitions -> Nat] /\ order' \in Seq(Nat)
        /\ num_ready'[p] = num_ready[p] + 1
        /\ \A q \in Partitions : num_ready'[q] >= num_ready[q]
    BY <1>4, <2>1
  <2>4. \A q \in Partitions : num_ready'[q] <= i'
    BY <1>4, <2>1
  <2>5. ASSUME ~outside
        PROVE  /\ \A k \in 1..Len(order') :
                    /\ order'[k] \in Partitions
                    /\ num_ready'[order'[k]] >= setup.size
               /\ \A k, l \in 1..Len(order') : order'[k] = order'[l] => k = l
    <3>1. /\ \A k \in 1..Len(order) :
               order[k] \in Partitions /\ num_ready[order[k]] >= setup.size
          /\ \A k, l \in 1..Len(order) : order[k] = order[l] => k = l
      BY <2>5 DEF IInv, ListInv
    <3>2. \A k \in 1..Len(order) : num_ready'[order[k]] >= setup.size
      <4> TAKE k \in 1..Len(order)
      <4>1. /\ order[k] \in Partitions /\ num_ready[order[k]] >= setup.size
            /\ num_ready'[order[k]] >= num_ready[order[k]]
        BY <2>3, <3>1
      <4>2. num_ready[order[k]] \in Nat /\ num_ready'[order[k]] \in Nat
        BY <1>4, <2>3, <4>1
      <4> QED
        BY <1>1, <4>1, <4>2
    <3>3. CASE num_ready'[p] = setup.size
      <4>1. order' = Append(order, p) /\ Len(order') = Len(order) + 1
        BY <1>4, <2>1, <3>3
      <4>2. /\ \A k \in 1..Len(order) : order'[k] = order[k]
            /\ order'[Len(order) + 1] = p
            /\ 1..Len(order') = (1..Len(order)) \cup {Len(order) + 1}
        BY <1>4, <4>1
      <4>3. num_ready[p] < setup.size
        BY <1>1, <1>4, <2>1, <2>3, <3>3
      <4>4. \A k \in 1..Len(order) : order[k] # p
        <5> TAKE k \in 1..Len(order)
        <5> SUFFICES ASSUME order[k] = p PROVE FALSE
          OBVIOUS
        <5>1. num_ready[p] >= setup.size /\ num_ready[p] \in Nat
          BY <1>4, <2>1, <3>1
        <5> QED
          BY <1>1, <4>3, <5>1
      <4>5. num_ready'[p] >= setup.size
        BY <1>1, <3>3
      <4> QED
        BY <2>1, <3>1, <3>2, <4>2, <4>4, <4>5
    <3>4. CASE num_ready'[p] # setup.size
      BY <2>1, <3>1, <3>2, <3>4
    <3> QED
      BY <3>3, <3>4
  <2>6. ListInv'
    BY <1>3, <2>1, <2>3, <2>4, <2>5 DEF ListInv
  <2>7. CountInv'
    <3>1. \A q \in Partitions :
            /\ num_ready[q] = Cardinality(Counted(i, q))
            /\ num_ready[q] >= setup.size =>
                 \E k \in 1..Len(order) : order[k] = q
      BY <1>2 DEF IInv, CountInv
    <3>2. \A q \in Partitions : num_ready'[q] = Cardinality(Counted(i, q)')
      <4> TAKE q \in Partitions
      <4>1. Counted(i, q)' = Counted(i + 1, q)
        BY <1>2, <1>3, <2>1 DEF Counted, PartitionOf
      <4>2. num_ready'[q] = IF p = q THEN num_ready[q] + 1 ELSE num_ready[q]
        BY <1>4, <2>1
      <4>3. Cardinality(Counted(i + 1, q)) =
              IF p = q THEN Cardinality(Counted(i, q)) + 1
              ELSE Cardinality(Counted(i, q))
        BY <1>4, OneMore DEF p
      <4> QED
        BY <3>1, <4>1, <4>2, <4>3
    <3>3. \A k \in 1..Len(order) : k \in 1..Len(order') /\ order'[k] = order[k]
      BY <1>4, <2>1
    <3>4. ASSUME NEW q \in Partitions, num_ready'[q] >= setup.size
          PROVE  \E k \in 1..Len(order') : order'[k] = q
      <4>1. CASE num_ready[q] >= setup.size
        BY <3>1, <3>3, <4>1
      <4>2. CASE ~(num_ready[q] >= setup.size)
        <5>1. q = p /\ num_ready'[p] = setup.size
          BY <1>1, <1>4, <2>1, <2>3, <3>4, <4>2
        <5>2. order' = Append(order, p)
          BY <2>1, <5>1
        <5>3. Len(order) + 1 \in 1..Len(order') /\ order'[Len(order) + 1] = p
          BY <1>4, <5>2
        <5> QED
          BY <5>1, <5>3
      <4> QED
        BY <4>1, <4>2
    <3>5. WholePartitions' => ~outside'
      BY <1>2, <2>1, SetupStays DEF IInv, CountInv
    <3>6. pc' = "partition"
      BY <1>2, <1>7 DEF CountByte
    <3> QED
      BY <1>3, <3>2, <3>4, <3>5, <3>6 DEF CountInv
  <2> QED
    BY <1>5, <2>2, <2>6, <2>7 DEF IInv
<1>8. CASE CountOutside
  <2> DEFINE p == PartitionOf(bytes[i])
  <2>1. /\ i < Count /\ i' = i + 1 /\ outside' = TRUE
        /\ order' \in {order, Append(order, p)} /\ num_ready' = num_ready
    BY <1>8 DEF CountOutside
  <2>2. p \in Nat
    <3>1. bytes[i] \in Nat
      BY <1>1, <1>4, <2>1 DEF Bytes, Upto
    <3> QED
      BY <1>1, <3>1, DivMod DEF PartitionOf
  <2> HIDE DEF p
  <2>3. ControlInv'
    BY <1>1, <1>4, <1>6, <2>1
  <2>4. ListInv'
    <3>1. order' \in Seq(Nat)
      BY <1>4, <2>1, <2>2
    <3>2. \A q \in Partitions : num_ready[q] <= i + 1
      BY <1>4
    <3> QED
      BY <1>3, <1>4, <2>1, <3>1, <3>2 DEF ListInv
  <2>5. ~WholePartitions
    <3>1. bytes[i] \in Bytes
      BY <1>1, <1>4, <2>1 DEF Bytes, Upto
    <3>2. PartitionOf(bytes[i]) \notin Partitions
      BY <1>8 DEF CountOutside
    <3> QED
      BY <3>1, <3>2, NoneOutside
  <2>6. CountInv'
    <3>1. \A q \in Partitions :
            /\ num_ready[q] = Cardinality(Counted(i, q))
            /\ num_ready[q] >= setup.size =>
                 \E k \in 1..Len(order) : order[k] = q
      BY <1>2 DEF IInv, CountInv
    <3>2. \A q \in Partitions : num_ready'[q] = Cardinality(Counted(i, q)')
      <4> TAKE q \in Partitions
      <4>1. Counted(i, q)' = Counted(i + 1, q)
        BY <1>2, <1>3, <2>1 DEF Counted, PartitionOf
      <4>2. PartitionOf(bytes[i]) # q
        BY <1>8 DEF CountOutside
      <4>3. Cardinality(Counted(i + 1, q)) = Cardinality(Counted(i, q))
        BY <1>4, <4>2, OneMore
      <4> QED
        BY <2>1, <3>1, <4>1, <4>3
    <3>3. \A k \in 1..Len(order) : k \in 1..Len(order') /\ order'[k] = order[k]
      <4>1. CASE order' = order
        BY <4>1
      <4>2. CASE order' = Append(order, p)
        BY <1>4, <2>2, <4>2
      <4> QED
        BY <2>1, <4>1, <4>2
    <3>4. pc' = "partition" /\ ~WholePartitions'
      BY <1>2, <1>8, <2>5, SetupStays DEF CountOutside
    <3> QED
      BY <1>3, <2>1, <3>1, <3>2, <3>3, <3>4 DEF CountInv
  <2> QED
    BY <1>5, <2>3, <2>4, <2>6 DEF IInv
<1>9. CASE Finish
  <2>1. i' = i /\ num_ready' = num_ready /\ order' = order /\ outside' = outside
    BY <1>9 DEF Finish, loops, parts
  <2>2. ControlInv'
    BY <1>4, <1>6, <2>1 DEF IInv, ControlInv
  <2>3. ListInv'
    BY <1>3, <2>1 DEF IInv, ListInv
  <2>4. CountInv'
    <3>1. \A q : Counted(i, q)' = Counted(i, q)
      BY <1>2, <1>3, <2>1 DEF Counted, PartitionOf
    <3>2. WholePartitions' = WholePartitions /\ i = Count
      BY <1>2, <1>9, SetupStays DEF Finish
    <3> QED
      BY <1>2, <1>3, <2>1, <3>1, <3>2 DEF IInv, CountInv
  <2> QED
    BY <1>5, <2>2, <2>3, <2>4 DEF IInv
<1> QED
  BY <1>7, <1>8, <1>9

LEMMA StutterIInv == IInv /\ UNCHANGED vars => IInv'
<1> SUFFICES ASSUME IInv, UNCHANGED vars PROVE IInv'
  OBVIOUS
<1>1. /\ setup' = setup /\ pc' = pc /\ i' = i /\ j' = j /\ index' = index
      /\ output' = output /\ remaining' = remaining /\ bytes' = bytes
      /\ num_ready' = num_ready /\ order' = order /\ outside' = outside
  BY DEF vars, loops, parts
<1>2. /\ Count' = Count /\ Bytes' = Bytes /\ Partitions' = Partitions
      /\ PartitionCount' = PartitionCount /\ WholeBursts' = WholeBursts
      /\ ShuffleCount' = ShuffleCount /\ Shuffled' = Shuffled
      /\ WholePartitions' = WholePartitions
  BY <1>1, SetupStays
<1>3. ControlInv' /\ ListInv' /\ BytesArePermutation'
  BY <1>1, <1>2
     DEF IInv, ControlInv, ListInv, BytesArePermutation, IsPermutation
<1>4. StrideInv'
  BY <1>1, <1>2 DEF IInv, StrideInv, Before
<1>5. ShuffleInv'
  BY <1>1, <1>2 DEF IInv, ShuffleInv, ShuffleKeepsValues, Left
<1>6. CountInv'
  <2>1. \A q : Counted(i, q)' = Counted(i, q)
    BY <1>1 DEF Counted, PartitionOf
  <2> QED
    BY <1>1, <1>2, <2>1 DEF IInv, CountInv
<1> QED
  BY <1>3, <1>4, <1>5, <1>6 DEF IInv

(* The invariant (IInv of SendPatterns): each loop has written different   *)
(* values, those it has passed or taken, and a byte pattern that is made   *)
(* names each byte once.                                                   *)
THEOREM Invariance == Spec => []IInv
<1>1. IInv /\ [Next]_vars => IInv'
  BY LinearIInv, StrideIInv, ShuffleIInv, PartitionIInv, StutterIInv DEF Next
<1> QED
  BY InitIInv, <1>1, PTL DEF Spec

(* make_stride_pattern, make_random_pattern and make_random_burst_pattern  *)
(* (with bursts that divide the buffer) make permutations, for every       *)
(* buffer, stride and burst, and every sequence of random numbers.         *)
THEOREM PatternsArePermutations == Spec => []BytesArePermutation
<1>1. IInv => BytesArePermutation
  BY DEF IInv
<1> QED
  BY Invariance, <1>1, PTL

(* No value is lost or taken twice by shuffle.                             *)
THEOREM ShuffleTakesEachOnce == Spec => []ShuffleKeepsValues
<1>1. IInv => ShuffleKeepsValues
  BY DEF IInv, ShuffleInv, ShuffleKeepsValues
<1> QED
  BY Invariance, <1>1, PTL

(* make_stride_pattern stays inside of its array and fills all of it.      *)
THEOREM StrideFillsTheArray == Spec => []StrideFits
<1>1. IInv => StrideFits
  <2> SUFFICES ASSUME IInv, pc = "stride"
               PROVE  /\ j < setup.gap /\ i < Count => index < Count
                      /\ j = setup.gap => index = Count
    BY DEF StrideFits
  <2>1. ASSUME j < setup.gap, i < Count PROVE index < Count
    BY <2>1, SetupType, StrideRoom DEF Upto
  <2>2. ASSUME j = setup.gap PROVE index = Count
    BY <2>2, StrideFull
  <2> QED
    BY <2>1, <2>2
<1> QED
  BY Invariance, <1>1, PTL

\* A byte pattern that is a permutation has setup.size bytes of a partition.
LEMMA PartitionSize ==
  ASSUME IInv, pc \in {"partition", "done"}, WholeBursts, WholePartitions,
         NEW p \in Partitions
  PROVE  /\ IsFiniteSet(Counted(Count, p))
         /\ Cardinality(Counted(Count, p)) = setup.size
<1> DEFINE g == setup.size
           n == PartitionCount
           C == Counted(Count, p)
           place == [x \in Upto(g) |-> CHOOSE k \in Bytes : bytes[k] = g * p + x]
<1>1. g \in Nat \ {0} /\ Count \in Nat /\ n \in Nat
  BY SetupType
<1>3. g * n = Count
  BY <1>1, DivBound DEF PartitionCount, WholePartitions
<1>4. p \in Nat /\ p + 1 <= n
  BY <1>1 DEF Partitions, Upto
<1>5. bytes \in Surjection(Bytes, Bytes)
  <2>1. bytes \in Injection(Upto(Count), Upto(Count))
    BY DEF IInv, BytesArePermutation, IsPermutation, Injection, IsInjective
  <2> QED
    BY <1>1, <2>1, UptoFinite, FS_Injection DEF Bytes
<1>6. IsFiniteSet(C)
  BY <1>1, OneMore
<1> HIDE DEF g, n
<1>7. ASSUME NEW x \in Upto(g)
      PROVE  /\ g * p + x \in Bytes
             /\ \A k : bytes[k] = g * p + x => PartitionOf(bytes[k]) = p
  <2>1. x \in Nat /\ x \in 0 .. g - 1 /\ g * p \in Nat
    BY <1>1, <1>4 DEF Upto
  <2>2. g * (p + 1) <= g * n /\ g * (p + 1) = g * p + g
    BY <1>1, <1>4
  <2>3. g * p + x \in Bytes
    BY <1>1, <1>3, <2>1, <2>2 DEF Bytes, Upto
  <2>4. (g * p + x) \div g = p
    <3> DEFINE v == g * p + x
               q == v \div g
               y == v % g
    <3>1. v \in Nat
      BY <2>1
    <3> HIDE DEF v
    <3>2. q \in Nat /\ y \in 0 .. g - 1 /\ v = g * q + y
      BY <1>1, <3>1, DivMod
    <3> HIDE DEF q, y
    <3>3. g * q + y = g * p + x /\ q \in Int /\ p \in Int
      BY <1>4, <3>2 DEF v
    <3>4. q = p
      BY <1>1, <2>1, <3>2, <3>3, DivModUnique
    <3> QED
      BY <3>4 DEF q, v
  <2> QED
    BY <2>3, <2>4 DEF PartitionOf, g
<1>8. \A x \in Upto(g) : /\ place[x] \in Bytes
                         /\ bytes[place[x]] = g * p + x
  BY <1>5, <1>7 DEF Surjection
<1> HIDE DEF place
<1>9. place \in Injection(Upto(g), C)
  <2>1. \A x \in Upto(g) : place[x] \in C
    BY <1>7, <1>8 DEF Counted, Bytes
  <2>2. place \in [Upto(g) -> C]
    BY <2>1 DEF place
  <2>3. \A x, y \in Upto(g) : place[x] = place[y] => x = y
    <3> SUFFICES ASSUME NEW x \in Upto(g), NEW y \in Upto(g),
                        place[x] = place[y]
                 PROVE  x = y
      OBVIOUS
    <3>1. g * p + x = g * p + y /\ g * p \in Nat
      BY <1>1, <1>4, <1>8
    <3> QED
      BY <1>1, <3>1 DEF Upto
  <2> QED
    BY <2>2, <2>3 DEF Injection, IsInjective
<1>10. g <= Cardinality(C)
  BY <1>1, <1>6, <1>9, UptoFinite, FS_Injection
<1>11. Cardinality(C) <= g
  <2> DEFINE rest == [k \in C |-> bytes[k] % g]
  <2>1. ASSUME NEW k \in C
        PROVE  /\ k \in Bytes /\ bytes[k] \in Nat /\ bytes[k] % g \in Upto(g)
               /\ bytes[k] = g * p + (bytes[k] % g)
    <3>1. k \in Bytes /\ PartitionOf(bytes[k]) = p
      BY <2>1 DEF Counted, Bytes
    <3>2. bytes[k] \in Nat
      BY <1>1, <1>5, <3>1 DEF Surjection, Bytes, Upto
    <3>3. bytes[k] \div g = p
      BY <3>1 DEF PartitionOf, g
    <3>4. bytes[k] % g \in 0 .. g - 1 /\ bytes[k] = g * (bytes[k] \div g) + (bytes[k] % g)
      BY <1>1, <3>2, DivMod
    <3> QED
      BY <3>1, <3>2, <3>3, <3>4 DEF Upto
  <2>2. rest \in [C -> Upto(g)]
    BY <2>1
  <2>3. \A k, l \in C : rest[k] = rest[l] => k = l
    <3> SUFFICES ASSUME NEW k \in C, NEW l \in C, rest[k] = rest[l] PROVE k = l
      OBVIOUS
    <3>1. bytes[k] % g = bytes[l] % g
      OBVIOUS
    <3>2. bytes[k] = bytes[l]
      BY <2>1, <3>1
    <3> QED
      BY <2>1, <3>2 DEF IInv, BytesArePermutation, IsPermutation, Bytes
  <2> HIDE DEF rest
  <2>4. rest \in Injection(C, Upto(g))
    BY <2>2, <2>3 DEF Injection, IsInjective
  <2> QED
    BY <1>1, <2>4, UptoFinite, FS_Injection
<1> QED
  BY <1>1, <1>6, <1>10, <1>11, FS_CardinalityType DEF g

\* A partition is full when all of its bytes have been counted.
LEMMA FullIsPassed ==
  ASSUME IInv, pc \in {"partition", "done"}, WholeBursts, WholePartitions,
         NEW p \in Partitions
  PROVE  num_ready[p] >= setup.size <=> Passed(p)
<1>1. /\ i \in Nat /\ i <= Count /\ Count \in Nat /\ setup.size \in Nat
      /\ num_ready[p] = Cardinality(Counted(i, p))
  BY SetupType DEF IInv, ControlInv, CountInv
<1>2. Counted(i, p) \subseteq Counted(Count, p)
  BY <1>1 DEF Counted, Upto
<1>3. IsFiniteSet(Counted(Count, p)) /\ Cardinality(Counted(Count, p)) = setup.size
  BY PartitionSize
<1>4. /\ Cardinality(Counted(i, p)) \in Nat
      /\ Cardinality(Counted(i, p)) <= setup.size
      /\ Cardinality(Counted(i, p)) = setup.size => Counted(Count, p) = Counted(i, p)
  BY <1>2, <1>3, FS_Subset, FS_CardinalityType
<1>5. ASSUME num_ready[p] >= setup.size, NEW k \in Bytes,
             PartitionOf(bytes[k]) = p
      PROVE  k < i
  <2>1. Counted(Count, p) = Counted(i, p)
    BY <1>1, <1>4, <1>5
  <2>2. k \in Counted(Count, p)
    BY <1>5 DEF Counted, Bytes
  <2> QED
    BY <1>1, <2>1, <2>2 DEF Counted, Upto
<1>6. ASSUME Passed(p) PROVE num_ready[p] >= setup.size
  <2>1. Counted(Count, p) \subseteq Counted(i, p)
    BY <1>1, <1>6 DEF Passed, Counted, Bytes, Upto
  <2>2. Counted(Count, p) = Counted(i, p)
    BY <1>2, <2>1
  <2> QED
    BY <1>1, <1>3, <2>2
<1> QED
  BY <1>5, <1>6 DEF Passed

\* When all bytes of a permutation are counted, every partition is full.
LEMMA AllFull ==
  ASSUME IInv, pc = "done", WholeBursts, WholePartitions, NEW p \in Partitions
  PROVE  num_ready[p] >= setup.size
<1>1. i = Count /\ Count \in Nat
  BY SetupType DEF IInv, CountInv
<1>2. Passed(p)
  BY <1>1 DEF Passed, Bytes, Upto
<1> QED
  BY <1>2, FullIsPassed

\* The partitions that are listed are those whose bytes have been counted.
LEMMA ListedArePassed ==
  ASSUME IInv, pc \in {"partition", "done"}, WholeBursts, WholePartitions
  PROVE  /\ ~outside
         /\ {order[k] : k \in 1..Len(order)} = {p \in Partitions : Passed(p)}
<1>1. ~outside
  BY DEF IInv, CountInv
<1>2. \A k \in 1..Len(order) :
        order[k] \in Partitions /\ num_ready[order[k]] >= setup.size
  BY <1>1 DEF IInv, ListInv
<1>3. \A p \in Partitions : Passed(p) => \E k \in 1..Len(order) : order[k] = p
  BY FullIsPassed DEF IInv, CountInv
<1> QED
  BY <1>1, <1>2, <1>3, FullIsPassed

\* The order of what is listed.
Ordered ==
  pc = "partition" /\ WholeBursts /\ WholePartitions =>
    \A k, l \in 1..Len(order) : k < l =>
      \E m \in Upto(i) :
        /\ PartitionOf(bytes[m]) = order[l]
        /\ \A n \in m .. Count - 1 : PartitionOf(bytes[n]) # order[k]

\* A partition is listed with its last byte, behind the last byte of those
\* that have been listed before.
LEMMA OrderStep == IInv /\ Ordered /\ [Next]_vars => Ordered'
<1> SUFFICES ASSUME IInv, Ordered, [Next]_vars PROVE Ordered'
  OBVIOUS
<1>1. setup' = setup
  BY DEF Next, MakeLinear, MakeLinearInverse, MakeStride, StrideRow, StrideStep,
         EndStride, StartShuffle, ShuffleStep, EndShuffle, Made, CountByte,
         CountOutside, Finish, vars
<1> SUFFICES ASSUME pc' = "partition", WholeBursts, WholePartitions,
                    NEW k \in 1..Len(order'), NEW l \in 1..Len(order'), k < l
             PROVE  \E m \in Upto(i') :
                      /\ PartitionOf(bytes'[m]) = order'[l]
                      /\ \A n \in m .. Count - 1 :
                           PartitionOf(bytes'[n]) # order'[k]
  <2>1. /\ WholeBursts' = WholeBursts /\ WholePartitions' = WholePartitions
        /\ Count' = Count
    BY <1>1, SetupStays
  <2>2. \A v : PartitionOf(v)' = PartitionOf(v)
    BY <1>1 DEF PartitionOf
  <2> QED
    BY <1>1, <2>1, <2>2 DEF Ordered, PartitionOf
<1>2. /\ Count \in Nat /\ i \in Nat /\ order \in Seq(Nat) /\ Len(order) \in Nat
  <2>1. i \in Nat /\ order \in Seq(Nat)
    BY DEF IInv, ControlInv, ListInv
  <2> QED
    BY <2>1, SetupType
<1>3. CASE pc # "partition"
  <2>1. order' = order /\ order = <<>>
    BY <1>3 DEF Next, MakeLinear, MakeLinearInverse, MakeStride, StrideRow,
       StrideStep, EndStride, StartShuffle, ShuffleStep, EndShuffle, Made,
       CountByte, CountOutside, Finish, vars, parts, IInv, ControlInv
  <2> QED
    BY <2>1
<1>4. CASE pc = "partition" /\ UNCHANGED <<order, bytes, i>>
  BY <1>2, <1>4 DEF Ordered
<1>5. CASE pc = "partition" /\ CountByte
  <2> DEFINE p == PartitionOf(bytes[i])
  <2>1. /\ i < Count /\ i' = i + 1 /\ bytes' = bytes /\ p \in Partitions
        /\ order' = order \/ order' = Append(order, p)
    BY <1>5 DEF CountByte
  <2>2. CASE k \in 1..Len(order) /\ l \in 1..Len(order) /\
             order'[k] = order[k] /\ order'[l] = order[l]
    <3>1. PICK m \in Upto(i) :
            /\ PartitionOf(bytes[m]) = order[l]
            /\ \A n \in m .. Count - 1 : PartitionOf(bytes[n]) # order[k]
      BY <1>2, <1>5, <2>2 DEF Ordered
    <3>2. m \in Upto(i')
      BY <1>2, <2>1 DEF Upto
    <3> QED
      BY <1>2, <2>1, <2>2, <3>1, <3>2
  <2>3. CASE order' = Append(order, p) /\ l = Len(order) + 1
    <3>1. /\ k \in 1..Len(order) /\ order'[k] = order[k] /\ order'[l] = p
          /\ order[k] \in {order[x] : x \in 1..Len(order)}
      BY <1>2, <2>1, <2>3
    <3>2. order[k] \in Partitions /\ Passed(order[k])
      BY <1>2, <1>5, <3>1, ListedArePassed
    <3>3. ASSUME NEW n \in i .. Count - 1 PROVE PartitionOf(bytes[n]) # order[k]
      BY <1>2, <3>2 DEF Passed, Bytes, Upto
    <3>4. i \in Upto(i')
      BY <1>2, <2>1 DEF Upto
    <3> QED
      BY <1>2, <2>1, <3>1, <3>3, <3>4
  <2>4. \/ k \in 1..Len(order) /\ l \in 1..Len(order) /\
             order'[k] = order[k] /\ order'[l] = order[l]
        \/ order' = Append(order, p) /\ l = Len(order) + 1
    <3>1. CASE order' = order
      BY <3>1
    <3>2. CASE order' = Append(order, p)
      <4> HIDE DEF p
      <4>1. p \in Nat
        BY <2>1, SetupType DEF Partitions, Upto
      <4> QED
        BY <1>2, <3>2, <4>1, SMTT(20)
    <3> QED
      BY <2>1, <3>1, <3>2
  <2> QED
    BY <2>2, <2>3, <2>4
<1>6. CASE pc = "partition" /\ CountOutside
  <2>1. bytes[i] \in Bytes
    BY <1>2, <1>6 DEF CountOutside, IInv, ControlInv, Bytes, Upto
  <2>2. PartitionOf(bytes[i]) \in Partitions
    BY <1>2, <2>1, NoneOutside
  <2> QED
    BY <1>6, <2>2 DEF CountOutside
<1>7. pc = "partition" =>
        CountByte \/ CountOutside \/ UNCHANGED <<order, bytes, i>>
  BY DEF Next, MakeLinear, MakeLinearInverse, MakeStride, StrideRow,
     StrideStep, EndStride, StartShuffle, ShuffleStep, EndShuffle, Finish, vars,
     loops, parts
<1> QED
  BY <1>3, <1>4, <1>5, <1>6, <1>7

(* A partition pattern is the order in which the partitions get complete   *)
(* (send_patterns.c:96), whatever order the bytes are written in.          *)
THEOREM PatternIsOrderOfCompletion == Spec => []CompletionOrder
<1>1. Init => Ordered
  BY DEF Init, Ordered
<1>2. IInv /\ Ordered => CompletionOrder
  BY ListedArePassed DEF Ordered, CompletionOrder
<1> QED
  BY <1>1, <1>2, OrderStep, Invariance, PTL DEF Spec

(* make_partition_send_pattern turns every byte pattern of this file into  *)
(* an order of the partitions that names each of them once, if bursts and  *)
(* partitions leave no byte over: what Partitioned (PatternAssumption) and *)
(* Messages (TestsAssumption) assume of the pattern they are given.        *)
THEOREM PartitionPatternIsPermutation == Spec => []PatternIsPermutation
<1>1. IInv => PatternIsPermutation
  <2> SUFFICES ASSUME IInv, pc = "done", WholeBursts, WholePartitions
               PROVE  IsPermutation(Pattern, PartitionCount)
    BY DEF PatternIsPermutation
  <2> DEFINE n == PartitionCount
             m == Len(order)
             f == [k \in Upto(m) |-> order[k + 1]]
  <2>1. n \in Nat /\ m \in Nat /\ ~outside /\ Partitions = Upto(n)
    BY SetupType DEF IInv, ListInv, CountInv, Partitions
  <2>2. /\ \A k \in 1..m : order[k] \in Upto(n)
        /\ \A k, l \in 1..m : order[k] = order[l] => k = l
    BY <2>1 DEF IInv, ListInv
  <2>3. \A v \in Upto(n) : \E k \in 1..m : order[k] = v
    BY <2>1, AllFull DEF IInv, CountInv
  <2> HIDE DEF n, m
  <2>4. \A k \in Upto(m) : k + 1 \in 1..m
    BY <2>1 DEF Upto
  <2>5. /\ f \in [Upto(m) -> Upto(n)]
        /\ \A k, l \in Upto(m) : f[k] = f[l] => k = l
    <3>1. f \in [Upto(m) -> Upto(n)]
      BY <2>2, <2>4
    <3>2. ASSUME NEW k \in Upto(m), NEW l \in Upto(m), f[k] = f[l]
          PROVE  k = l
      <4>1. k + 1 = l + 1 /\ k \in Int /\ l \in Int
        BY <2>1, <2>2, <2>4, <3>2 DEF Upto
      <4> QED
        BY <4>1
    <3> QED
      BY <3>1, <3>2
  <2>6. \A v \in Upto(n) : \E k \in Upto(m) : f[k] = v
    <3> TAKE v \in Upto(n)
    <3>1. PICK k \in 1..m : order[k] = v
      BY <2>3
    <3>2. k - 1 \in Upto(m) /\ (k - 1) + 1 = k
      BY <2>1, <3>1 DEF Upto
    <3> QED
      BY <3>1, <3>2
  <2>7. m = n
    <3> HIDE DEF f
    <3>1. m <= n /\ n <= m
      BY <2>1, <2>5, <2>6, Pigeonhole, AllTaken
    <3> QED
      BY <2>1, <3>1
  <2>8. Pattern = f
    BY <2>1, <2>7 DEF Pattern, Upto, n, m
  <2> QED
    BY <2>5, <2>7, <2>8 DEF IsPermutation, n
<1> QED
  BY Invariance, <1>1, PTL

(* Every variable keeps its type; in particular the shuffle and the bursts *)
(* produce nothing but numbers of bytes, and no counter exceeds the count. *)
THEOREM TypeCorrect == Spec => []TypeOK
<1>1. IInv => TypeOK
  <2> SUFFICES ASSUME IInv PROVE TypeOK
    OBVIOUS
  <2>1. Count \in Nat /\ PartitionCount \in Nat
    BY SetupType
  <2>2. num_ready \in [Partitions -> 0 .. Count]
    <3>1. CASE pc \in {"partition", "done"}
      <4>1. \A p \in Partitions : num_ready[p] \in 0..Count
        BY <2>1, <3>1 DEF IInv, ControlInv, ListInv
      <4> QED
        BY <4>1 DEF IInv, ListInv
    <3>2. CASE pc \notin {"partition", "done"}
      BY <2>1, <3>2 DEF IInv, ControlInv, Zeros, Partitions, Upto
    <3> QED
      BY <3>1, <3>2
  <2>3. ASSUME pc = "shuffle"
        PROVE  /\ output \in [Upto(ShuffleCount) -> Bytes]
               /\ remaining \in [Upto(ShuffleCount) -> Bytes]
    <3>1. Shuffled \subseteq Bytes
      BY <2>3, ValuesDiffer DEF IInv, ShuffleInv
    <3> QED
      BY <2>3, <3>1 DEF IInv, ShuffleInv
  <2> QED
    BY <2>2, <2>3 DEF IInv, ControlInv, StrideInv, ListInv, TypeOK
<1> QED
  BY Invariance, <1>1, PTL
===============================================================================
