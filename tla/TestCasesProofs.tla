---------------------------- MODULE TestCasesProofs ----------------------------
(***************************************************************************)
(* What Options and TestCases guarantee for every set of command lines and *)
(* every width of an int.  The order follows the program: what halving a   *)
(* number does, the parser, the loops of make_setup and test_cases_init.   *)
(*                                                                         *)
(* Facts about repeated halving need induction over its rounds.  Here it   *)
(* is an argument about the least counterexample: the natural numbers are  *)
(* well-founded, so a set of them that is not empty has a least element    *)
(* (Least), and the round before it is none (NoLeast).                     *)
(***************************************************************************)
EXTENDS TestCases, FiniteSetTheorems, SequenceTheorems, WellFoundedInduction, TLAPS

LEMMA Least ==
  ASSUME NEW S, S \subseteq Nat, S # {}
  PROVE  \E n \in S : \A m \in S : n <= m
<1>1. \E R : IsWellFoundedOn(R, Nat) /\ \A x, y \in Nat : <<y, x>> \in R <=> y < x
  <2>1. IsWellFoundedOn(OpToRel(<, Nat), Nat)
    BY NatLessThanWellFounded
  <2>2. \A x, y \in Nat : <<y, x>> \in OpToRel(<, Nat) <=> y < x
    BY DEF OpToRel
  <2> QED
    BY <2>1, <2>2, Zenon
<1>2. PICK R : IsWellFoundedOn(R, Nat) /\ \A x, y \in Nat : <<y, x>> \in R <=> y < x
  BY <1>1
<1>3. PICK x \in S : \A y \in S : ~(<<y, x>> \in R)
  BY <1>2, WFMin
<1>4. ASSUME NEW y \in S PROVE x <= y
  <2>1. ~(y < x)
    BY <1>2, <1>3
  <2> QED
    BY <2>1
<1> QED
  BY <1>4

\* Induction: a set of numbers that has 0 and all successors.
LEMMA NoLeast ==
  ASSUME NEW S, 0 \in S, \A n \in Nat : n \in S => n + 1 \in S
  PROVE  Nat \subseteq S
<1> SUFFICES ASSUME Nat \ S # {} PROVE FALSE
  OBVIOUS
<1>1. PICK n \in Nat \ S : \A m \in Nat \ S : n <= m
  BY Least
<1>2. n # 0 /\ n - 1 \in Nat /\ n - 1 \notin Nat \ S
  BY <1>1
<1> QED
  BY <1>1, <1>2

-------------------------------------------------------------------------------
(* Halves is what its recursive definition says: for each k there is one   *)
(* function on 0..k that follows the loop, and together they are Halves.   *)

Follows(g, n, k) ==
  /\ g \in [0..k -> Int]
  /\ g[0] = n
  /\ \A m \in 1..k : g[m] = Half(g[m - 1])

LEMMA HalfType == \A n \in Int : Half(n) \in Int
BY DEF Half

LEMMA FollowsExists ==
  ASSUME NEW n \in Int
  PROVE  \A k \in Nat : \E g : Follows(g, n, k)
<1> DEFINE S == {k \in Nat : \E g : Follows(g, n, k)}
<1>1. 0 \in S
  <2>1. Follows([m \in 0..0 |-> n], n, 0)
    BY DEF Follows
  <2> QED
    BY <2>1
<1>2. ASSUME NEW k \in Nat, k \in S PROVE k + 1 \in S
  <2>1. PICK g : Follows(g, n, k)
    BY <1>2
  <2> DEFINE h == [m \in 0 .. k + 1 |-> IF m = k + 1 THEN Half(g[k]) ELSE g[m]]
  <2>2. h \in [0 .. k + 1 -> Int]
    BY <2>1, HalfType DEF Follows
  <2>3. h[0] = n
    BY <2>1 DEF Follows
  <2>4. ASSUME NEW m \in 1 .. k + 1 PROVE h[m] = Half(h[m - 1])
    BY <2>1 DEF Follows
  <2> HIDE DEF h
  <2>5. Follows(h, n, k + 1)
    BY <2>2, <2>3, <2>4 DEF Follows
  <2> QED
    BY <2>5
<1> HIDE DEF S
<1>3. Nat \subseteq S
  BY <1>1, <1>2, NoLeast
<1> QED
  BY <1>3 DEF S

LEMMA FollowsUnique ==
  ASSUME NEW n \in Int, NEW k \in Nat, NEW l \in Nat, NEW g, NEW h,
         Follows(g, n, k), Follows(h, n, l)
  PROVE  \A m \in Nat : m <= k /\ m <= l => g[m] = h[m]
<1> DEFINE S == {m \in Nat : m <= k /\ m <= l => g[m] = h[m]}
<1>1. 0 \in S
  BY DEF Follows
<1>2. ASSUME NEW m \in Nat, m \in S PROVE m + 1 \in S
  BY <1>2 DEF Follows
<1> HIDE DEF S
<1>3. Nat \subseteq S
  BY <1>1, <1>2, NoLeast
<1> QED
  BY <1>3 DEF S

LEMMA HalvesDef ==
  ASSUME NEW n \in Int
  PROVE  /\ Halves(n) \in [Nat -> Int]
         /\ Halves(n)[0] = n
         /\ \A k \in Nat : Halves(n)[k + 1] = Half(Halves(n)[k])
<1> DEFINE G(k) == CHOOSE g : Follows(g, n, k)
           f == [k \in Nat |-> G(k)[k]]
           Body(h) == [k \in Nat |-> IF k = 0 THEN n ELSE Half(h[k - 1])]
<1>1. \A k \in Nat : Follows(G(k), n, k)
  BY FollowsExists
<1> HIDE DEF G
<1>2. f[0] = n /\ \A k \in Nat : f[k] \in Int
  BY <1>1 DEF Follows
<1>3. ASSUME NEW k \in Nat PROVE f[k + 1] = Half(f[k])
  <2>1. Follows(G(k), n, k) /\ Follows(G(k + 1), n, k + 1)
    BY <1>1
  <2>2. G(k)[k] = G(k + 1)[k]
    BY <2>1, FollowsUnique
  <2>3. G(k + 1)[k + 1] = Half(G(k + 1)[k])
    BY <2>1 DEF Follows
  <2> QED
    BY <2>2, <2>3
<1>4. f = Body(f)
  <2>1. ASSUME NEW k \in Nat PROVE f[k] = IF k = 0 THEN n ELSE Half(f[k - 1])
    <3>1. CASE k = 0
      BY <1>2, <3>1
    <3>2. CASE k # 0
      <4>1. k - 1 \in Nat /\ (k - 1) + 1 = k
        BY <3>2
      <4> QED
        BY <1>3, <3>2, <4>1
    <3> QED
      BY <3>1, <3>2
  <2> QED
    BY <2>1
<1> HIDE DEF f
<1>5. Halves(n) = CHOOSE h : h = Body(h)
  BY DEF Halves
<1>6. Halves(n) = Body(Halves(n))
  BY <1>4, <1>5
<1>7. \A k \in Nat : Halves(n)[k] = IF k = 0 THEN n ELSE Half(Halves(n)[k - 1])
  BY <1>6
<1> HIDE DEF Body
<1>8. Halves(n)[0] = n
  BY <1>7
<1>9. ASSUME NEW k \in Nat PROVE Halves(n)[k + 1] = Half(Halves(n)[k])
  <2>1. k + 1 \in Nat /\ k + 1 # 0 /\ (k + 1) - 1 = k
    OBVIOUS
  <2> QED
    BY <1>7, <2>1
<1>10. \A k \in Nat : Halves(n)[k] \in Int
  <2> DEFINE S == {k \in Nat : Halves(n)[k] \in Int}
  <2>1. 0 \in S
    BY <1>8
  <2>2. \A k \in Nat : k \in S => k + 1 \in S
    BY <1>9, HalfType
  <2> HIDE DEF S
  <2>3. Nat \subseteq S
    BY <2>1, <2>2, NoLeast
  <2> QED
    BY <2>3 DEF S
<1>11. DOMAIN Halves(n) = Nat /\ Halves(n) = [k \in Nat |-> Halves(n)[k]]
  BY <1>6 DEF Body
<1> QED
  BY <1>8, <1>9, <1>10, <1>11

-------------------------------------------------------------------------------
(* A loop that halves a number goes down until it is 0.                    *)

LEMMA HalfDown ==
  \A n \in Nat : Half(n) \in Nat /\ Half(n) <= n /\ (n > 0 => Half(n) < n)
BY DEF Half

\* The part of HalvesDef that the proofs below need.
LEMMA HalvesNext ==
  ASSUME NEW n \in Nat
  PROVE  /\ Halves(n)[0] = n
         /\ \A k \in Nat : Halves(n)[k + 1] = Half(Halves(n)[k])
<1>1. n \in Int
  OBVIOUS
<1> QED
  BY <1>1, HalvesDef

LEMMA HalvesDown ==
  ASSUME NEW n \in Nat
  PROVE  \A k \in Nat :
           /\ Halves(n)[k] \in Nat
           /\ Halves(n)[k] > 0 => Halves(n)[k] + k <= n
<1> DEFINE S == {k \in Nat : /\ Halves(n)[k] \in Nat
                             /\ Halves(n)[k] > 0 => Halves(n)[k] + k <= n}
<1>1. 0 \in S
  BY HalvesNext
<1>2. ASSUME NEW k \in Nat, k \in S PROVE k + 1 \in S
  <2>1. Halves(n)[k + 1] = Half(Halves(n)[k]) /\ Halves(n)[k] \in Nat
    BY <1>2, HalvesNext
  <2>2. Halves(n)[k] = 0 => Half(Halves(n)[k]) = 0
    BY <2>1 DEF Half
  <2> QED
    BY <1>2, <2>1, <2>2, HalfDown
<1> HIDE DEF S
<1>3. Nat \subseteq S
  BY <1>1, <1>2, NoLeast
<1> QED
  BY <1>3 DEF S

LEMMA HalvesMonotone ==
  ASSUME NEW n \in Nat, NEW k \in Nat, NEW l \in Nat, k <= l
  PROVE  Halves(n)[l] <= Halves(n)[k]
<1> DEFINE S == {d \in Nat : Halves(n)[k + d] <= Halves(n)[k]}
<1>1. 0 \in S
  BY HalvesDown
<1>2. ASSUME NEW d \in Nat, d \in S PROVE d + 1 \in S
  <2>1. k + d \in Nat /\ k + (d + 1) = (k + d) + 1
    OBVIOUS
  <2>2. /\ Halves(n)[k] \in Nat /\ Halves(n)[k + d] \in Nat
        /\ Halves(n)[(k + d) + 1] = Half(Halves(n)[k + d])
    BY <2>1, HalvesDown, HalvesNext
  <2>3. Halves(n)[(k + d) + 1] <= Halves(n)[k + d] /\ Halves(n)[(k + d) + 1] \in Nat
    BY <2>2, HalfDown
  <2> QED
    BY <1>2, <2>1, <2>2, <2>3
<1> HIDE DEF S
<1>3. Nat \subseteq S
  BY <1>1, <1>2, NoLeast
<1>4. l - k \in S /\ k + (l - k) = l
  BY <1>3
<1> QED
  BY <1>4 DEF S

\* Before it is 0 it is another number in each round.
LEMMA HalvesStrict ==
  ASSUME NEW n \in Nat, NEW k \in Nat, NEW l \in Nat, k < l, Halves(n)[k] > 0
  PROVE  Halves(n)[l] < Halves(n)[k]
<1>1. Halves(n)[l] <= Halves(n)[k + 1]
  BY HalvesMonotone
<1>2. Halves(n)[k + 1] = Half(Halves(n)[k]) /\ Halves(n)[k] \in Nat /\ Halves(n)[l] \in Nat
  BY HalvesNext, HalvesDown
<1>3. Half(Halves(n)[k]) \in Nat /\ Half(Halves(n)[k]) < Halves(n)[k]
  BY <1>2, HalfDown
<1> QED
  BY <1>1, <1>2, <1>3

-------------------------------------------------------------------------------
(* The sizes are what such a loop passes through on its way to MinSize.    *)

Limits == MinSize \in Int /\ MaxSize \in Int /\ Sane

LEMMA SizesAreRounds ==
  ASSUME Limits, NEW s
  PROVE  s \in Sizes <=> \E k \in Nat : /\ s = Halves(MaxSize)[k]
                                        /\ MinSize <= s /\ MinSize <= MaxSize
<1>1. CASE s \in Sizes
  BY <1>1 DEF Sizes, Limits
<1>2. ASSUME NEW k \in Nat, s = Halves(MaxSize)[k], MinSize <= s, MinSize <= MaxSize
      PROVE  s \in Sizes
  <2>1. MaxSize \in Nat /\ MinSize > 0 /\ MinSize \in Int
    BY <1>2 DEF Limits, Sane
  <2>2. s \in Nat /\ s > 0 /\ s + k <= MaxSize
    BY <1>2, <2>1, HalvesDown
  <2>3. s \in MinSize..MaxSize /\ k \in 0..MaxSize
    BY <1>2, <2>1, <2>2
  <2> QED
    BY <1>2, <2>3 DEF Sizes
<1> QED
  BY <1>1, <1>2

LEMMA SizesArePositive ==
  ASSUME Limits
  PROVE  /\ Sizes # {} => MinSize \in Nat /\ MaxSize \in Nat /\ MinSize > 0 /\ MinSize <= MaxSize
         /\ \A s \in Sizes : s \in Nat /\ MinSize <= s /\ s <= MaxSize /\ s > 0
         /\ IsFiniteSet(Sizes)
<1>1. Sizes \subseteq MinSize..MaxSize
  BY DEF Sizes
<1>2. IsFiniteSet(Sizes)
  BY <1>1, FS_Interval, FS_Subset DEF Limits
<1>3. MinSize \in Int /\ MaxSize \in Int /\ (MinSize > 0 \/ MinSize > MaxSize)
  BY DEF Limits, Sane
<1>4. ASSUME NEW s \in Sizes
      PROVE  s \in Nat /\ MinSize <= s /\ s <= MaxSize /\ MinSize > 0
  BY <1>1, <1>3
<1> QED
  BY <1>2, <1>3, <1>4

LEMMA LargestSize ==
  ASSUME Limits, MinSize <= MaxSize
  PROVE  MaxSize \in Sizes
<1>1. Halves(MaxSize)[0] = MaxSize
  BY HalvesDef DEF Limits
<1> QED
  BY <1>1, SizesAreRounds DEF Limits

\* Behind a size the next smaller one is its half, or none.
LEMMA HalfIsNext ==
  ASSUME Limits, NEW s \in Sizes
  PROVE  /\ Half(s) \in Nat /\ Half(s) < s
         /\ Half(s) >= MinSize => Half(s) \in Sizes
         /\ \A t \in Sizes : t < s <=> t <= Half(s)
<1>1. MaxSize \in Nat /\ s \in Nat /\ s > 0 /\ MinSize \in Nat /\ MinSize <= MaxSize
  BY SizesArePositive
<1>2. PICK k \in Nat : s = Halves(MaxSize)[k]
  BY SizesAreRounds
<1>3. Half(s) = Halves(MaxSize)[k + 1] /\ k + 1 \in Nat
  BY <1>1, <1>2, HalvesDef
<1>4. Half(s) \in Nat /\ Half(s) < s
  BY <1>1, HalfDown
<1>5. Half(s) >= MinSize => Half(s) \in Sizes
  BY <1>1, <1>3, <1>4, SizesAreRounds
<1>6. ASSUME NEW t \in Sizes, t < s PROVE t <= Half(s)
  <2>1. PICK l \in Nat : t = Halves(MaxSize)[l]
    BY SizesAreRounds
  <2>2. t \in Nat
    BY SizesArePositive
  <2>3. ~(l <= k)
    BY <1>1, <1>2, <1>6, <2>1, <2>2, HalvesMonotone
  <2>4. k + 1 <= l
    BY <2>3
  <2> QED
    BY <1>1, <1>3, <2>1, <2>4, HalvesMonotone
<1>7. \A t \in Sizes : t <= Half(s) => t < s
  BY <1>4, SizesArePositive
<1> QED
  BY <1>4, <1>5, <1>6, <1>7

\* test_cases_send_pattern finds the round of a size.
LEMMA IndexIsRound ==
  ASSUME Limits, NEW s \in Sizes
  PROVE  IndexOf(s) \in Nat /\ Halves(MaxSize)[IndexOf(s)] = s
<1>1. MaxSize \in Nat /\ s \in Nat /\ s > 0
  BY SizesArePositive
<1>2. PICK k \in 0..MaxSize : s = Halves(MaxSize)[k]
  BY DEF Sizes
<1> DEFINE At(q) == /\ Halves(MaxSize)[q] <= s
                    /\ \A m \in 0 .. q - 1 : Halves(MaxSize)[m] > s
<1>3. At(k)
  <2>1. ASSUME NEW m \in 0 .. k - 1 PROVE Halves(MaxSize)[m] > s
    <3>1. m \in Nat /\ k \in Nat /\ m < k
      BY <1>1, <1>2
    <3>2. Halves(MaxSize)[m] \in Nat /\ Halves(MaxSize)[k] <= Halves(MaxSize)[m]
      BY <1>1, <3>1, HalvesMonotone, HalvesDown
    <3>3. Halves(MaxSize)[m] > 0
      BY <1>1, <1>2, <3>2
    <3> QED
      BY <1>1, <1>2, <3>1, <3>3, HalvesStrict
  <2> QED
    BY <1>1, <1>2, <2>1
<1>4. ASSUME NEW q \in 0..MaxSize, At(q) PROVE q = k
  <2>1. q \in Nat /\ k \in Nat
    BY <1>1, <1>2
  <2>2. ~(q < k)
    <3> SUFFICES ASSUME q < k PROVE FALSE
      OBVIOUS
    <3>1. q \in 0 .. k - 1
      BY <2>1
    <3>2. Halves(MaxSize)[q] > s
      BY <1>3, <3>1
    <3>3. Halves(MaxSize)[q] \in Nat
      BY <1>1, <2>1, HalvesDown
    <3> QED
      BY <1>1, <1>4, <3>2, <3>3
  <2>3. ~(k < q)
    <3> SUFFICES ASSUME k < q PROVE FALSE
      OBVIOUS
    <3>1. k \in 0 .. q - 1
      BY <2>1
    <3> QED
      BY <1>1, <1>2, <1>4, <3>1
  <2> QED
    BY <2>1, <2>2, <2>3
<1>5. IndexOf(s) = CHOOSE q \in 0..MaxSize : At(q)
  BY DEF IndexOf
<1> HIDE DEF At
<1>6. IndexOf(s) = k
  BY <1>2, <1>3, <1>4, <1>5
<1> QED
  BY <1>1, <1>2, <1>6

-------------------------------------------------------------------------------
(* Division.                                                               *)

LEMMA Product ==
  \A a, b, t \in Int : t > 0 => (a <= b <=> a * t <= b * t)
OBVIOUS

LEMMA Quotient ==
  ASSUME NEW b \in Int, NEW s \in Int, s > 0, NEW t \in Int
  PROVE  b \div s \in Int /\ (t <= b \div s <=> t * s <= b)
<1> DEFINE q == b \div s
<1>1. q \in Int /\ q * s <= b /\ b < q * s + s
  OBVIOUS
<1> HIDE DEF q
<1>2. t <= q => t * s <= b
  <2>1. t <= q => t * s <= q * s
    BY <1>1, Product
  <2>2. t * s \in Int /\ q * s \in Int
    BY <1>1
  <2> QED
    BY <1>1, <2>1, <2>2
<1>3. ~(t <= q) => ~(t * s <= b)
  <2>1. ~(t <= q) => q + 1 <= t
    BY <1>1
  <2>2. q + 1 <= t => (q + 1) * s <= t * s
    BY <1>1, Product
  <2>3. (q + 1) * s = q * s + s /\ t * s \in Int /\ q * s \in Int
    BY <1>1
  <2> QED
    BY <1>1, <2>1, <2>2, <2>3
<1> QED
  BY <1>1, <1>2, <1>3 DEF q

\* A division that rounds up.
LEMMA RoundedUp ==
  ASSUME NEW c \in Int, NEW t \in Int, t > 0
  PROVE  LET q == (c + t - 1) \div t
         IN  q \in Int /\ t * q >= c /\ t * (q - 1) < c
<1> DEFINE q == (c + t - 1) \div t
<1>1. q \in Int /\ q * t <= c + t - 1 /\ c + t - 1 < q * t + t
  OBVIOUS
<1> HIDE DEF q
<1>2. t * q = q * t /\ t * (q - 1) = q * t - t /\ q * t \in Int
  BY <1>1
<1>3. t * q >= c /\ t * (q - 1) < c
  BY <1>1, <1>2
<1> QED
  BY <1>1, <1>3 DEF q

LEMMA Multiple == \A q, m \in Int : m > 0 => (m * q) % m = 0
OBVIOUS

\* An int keeps the lowest bits of the number that is stored in it.
LEMMA ToIntStandsFor ==
  ASSUME NEW n \in Int
  PROVE  ToInt(n) \in Int /\ StandsFor(ToInt(n), n)
<1>1. MaxInt \in Nat /\ IntRange \in Int /\ IntRange > 0 /\ IntRange = 2 * MaxInt + 2
  BY MaxIntAssumption DEF IntRange
<1> DEFINE a == n + MaxInt + 1
           d == a \div IntRange
           r == a % IntRange
<1>2. a \in Int
  BY <1>1
<1> HIDE DEF a
<1>3. d \in Int /\ r \in Int /\ 0 <= r /\ r < IntRange /\ a = IntRange * d + r
  BY <1>1, <1>2
<1>4. ToInt(n) = r - MaxInt - 1
  BY DEF ToInt, a
<1> HIDE DEF d, r
<1>5. ToInt(n) \in -MaxInt - 1 .. MaxInt
  BY <1>1, <1>3, <1>4
<1>6. ToInt(n) - n = IntRange * (-d)
  <2>1. IntRange * d \in Int /\ IntRange * (-d) = -(IntRange * d)
    BY <1>1, <1>3
  <2> QED
    BY <1>1, <1>3, <1>4, <2>1 DEF a
<1>7. -d \in Int
  BY <1>3
<1>8. (IntRange * (-d)) % IntRange = 0
  BY <1>1, <1>7, Multiple
<1>9. (ToInt(n) - n) % IntRange = 0
  BY <1>6, <1>8
<1>10. ToInt(n) \in Int
  BY <1>3, <1>1, <1>4
<1> QED
  BY <1>5, <1>9, <1>10 DEF StandsFor

-------------------------------------------------------------------------------
(* The parser.                                                             *)

LEMMA Names ==
  /\ OptionNames = IntOptions \cup StringOptions
  /\ \A o \in IntOptions : o \notin StringOptions
  /\ \A o \in IntOptions : Defaults[o] \in Int
  /\ DOMAIN Defaults = OptionNames
  /\ {"partition_size", "partition_size_max", "num_values", "num_threads",
      "allow_1_to_n", "allow_n_to_1"} \subseteq IntOptions
BY DEF OptionNames, IntOptions, StringOptions, Defaults

LEMMA LineType ==
  ASSUME TypeOK
  PROVE  /\ Len(line) \in Nat /\ DOMAIN line = 1 .. Len(line)
         /\ optind \in Nat /\ optind >= 1 /\ optind <= Len(line) + 1
         /\ optind <= Len(line) =>
              /\ optind \in DOMAIN line
              /\ Item.kind \in Kinds
              /\ Item.kind = "option" =>
                   /\ Item.name \in OptionNames
                   /\ Item.name \notin StringOptions =>
                        /\ Item.name \in IntOptions
                        /\ Item.value.number \in Int /\ Item.value.rest \in BOOLEAN
<1>1. line \in CommandLines /\ optind \in 1 .. Len(line) + 1
  BY DEF TypeOK
<1>2. Len(line) \in Nat /\ DOMAIN line = 1 .. Len(line)
  BY <1>1, CommandLinesAssumption
<1>3. optind \in Nat /\ optind >= 1 /\ optind <= Len(line) + 1
  BY <1>1, <1>2
<1>4. optind <= Len(line) => optind \in DOMAIN line
  BY <1>2, <1>3
<1> QED
  BY <1>1, <1>2, <1>3, <1>4, CommandLinesAssumption, Names DEF Item

\* The elements taken so far, and the next one if it is not "--".
LEMMA PastParsed ==
  ASSUME TypeOK, ParserInv
  PROVE  /\ Past \subseteq Parsed
         /\ optind <= Len(line) /\ Item.kind # "end" => optind \in Parsed
         /\ \A n \in Parsed : n \in Past \/ n >= optind
         /\ optind \notin Past
BY LineType DEF ParserInv, Past, Parsed, Item

\* Nothing in front of the next element should have stopped the parser.
LEMMA FirstHere ==
  ASSUME TypeOK, ParserInv, pc = "parse"
  PROVE  /\ optind \in Erroneous => First(Erroneous, Informing)
         /\ optind \in Informing => First(Informing, Erroneous)
<1>1. \A n \in Erroneous \cup Informing : n \in Parsed /\ n \notin Past
  BY DEF ParserInv, Erroneous, Informing
<1>2. \A n \in Erroneous \cup Informing : optind <= n
  BY <1>1, PastParsed
<1> QED
  BY <1>2 DEF First

LEMMA LineStays ==
  ASSUME line' = line
  PROVE  Erroneous' = Erroneous /\ Informing' = Informing /\ Parsed' = Parsed
BY DEF Erroneous, Informing, Parsed, Naming

\* An option is repeated if an element in front of it names it.
LEMMA RepeatedIsNamed ==
  ASSUME TypeOK, ParserInv, pc = "parse", NEW o \in OptionNames
  PROVE  /\ seen[o] > 0 <=> Naming(o) \cap Past # {}
         /\ given[o] = seen[o] /\ seen[o] \in Nat
<1>1. given[o] = seen[o] /\ seen[o] \in Nat
  BY DEF TypeOK
<1>2. CASE Naming(o) \cap Past = {}
  BY <1>1, <1>2 DEF ParserInv
<1>3. CASE Naming(o) \cap Past # {}
  <2>1. PICK n \in Naming(o) \cap Past : TRUE
    BY <1>3
  <2>2. \A m \in Naming(o) \cap Past : seen[o] > 0
    BY DEF ParserInv
  <2> QED
    BY <1>1, <1>3, <2>1, <2>2
<1> QED
  BY <1>1, <1>2, <1>3

\* What taking an element does to the elements behind the parser.
LEMMA TakeNext ==
  ASSUME TypeOK, ParserInv, pc = "parse",
         optind <= Len(line), Item.kind # "end",
         optind' = optind + 1, line' = line
  PROVE  /\ Past' = Past \cup {optind}
         /\ \A n \in Past' : line'[n].kind # "end"
         /\ optind' \in 1 .. Len(line') + 1
         /\ optind \notin Past
         /\ \A o : Naming(o) \cap Past' =
                     IF Item.kind = "option" /\ Item.name = o
                     THEN (Naming(o) \cap Past) \cup {optind}
                     ELSE Naming(o) \cap Past
<1>1. Past' = Past \cup {optind} /\ optind' \in 1 .. Len(line') + 1
  BY LineType DEF Past
<1>2. \A n \in Past' : line'[n].kind # "end"
  BY <1>1 DEF ParserInv, Item
<1>3. optind \notin Past /\ optind \in Parsed
  BY PastParsed
<1>4. \A o : optind \in Naming(o) <=> Item.kind = "option" /\ Item.name = o
  BY <1>3 DEF Naming, Item
<1> QED
  BY <1>1, <1>2, <1>3, <1>4

\* An element that is not an option and no reason to stop.
LEMMA OperandStep ==
  ASSUME TypeOK, ParserInv, Operand
  PROVE  ParserInv' /\ optind' \in 1 .. Len(line') + 1
<1> USE DEF Operand, Take
<1>1. /\ pc = "parse" /\ pc' = "parse" /\ optind <= Len(line)
      /\ Item.kind = "operand" /\ optind' = optind + 1 /\ line' = line
      /\ args' = args /\ seen' = seen
  OBVIOUS
<1>2. /\ Past' = Past \cup {optind}
      /\ \A n \in Past' : line'[n].kind # "end"
      /\ optind' \in 1 .. Len(line') + 1
      /\ \A o : Naming(o) \cap Past' = Naming(o) \cap Past
  BY <1>1, TakeNext
<1>3. optind \notin Erroneous \cup Informing
  BY <1>1 DEF Erroneous, Informing, Item
<1>4. Past' \cap (Erroneous' \cup Informing') = {}
  BY <1>1, <1>2, <1>3, LineStays DEF ParserInv
<1>5. ASSUME NEW o \in OptionNames
      PROVE  /\ Naming(o)' \cap Past' = {} => seen'[o] = 0 /\ args'[o] = Defaults[o]
             /\ \A n \in Naming(o)' \cap Past' :
                  /\ seen'[o] > 0
                  /\ IF o \in StringOptions THEN args'[o] = line'[n].value
                     ELSE StandsFor(args'[o], line'[n].value.number)
  <2>1. Naming(o)' = Naming(o)
    BY <1>1 DEF Naming, Parsed
  <2> QED
    BY <1>1, <1>2, <2>1 DEF ParserInv
<1>6. DOMAIN args' = OptionNames /\ \A o \in IntOptions : args'[o] \in Int
  BY <1>1 DEF ParserInv
<1> QED
  BY <1>1, <1>2, <1>4, <1>5, <1>6 DEF ParserInv

\* An option that the parser takes.
LEMMA OptionStep ==
  ASSUME TypeOK, ParserInv, StringOption \/ IntOption
  PROVE  /\ ParserInv' /\ optind' \in 1 .. Len(line') + 1
         /\ given' \in [OptionNames -> Nat] /\ seen' = given'
<1>0. PICK name : name = Item.name
  OBVIOUS
<1> DEFINE value == IF StringOption THEN Item.value ELSE ToInt(Item.value.number)
<1>1. /\ pc = "parse" /\ pc' = "parse" /\ optind <= Len(line)
      /\ Item.kind = "option" /\ optind' = optind + 1 /\ line' = line
      /\ ~Repeated
  BY DEF StringOption, IntOption, Take
<1>2. name \in OptionNames
  BY <1>0, <1>1, LineType
<1>3. given[name] = 0 /\ seen[name] = 0 /\ Naming(name) \cap Past = {}
  BY <1>0, <1>1, <1>2, RepeatedIsNamed DEF Repeated
<1>4. Store(value) /\ (name \in IntOptions => ~StringOption /\ ~Item.value.rest)
  BY <1>0, <1>1, <1>3, Names DEF StringOption, IntOption, Kept
<1>5. IF name \in StringOptions THEN value = Item.value
      ELSE value \in Int /\ StandsFor(value, Item.value.number)
  <2>1. CASE StringOption
    BY <1>0, <2>1 DEF StringOption
  <2>2. CASE ~StringOption
    <3>1. name \in IntOptions /\ name \notin StringOptions
      BY <1>0, <2>2, Names DEF IntOption
    <3>2. Item.value.number \in Int
      BY <1>0, <1>1, <3>1, LineType
    <3> QED
      BY <2>2, <3>1, <3>2, ToIntStandsFor
  <2> QED
    BY <2>1, <2>2
<1> HIDE DEF value
<1>6. /\ Past' = Past \cup {optind} /\ optind \notin Past
      /\ \A n \in Past' : line'[n].kind # "end"
      /\ optind' \in 1 .. Len(line') + 1
      /\ Naming(name) \cap Past' = {optind}
      /\ \A o : o # name => Naming(o) \cap Past' = Naming(o) \cap Past
  <2>1. /\ Past' = Past \cup {optind} /\ optind \notin Past
        /\ \A n \in Past' : line'[n].kind # "end"
        /\ optind' \in 1 .. Len(line') + 1
        /\ \A o : Naming(o) \cap Past' =
                    IF Item.name = o THEN (Naming(o) \cap Past) \cup {optind}
                    ELSE Naming(o) \cap Past
    BY <1>0, <1>1, TakeNext
  <2>2. Naming(name) \cap Past' = (Naming(name) \cap Past) \cup {optind}
    BY <1>0, <2>1, Zenon
  <2> QED
    BY <1>3, <2>1, <2>2
<1>7. optind \notin Erroneous \cup Informing
  <2>1. ASSUME NEW m \in Naming(name) PROVE ~(m < optind)
    <3>1. m \in Parsed /\ m \notin Past
      BY <1>3 DEF Naming
    <3>2. m \in Nat /\ m >= optind
      BY <3>1, PastParsed, LineType DEF Parsed
    <3> QED
      BY <3>2, LineType
  <2> QED
    BY <1>0, <1>1, <1>4, <2>1 DEF Erroneous, Informing, Item
<1>8. Past' \cap (Erroneous' \cup Informing') = {}
  BY <1>1, <1>6, <1>7, LineStays DEF ParserInv
<1>9. /\ DOMAIN args' = OptionNames /\ args'[name] = value
      /\ \A o \in OptionNames : o # name => args'[o] = args[o] /\ seen'[o] = seen[o]
      /\ seen'[name] = 1
      /\ given' \in [OptionNames -> Nat] /\ seen' = given'
  BY <1>0, <1>2, <1>3, <1>4 DEF Store, ParserInv, TypeOK
<1>10. \A o \in IntOptions : args'[o] \in Int
  <2>1. \A o \in IntOptions : o # name => args'[o] \in Int
    BY <1>9, Names DEF ParserInv
  <2>2. name \in IntOptions => args'[name] \in Int
    BY <1>5, <1>9, Names
  <2> QED
    BY <2>1, <2>2
<1>11. ASSUME NEW o \in OptionNames
       PROVE  /\ Naming(o)' \cap Past' = {} => seen'[o] = 0 /\ args'[o] = Defaults[o]
              /\ \A n \in Naming(o)' \cap Past' :
                   /\ seen'[o] > 0
                   /\ IF o \in StringOptions THEN args'[o] = line'[n].value
                      ELSE StandsFor(args'[o], line'[n].value.number)
  <2>1. Naming(o)' = Naming(o)
    BY <1>1 DEF Naming, Parsed
  <2>2. CASE o = name
    BY <1>0, <1>1, <1>5, <1>6, <1>9, <2>1, <2>2 DEF Item
  <2>3. CASE o # name
    BY <1>1, <1>6, <1>9, <2>1, <2>3 DEF ParserInv
  <2> QED
    BY <2>2, <2>3
<1> QED
  BY <1>1, <1>6, <1>8, <1>9, <1>10, <1>11 DEF ParserInv

\* An element at which the parser stops.
LEMMA StopStep ==
  ASSUME TypeOK, ParserInv,
         RepeatedOption \/ InvalidNumber \/ InvalidOption \/ HelpOrVersion
  PROVE  /\ ParserInv' /\ optind' \in 1 .. Len(line') + 1
         /\ given' \in [OptionNames -> Nat] /\ seen' = given'
<1>1. /\ pc = "parse" /\ pc' \in {"failed", "informed"} /\ optind <= Len(line)
      /\ Item.kind # "end" /\ optind' = optind + 1 /\ line' = line
      /\ pc' = "informed" <=> Item.kind \in {"help", "version"}
  BY DEF RepeatedOption, InvalidNumber, InvalidOption, HelpOrVersion, Take, Fail
<1>2. Past' = Past \cup {optind} /\ optind' \in 1 .. Len(line') + 1
      /\ \A n \in Past' : line'[n].kind # "end"
  BY <1>1, TakeNext
<1>3. optind \in Parsed
  BY <1>1, PastParsed
<1>4. pc' = "failed" => optind \in Erroneous
  <2>1. CASE RepeatedOption
    <3>1. Item.kind = "option" /\ seen[Item.name] > 0
      BY <2>1 DEF RepeatedOption, Take, Repeated
    <3>2. Item.name \in OptionNames
      BY <1>1, <3>1, LineType
    <3>3. PICK m \in Naming(Item.name) : m \in Past
      BY <1>1, <3>1, <3>2, RepeatedIsNamed
    <3>4. m < optind
      BY <3>3, LineType DEF Past
    <3> QED
      BY <1>3, <3>1, <3>3, <3>4 DEF Erroneous, Item
  <2>2. CASE InvalidNumber
    BY <1>3, <2>2 DEF InvalidNumber, Take, Erroneous, Item
  <2>3. CASE InvalidOption
    BY <1>3, <2>3 DEF InvalidOption, Take, Erroneous, Item
  <2>4. CASE HelpOrVersion
    BY <2>4 DEF HelpOrVersion
  <2> QED
    BY <2>1, <2>2, <2>3, <2>4
<1>5. pc' = "informed" => optind \in Informing
  BY <1>1, <1>3 DEF Informing, Item
<1>6. /\ pc' = "failed" => First(Erroneous, Informing)
      /\ pc' = "informed" => First(Informing, Erroneous)
  BY <1>1, <1>4, <1>5, FirstHere
<1>7. /\ pc' = "failed" => First(Erroneous', Informing')
      /\ pc' = "informed" => First(Informing', Erroneous')
  BY <1>1, <1>6, LineStays
<1>8. /\ DOMAIN args' = OptionNames /\ \A o \in IntOptions : args'[o] \in Int
      /\ given' \in [OptionNames -> Nat] /\ seen' = given'
  <2>1. CASE InvalidNumber
    <3>1. PICK name : name = Item.name
      OBVIOUS
    <3>2. name \in IntOptions /\ Item.kind = "option" /\ name \notin StringOptions
      BY <2>1, <3>1, Names DEF InvalidNumber, Take
    <3>3. Item.value.number \in Int
      BY <1>1, <3>1, <3>2, LineType
    <3> DEFINE value == ToInt(Item.value.number)
    <3>4. value \in Int
      BY <3>3, ToIntStandsFor
    <3>5. Store(value)
      BY <2>1 DEF InvalidNumber
    <3> HIDE DEF value
    <3>6. name \in OptionNames /\ IntOptions \subseteq OptionNames
      BY <3>2, Names
    <3>7. args' = [args EXCEPT ![name] = value]
      BY <3>1, <3>5 DEF Store
    <3>8. DOMAIN args' = OptionNames /\ \A o \in IntOptions : args'[o] \in Int
      BY <3>4, <3>6, <3>7 DEF ParserInv
    <3>9. given' \in [OptionNames -> Nat] /\ seen' = given'
      BY <3>1, <3>5, <3>6 DEF Store, TypeOK
    <3> QED
      BY <3>8, <3>9
  <2>2. CASE RepeatedOption \/ InvalidOption \/ HelpOrVersion
    BY <2>2 DEF RepeatedOption, InvalidOption, HelpOrVersion, ParserInv, TypeOK
  <2> QED
    BY <2>1, <2>2
<1> QED
  BY <1>1, <1>2, <1>7, <1>8 DEF ParserInv, First

LEMMA ParserStep ==
  ASSUME TypeOK, ParserInv, Parser
  PROVE  /\ ParserInv'
         /\ line' \in CommandLines /\ optind' \in 1 .. Len(line') + 1
         /\ given' \in [OptionNames -> Nat] /\ seen' = given'
         /\ pc = "parse" /\ pc' \in {"parse", "parsed", "failed", "informed"}
<1>1. line' = line /\ pc = "parse" /\ pc' \in {"parse", "parsed", "failed", "informed"}
  BY DEF Parser, RepeatedOption, StringOption, IntOption, InvalidNumber,
         HelpOrVersion, InvalidOption, Operand, EndOfOptions, Take, Fail, parser
<1>2. line' \in CommandLines
  BY <1>1 DEF TypeOK
<1>3. CASE StringOption \/ IntOption
  BY <1>1, <1>2, <1>3, OptionStep
<1>4. CASE RepeatedOption \/ InvalidNumber \/ InvalidOption \/ HelpOrVersion
  BY <1>1, <1>2, <1>4, StopStep
<1>5. CASE Operand
  <2>1. given' = given /\ seen' = seen
    BY <1>5 DEF Operand
  <2> QED
    BY <1>1, <1>2, <1>5, <2>1, OperandStep DEF TypeOK
<1>6. CASE EndOfOptions
  <2>1. UNCHANGED parser /\ pc' = "parsed" /\ (optind <= Len(line) => Item.kind = "end")
    BY <1>6 DEF EndOfOptions
  <2>2. ParserInv'
    BY <1>1, <2>1 DEF ParserInv, parser, Past, Item, Erroneous, Informing,
                      Naming, Parsed
  <2> QED
    BY <1>1, <1>2, <2>1, <2>2 DEF TypeOK, parser
<1> QED
  BY <1>3, <1>4, <1>5, <1>6 DEF Parser

\* What the rest of the program keeps of it.
LEMMA ParserStays ==
  ASSUME ParserInv, UNCHANGED parser, pc \notin {"parse", "failed", "informed"},
         pc' \notin {"parse", "failed", "informed"}
  PROVE  ParserInv'
BY DEF ParserInv, parser, Past, Item, Erroneous, Informing, Naming, Parsed

\* When the parser is done nothing is left to be read.
LEMMA ParserResult ==
  ASSUME TypeOK, ParserInv
  PROVE  ParsedAsGiven
<1>1. CASE pc \in {"parse", "failed", "informed"}
  BY <1>1 DEF ParserInv, ParsedAsGiven
<1>2. CASE pc \notin {"parse", "failed", "informed"}
  <2>1. Parsed = Past
    <3>1. optind \in Parsed => optind <= Len(line) /\ Item.kind # "end"
      BY LineType DEF Parsed, Item
    <3>2. ASSUME NEW n \in Parsed, n >= optind PROVE FALSE
      <4>1. n \in Nat /\ optind \in 1..n /\ n \in 1 .. Len(line)
        BY <3>2, LineType DEF Parsed
      <4>2. optind <= Len(line)
        BY <4>1, LineType
      <4>3. optind \in Parsed
        BY <3>2, <4>1, <4>2, LineType DEF Parsed
      <4> QED
        BY <1>2, <3>1, <4>3 DEF ParserInv
    <3> QED
      BY <3>2, PastParsed
  <2>2. Erroneous = {} /\ Informing = {}
    BY <1>2, <2>1 DEF ParserInv, Erroneous, Informing
  <2>3. \A o : Naming(o) \cap Past = Naming(o)
    BY <2>1 DEF Naming
  <2>4. ASSUME NEW o \in OptionNames
        PROVE  /\ Naming(o) = {} => args[o] = Defaults[o]
               /\ \A n \in Naming(o) :
                    IF o \in StringOptions THEN args[o] = line[n].value
                    ELSE StandsFor(args[o], line[n].value.number)
    BY <1>2, <2>3 DEF ParserInv
  <2>5. \A o \in StringOptions : o \in OptionNames
    BY Names
  <2>6. \A o \in IntOptions : o \in OptionNames /\ o \notin StringOptions
    BY Names
  <2> QED
    BY <1>2, <2>2, <2>4, <2>5, <2>6 DEF ParsedAsGiven
<1> QED
  BY <1>1, <1>2

-------------------------------------------------------------------------------
(* The pairs of sizes that two nested loops have behind them.              *)

LEMMA BehindStart ==
  ASSUME Limits, NEW P \in SUBSET (Sizes \X Sizes), NEW a, a = MaxSize
  PROVE  Behind(P, a, a) = {}
<1>1. \A p \in P : p[1] \in Sizes /\ p[2] \in Sizes
  OBVIOUS
<1> QED
  BY <1>1, SizesArePositive DEF Behind, Limits

LEMMA BehindEnd ==
  ASSUME Limits, NEW P \in SUBSET (Sizes \X Sizes),
         NEW a \in Int, NEW b \in Int, a < MinSize
  PROVE  Behind(P, a, b) = P
<1>1. \A p \in P : p[1] \in Sizes
  OBVIOUS
<1>2. \A p \in P : p[1] > a
  BY <1>1, SizesArePositive DEF Limits
<1> QED
  BY <1>2 DEF Behind

\* The inner loop gets past b.
LEMMA BehindInner ==
  ASSUME Limits, NEW P \in SUBSET (Sizes \X Sizes),
         NEW a \in Int, NEW b \in Sizes
  PROVE  /\ Behind(P, a, Half(b)) = Behind(P, a, b) \cup (P \cap {<<a, b>>})
         /\ <<a, b>> \notin Behind(P, a, b)
<1>1. b \in Nat /\ Half(b) \in Nat /\ Half(b) < b
  BY SizesArePositive, HalfIsNext
<1>2. <<a, b>> \notin Behind(P, a, b)
  BY <1>1 DEF Behind
<1>3. ASSUME NEW p \in P
      PROVE  p[1] > a \/ (p[1] = a /\ p[2] > Half(b)) <=>
               (p[1] > a \/ (p[1] = a /\ p[2] > b)) \/ p = <<a, b>>
  <2>1. p = <<p[1], p[2]>> /\ p[1] \in Sizes /\ p[2] \in Sizes
    BY <1>3
  <2>2. p[1] \in Nat /\ p[2] \in Nat
    BY <2>1, SizesArePositive
  <2>3. p[2] < b <=> p[2] <= Half(b)
    BY <2>1, HalfIsNext
  <2>4. p[2] > Half(b) <=> p[2] > b \/ p[2] = b
    BY <1>1, <2>2, <2>3
  <2>5. p = <<a, b>> <=> p[1] = a /\ p[2] = b
    BY <2>1
  <2> QED
    BY <2>2, <2>4, <2>5
<1>4. Behind(P, a, Half(b)) = Behind(P, a, b) \cup (P \cap {<<a, b>>})
  BY <1>3 DEF Behind
<1> QED
  BY <1>2, <1>4

\* The outer loop gets past a, when the inner one is through.
LEMMA BehindOuter ==
  ASSUME Limits, NEW P \in SUBSET (Sizes \X Sizes),
         NEW a \in Sizes, NEW b \in Int, NEW c \in Int,
         \A p \in P : p[1] = a => p[2] > b,
         \A p \in P : p[1] = Half(a) => p[2] <= c
  PROVE  Behind(P, Half(a), c) = Behind(P, a, b)
<1>1. a \in Nat /\ Half(a) \in Nat /\ Half(a) < a
  BY SizesArePositive, HalfIsNext
<1>2. ASSUME NEW p \in P
      PROVE  p[1] > Half(a) \/ (p[1] = Half(a) /\ p[2] > c) <=>
               p[1] > a \/ (p[1] = a /\ p[2] > b)
  <2>1. p[1] \in Sizes /\ p[2] \in Sizes
    BY <1>2
  <2>2. p[1] \in Nat /\ p[2] \in Nat
    BY <2>1, SizesArePositive
  <2>3. p[1] < a <=> p[1] <= Half(a)
    BY <2>1, HalfIsNext
  <2>4. ~(p[1] = Half(a) /\ p[2] > c)
    BY <2>2
  <2>5. p[1] = a => p[2] > b
    OBVIOUS
  <2>6. p[1] > Half(a) <=> p[1] > a \/ p[1] = a
    BY <1>1, <2>2, <2>3
  <2> QED
    BY <2>4, <2>5, <2>6
<1> QED
  BY <1>2 DEF Behind

\* How many they are.
LEMMA BehindCount ==
  ASSUME Limits, NEW P \in SUBSET (Sizes \X Sizes),
         NEW a \in Int, NEW b \in Sizes
  PROVE  Cardinality(Behind(P, a, Half(b))) =
           IF <<a, b>> \in P THEN Cardinality(Behind(P, a, b)) + 1
           ELSE Cardinality(Behind(P, a, b))
<1>0. /\ Behind(P, a, Half(b)) = Behind(P, a, b) \cup (P \cap {<<a, b>>})
      /\ <<a, b>> \notin Behind(P, a, b)
  BY BehindInner
<1>1. IsFiniteSet(Sizes \X Sizes)
  BY SizesArePositive, FS_Product
<1>2. IsFiniteSet(Behind(P, a, b))
  <2>1. Behind(P, a, b) \in SUBSET (Sizes \X Sizes)
    BY DEF Behind
  <2> QED
    BY <1>1, <2>1, FS_Subset
<1>3. CASE <<a, b>> \in P
  <2>1. Behind(P, a, Half(b)) = Behind(P, a, b) \cup {<<a, b>>}
    BY <1>0, <1>3
  <2> QED
    BY <1>0, <1>2, <1>3, <2>1, FS_AddElement
<1>4. CASE <<a, b>> \notin P
  <2>1. P \cap {<<a, b>>} = {}
    BY <1>4
  <2>2. Behind(P, a, Half(b)) = Behind(P, a, b) \cup (P \cap {<<a, b>>})
    BY <1>0
  <2>3. \A S, T, U : S = T \cup U /\ U = {} => S = T
    OBVIOUS
  <2>4. Behind(P, a, Half(b)) = Behind(P, a, b)
    BY <2>1, <2>2, <2>3, Zenon
  <2> QED
    BY <1>4, <2>4
<1> QED
  BY <1>3, <1>4

\* There are no more wanted pairs than make_setup counts.
LEMMA WantedAreCounted ==
  ASSUME Limits
  PROVE  /\ Cardinality(Wanted) <=
              Cardinality((IF Psend THEN Sizes ELSE {MaxSize}) \X Sizes)
         /\ Cardinality(Wanted) \in Nat
         /\ Cardinality((IF Psend THEN Sizes ELSE {MaxSize}) \X Sizes) \in Nat
<1>1. Wanted \in SUBSET (Sizes \X Sizes)
  BY DEF Wanted
<1>2. IsFiniteSet(Sizes) /\ IsFiniteSet({MaxSize})
  BY SizesArePositive, FS_Singleton
<1>3. IsFiniteSet(Sizes \X Sizes) /\ IsFiniteSet({MaxSize} \X Sizes)
  BY <1>2, FS_Product
<1>4. IsFiniteSet(Wanted) /\ Cardinality(Wanted) <= Cardinality(Sizes \X Sizes)
  BY <1>1, <1>3, FS_Subset
<1>5. /\ Cardinality(Wanted) \in Nat
      /\ Cardinality(Sizes \X Sizes) \in Nat
      /\ Cardinality({MaxSize} \X Sizes) \in Nat
  BY <1>3, <1>4, FS_CardinalityType
<1>6. CASE Psend
  BY <1>4, <1>5, <1>6
<1>7. CASE ~Psend
  <2> DEFINE Q == {MaxSize} \X Sizes
             D == {<<s, s>> : s \in Sizes}
             f == [q \in Q |-> <<q[2], q[2]>>]
  <2>1. f \in [Q -> D]
    OBVIOUS
  <2>2. \A d \in D : \E q \in Q : f[q] = d
    <3> SUFFICES ASSUME NEW d \in D PROVE \E q \in Q : f[q] = d
      OBVIOUS
    <3>1. PICK s \in Sizes : d = <<s, s>>
      OBVIOUS
    <3>2. <<MaxSize, s>> \in Q /\ f[<<MaxSize, s>>] = <<s, s>>
      OBVIOUS
    <3> QED
      BY <3>1, <3>2
  <2> HIDE DEF f
  <2>3. f \in Surjection(Q, D)
    BY <2>1, <2>2 DEF Surjection
  <2>4. IsFiniteSet(D) /\ Cardinality(D) <= Cardinality(Q)
    BY <1>3, <2>3, FS_Surjection
  <2>5. Wanted \subseteq D
    <3>1. ~Allow1ToN
      BY <1>7 DEF Allow1ToN
    <3>2. ASSUME NEW p \in Wanted PROVE p \in D
      <4>1. p \in Sizes \X Sizes /\ p[1] = p[2]
        BY <3>1 DEF Wanted
      <4>2. p = <<p[1], p[1]>> /\ p[1] \in Sizes
        BY <4>1
      <4> QED
        BY <4>2
    <3> QED
      BY <3>2
  <2>6. Cardinality(Wanted) <= Cardinality(D) /\ Cardinality(D) \in Nat
    BY <2>4, <2>5, FS_Subset, FS_CardinalityType
  <2> QED
    BY <1>5, <1>7, <2>4, <2>6
<1> QED
  BY <1>6, <1>7

-------------------------------------------------------------------------------
(* The program, action by action.  What the invariants say of a setup only *)
(* depends on what stays in it when a test is counted.                     *)

LoopVars ==
  SetupInv /\ LoopInv /\ CountInv /\ PatternsInv /\ EntryInv /\ EvenInv /\ ListInv

LEMMA SetupFields ==
  ASSUME SetupInv, Looping \/ pc \in {"endless", "undefined"}
  PROVE  /\ setup \in SetupType
         /\ MinSize \in Int /\ MaxSize \in Int /\ Threads \in Int
         /\ setup.buffer_size \in Int /\ setup.num_test_cases \in Nat
         /\ Allow1ToN \in BOOLEAN
         /\ Sane => Limits
BY DEF SetupInv, SetupType, MinSize, MaxSize, Threads, Allow1ToN, Psend, IsPsend, Limits

LEMMA SameSetup ==
  ASSUME \/ setup' = setup
         \/ /\ setup \in SetupType
            /\ setup' = [setup EXCEPT !.num_test_cases = setup.num_test_cases + 1]
  PROVE  /\ MinSize' = MinSize /\ MaxSize' = MaxSize /\ Threads' = Threads
         /\ Psend' = Psend /\ Allow1ToN' = Allow1ToN
         /\ Sizes' = Sizes /\ Wanted' = Wanted
         /\ Sane' = Sane /\ OneRound' = OneRound
         /\ setup'.allow_1_to_n = setup.allow_1_to_n
         /\ setup'.buffer_size = setup.buffer_size
         /\ setup'.send_pattern = setup.send_pattern
<1>1. /\ MinSize' = MinSize /\ MaxSize' = MaxSize /\ Threads' = Threads
      /\ setup'.mode = setup.mode /\ setup'.allow_1_to_n = setup.allow_1_to_n
      /\ setup'.buffer_size = setup.buffer_size
      /\ setup'.send_pattern = setup.send_pattern
  BY DEF MinSize, MaxSize, Threads, SetupType
<1>2. Psend' = Psend /\ Allow1ToN' = Allow1ToN
  BY <1>1 DEF Psend, Mode, Allow1ToN
<1>3. Sizes' = Sizes /\ Sane' = Sane /\ OneRound' = OneRound
  BY <1>1 DEF Sizes, Sane, OneRound, Overflows
<1>4. Wanted' = Wanted
  BY <1>1, <1>2, <1>3 DEF Wanted
<1> QED
  BY <1>1, <1>2, <1>3, <1>4

LEMMA LookupInTable ==
  ASSUME NEW table, 1 \in DOMAIN table, NEW name
  PROVE  Lookup(table, name) \in DOMAIN table
BY DEF Lookup

\* Nothing is in the tables, or nothing new.
LEMMA EvenStays ==
  ASSUME EvenInv, debug' = debug,
         \/ patterns' = <<>> /\ tests' = <<>>
         \/ /\ patterns' = patterns /\ tests' = tests
            /\ setup'.buffer_size = setup.buffer_size
  PROVE  EvenInv'
<1>1. CASE patterns' = <<>> /\ tests' = <<>>
  BY <1>1 DEF EvenInv
<1>2. CASE /\ patterns' = patterns /\ tests' = tests
           /\ setup'.buffer_size = setup.buffer_size
  BY <1>2 DEF EvenInv, Even
<1> QED
  BY <1>1, <1>2

\* Where the loops of make_setup begin, in the state that it leaves, too.
LEMMA FirstSize ==
  Limits => /\ MinSize <= MaxSize => MaxSize \in Sizes
            /\ Behind(Sizes \X Sizes, MaxSize, MaxSize) = {}
<1> SUFFICES ASSUME Limits
             PROVE  /\ MinSize <= MaxSize => MaxSize \in Sizes
                    /\ Behind(Sizes \X Sizes, MaxSize, MaxSize) = {}
  OBVIOUS
<1>1. PICK P : P = Sizes \X Sizes
  OBVIOUS
<1>2. PICK m : m = MaxSize
  OBVIOUS
<1>3. Behind(P, m, m) = {}
  BY <1>1, <1>2, BehindStart
<1> QED
  BY <1>1, <1>2, <1>3, LargestSize

LEMMA FirstSizeNext ==
  (Limits => /\ MinSize <= MaxSize => MaxSize \in Sizes
             /\ Behind(Sizes \X Sizes, MaxSize, MaxSize) = {})'
BY FirstSize, PTL

LEMMA MakeSetupStep ==
  ASSUME TypeOK, ParserInv, LoopVars, MakeSetup
  PROVE  LoopVars' /\ i' \in Int /\ j' \in Int
<1> DEFINE max == IF args["partition_size_max"] # 0
                  THEN args["partition_size_max"] ELSE args["partition_size"]
<1>1. /\ pc = "parsed" /\ pc' = "count" /\ UNCHANGED parser /\ debug' = debug
      /\ patterns' = patterns /\ tests' = tests
      /\ i' = max /\ j' = max
  BY DEF MakeSetup
<1>2. \A o \in IntOptions : args[o] \in Int
  BY DEF ParserInv
<1>3. max \in Int
  BY <1>2, Names
<1>4. setup' \in SetupType
  <2>1. Lookup(ModeNames, args["mode"]) \in DOMAIN Modes
    <3>1. DOMAIN ModeNames = DOMAIN Modes /\ 1 \in DOMAIN ModeNames
      BY DEF ModeNames, Modes
    <3> QED
      BY <3>1, LookupInTable
  <2>2. Lookup(PatternNames, args["send_pattern"]) \in DOMAIN PatternNames
    <3>1. 1 \in DOMAIN PatternNames
      BY DEF PatternNames
    <3> QED
      BY <3>1, LookupInTable
  <2>3. /\ args["num_values"] \in Int /\ args["partition_size"] \in Int
        /\ args["num_threads"] \in Int
    BY <1>2, Names
  <2> QED
    BY <1>3, <2>1, <2>2, <2>3 DEF MakeSetup, SetupType
<1>5. /\ MinSize' = args["partition_size"] /\ Threads' = args["num_threads"]
      /\ MaxSize' = max /\ setup'.num_test_cases = 0
      /\ setup'.buffer_size = args["num_values"]
      /\ setup'.allow_1_to_n = (args["allow_1_to_n"] # 0)
      /\ setup'.send_pattern = Lookup(PatternNames, args["send_pattern"])
      /\ args' = args
  BY <1>1 DEF MakeSetup, MinSize, MaxSize, Threads, parser
<1> HIDE DEF max
<1>6. patterns = <<>> /\ tests = <<>>
  BY <1>1 DEF LoopVars, SetupInv, Looping
<1>7. SetupInv'
  BY <1>1, <1>4, <1>5, <1>6 DEF SetupInv, Looping
<1>8. (Sane => Limits)' /\ MinSize' \in Int
  BY <1>1, <1>7, SetupFields, Names, <1>2, <1>3, <1>5 DEF Limits
<1>9. i' \in Int /\ j' \in Int /\ i' = MaxSize' /\ j' = MaxSize'
  BY <1>1, <1>3, <1>5
<1>10. Sane' /\ MinSize' <= MaxSize' => MaxSize' \in Sizes'
  BY <1>8, FirstSizeNext
<1>11. LoopInv'
  BY <1>1, <1>3, <1>5, <1>8, <1>9, <1>10 DEF LoopInv, Sane
<1>12. CountInv'
  <2> SUFFICES ASSUME Sane' PROVE CountInv'
    BY <1>1 DEF CountInv
  <2>1. Limits'
    BY <1>8
  <2>2. Behind(Sizes' \X Sizes', MaxSize', MaxSize') = {}
    BY <2>1, FirstSizeNext
  <2>3. Cardinality({}) = 0
    BY FS_EmptySet
  <2> QED
    BY <1>1, <1>5, <1>9, <2>2, <2>3 DEF CountInv
<1>13. PatternsInv' /\ EntryInv' /\ ListInv'
  BY <1>1, <1>6 DEF PatternsInv, EntryInv, ListInv
<1>14. EvenInv'
  BY <1>1, <1>6, EvenStays DEF LoopVars
<1> QED
  BY <1>7, <1>9, <1>11, <1>12, <1>13, <1>14 DEF LoopVars

LEMMA HalfAbove == \A n, m \in Int : m <= 0 /\ n >= m => Half(n) >= m
BY DEF Half

LEMMA CountTestStep ==
  ASSUME TypeOK, LoopVars, CountTest
  PROVE  LoopVars' /\ i' \in Int /\ j' \in Int
<1>1. /\ pc = "count" /\ pc' = "count" /\ args' = args
      /\ patterns' = patterns /\ tests' = tests
      /\ i' = i /\ j' = Half(j) /\ j >= MinSize /\ (Psend => i >= MinSize)
      /\ Threads # 0 /\ ~Overflows /\ debug' = debug
      /\ setup' = [setup EXCEPT !.num_test_cases = setup.num_test_cases + 1]
  BY DEF CountTest, Counting, parser
<1>2. i \in Int /\ j \in Int /\ Half(j) \in Int
  BY HalfType DEF TypeOK
<1>3. /\ setup \in SetupType /\ (Sane => Limits)
      /\ MinSize \in Int /\ MaxSize \in Int /\ setup.num_test_cases \in Nat
  BY <1>1, SetupFields DEF LoopVars, Looping
<1>4. /\ MinSize' = MinSize /\ MaxSize' = MaxSize /\ Threads' = Threads
      /\ Psend' = Psend /\ Sizes' = Sizes /\ Sane' = Sane /\ OneRound' = OneRound
      /\ setup'.allow_1_to_n = setup.allow_1_to_n
      /\ setup'.buffer_size = setup.buffer_size
      /\ setup'.send_pattern = setup.send_pattern
  BY <1>1, <1>3, SameSetup
<1>5. setup' \in SetupType /\ setup'.num_test_cases = setup.num_test_cases + 1
  BY <1>1, <1>3 DEF SetupType
<1>6. SetupInv'
  BY <1>1, <1>4, <1>5 DEF LoopVars, SetupInv, Looping
<1>7. Sane => i \in Sizes /\ j \in Sizes
  <2> SUFFICES ASSUME Sane PROVE i \in Sizes /\ j \in Sizes
    OBVIOUS
  <2>1. j \in Sizes
    BY <1>1 DEF LoopVars, LoopInv, Looping
  <2>2. CASE Psend
    BY <1>1, <2>1, <2>2 DEF LoopVars, LoopInv, Looping
  <2>3. CASE ~Psend
    <3>1. i = MaxSize
      BY <1>1, <2>3 DEF LoopVars, CountInv
    <3>2. MinSize <= MaxSize
      BY <1>3, <2>1, SizesArePositive
    <3> QED
      BY <1>3, <2>1, <3>1, <3>2, LargestSize
  <2> QED
    BY <2>2, <2>3
<1>8. LoopInv'
  <2>1. Sane /\ Half(j) >= MinSize => Half(j) \in Sizes
    BY <1>3, <1>7, HalfIsNext
  <2>2. ~Sane => i >= MinSize /\ Half(j) >= MinSize
    <3>1. ~Sane => MinSize <= 0 /\ i >= MinSize
      BY <1>1, <1>3 DEF LoopVars, LoopInv, Looping, Sane
    <3> QED
      BY <1>1, <1>2, <1>3, <3>1, HalfAbove
  <2>3. OneRound
    <3>1. Threads \in Int
      BY <1>1, SetupFields DEF LoopVars, Looping
    <3> QED
      BY <1>1, <3>1 DEF OneRound, Overflows
  <2> QED
    BY <1>1, <1>4, <1>7, <2>1, <2>2, <2>3 DEF LoopInv, Looping
<1>9. CountInv'
  <2> SUFFICES ASSUME Sane
               PROVE  /\ setup'.num_test_cases =
                           Cardinality(Behind(Sizes \X Sizes, i, Half(j)))
                      /\ ~Psend => i = MaxSize
    BY <1>1, <1>4 DEF CountInv
  <2>1. PICK P : P = Sizes \X Sizes
    OBVIOUS
  <2>2. PICK a, b : a = i /\ b = j
    OBVIOUS
  <2>3. <<a, b>> \in P /\ b \in Sizes /\ a \in Int /\ Limits
    BY <1>2, <1>3, <1>7, <2>1, <2>2
  <2>4. Cardinality(Behind(P, a, Half(b))) = Cardinality(Behind(P, a, b)) + 1
    BY <2>1, <2>3, BehindCount
  <2> QED
    BY <1>1, <1>5, <2>1, <2>2, <2>4 DEF LoopVars, CountInv
<1>10. PatternsInv' /\ EntryInv' /\ ListInv' /\ EvenInv'
  <2>1. tests = <<>> /\ patterns = <<>>
    BY <1>1 DEF LoopVars, SetupInv, Looping
  <2>2. EvenInv'
    BY <1>1, <2>1, EvenStays DEF LoopVars
  <2> QED
    BY <1>1, <2>1, <2>2 DEF PatternsInv, EntryInv, ListInv
<1> QED
  BY <1>1, <1>2, <1>6, <1>8, <1>9, <1>10 DEF LoopVars

\* Where nothing follows.
LEMMA LostStep ==
  ASSUME TypeOK, LoopVars, CountForEver \/ BufferTooSmall \/ PatternOverruns
  PROVE  LoopVars' /\ i' \in Int /\ j' \in Int
<1>1. /\ pc \in {"count", "patterns"} /\ pc' \in {"endless", "undefined"}
      /\ pc' = "endless" => pc = "count"
      /\ args' = args /\ setup' = setup /\ debug' = debug
      /\ patterns' = patterns /\ tests' = tests /\ i' = i /\ j' = j
  BY DEF CountForEver, Counting, BufferTooSmall, Counted, PatternOverruns, parser
<1>2. /\ MinSize' = MinSize /\ Threads' = Threads
  BY <1>1, SameSetup
<1>3. SetupInv'
  BY <1>1, <1>2 DEF LoopVars, SetupInv, Looping
<1>4. tests = <<>>
  BY <1>1 DEF LoopVars, SetupInv, Looping
<1>5. LoopInv' /\ CountInv' /\ PatternsInv' /\ EntryInv' /\ ListInv'
  BY <1>1, <1>4 DEF LoopInv, Looping, CountInv, PatternsInv, EntryInv, ListInv
<1>6. EvenInv'
  BY <1>1, EvenStays DEF LoopVars
<1> QED
  BY <1>1, <1>3, <1>5, <1>6 DEF LoopVars, TypeOK

\* A failed assertion leaves nothing.
LEMMA AbortStep ==
  ASSUME TypeOK, LoopVars, PatternAborts \/ UnevenTest
  PROVE  LoopVars' /\ i' \in Int /\ j' \in Int
<1>1. /\ pc' = "aborted" /\ setup' = NoSetup /\ patterns' = <<>> /\ tests' = <<>>
      /\ i' = i /\ j' = j /\ debug' = debug
  BY DEF PatternAborts, UnevenTest, Abort
<1>2. EvenInv'
  BY <1>1, EvenStays DEF LoopVars
<1> QED
  BY <1>1, <1>2 DEF LoopVars, SetupInv, LoopInv, CountInv, PatternsInv, EntryInv,
                    ListInv, Looping, TypeOK

LEMMA CountNextSizeStep ==
  ASSUME TypeOK, LoopVars, CountNextSize
  PROVE  LoopVars' /\ i' \in Int /\ j' \in Int
<1>1. /\ pc = "count" /\ pc' = "count" /\ args' = args /\ setup' = setup
      /\ patterns' = patterns /\ tests' = tests
      /\ i' = Half(i) /\ j' = MaxSize /\ j < MinSize /\ Psend /\ i >= MinSize
      /\ debug' = debug
  BY DEF CountNextSize, parser
<1>2. i \in Int /\ j \in Int /\ Half(i) \in Int
  BY HalfType DEF TypeOK
<1>3. (Sane => Limits) /\ MinSize \in Int /\ MaxSize \in Int
  BY <1>1, SetupFields DEF LoopVars, Looping
<1>4. Sane /\ Limits
  BY <1>1, <1>2, <1>3 DEF LoopVars, LoopInv, Looping
<1>5. /\ MinSize' = MinSize /\ MaxSize' = MaxSize /\ Threads' = Threads
      /\ Psend' = Psend /\ Sizes' = Sizes /\ Sane' = Sane /\ OneRound' = OneRound
  BY <1>1, SameSetup
<1>6. SetupInv'
  BY <1>1, <1>5 DEF LoopVars, SetupInv, Looping
<1>7. i \in Sizes /\ MinSize <= MaxSize /\ MaxSize \in Sizes
  <2>1. i \in Sizes
    BY <1>1, <1>4 DEF LoopVars, LoopInv, Looping
  <2>2. MinSize <= MaxSize
    BY <1>4, <2>1, SizesArePositive
  <2> QED
    BY <1>4, <2>1, <2>2, LargestSize
<1>8. LoopInv'
  <2>1. Half(i) >= MinSize => Half(i) \in Sizes
    BY <1>4, <1>7, HalfIsNext
  <2>2. OneRound
    BY <1>1, <1>2, <1>3, <1>7 DEF LoopVars, LoopInv, Looping
  <2> QED
    BY <1>1, <1>4, <1>5, <1>7, <2>1, <2>2 DEF LoopInv, Looping
<1>9. CountInv'
  <2>1. PICK P : P = Sizes \X Sizes
    OBVIOUS
  <2>2. PICK a, b, c : a = i /\ b = j /\ c = MaxSize
    OBVIOUS
  <2>3. \A p \in P : p[2] \in Sizes
    BY <2>1
  <2>4. \A p \in P : p[2] > b /\ p[2] <= c
    BY <1>1, <1>2, <1>3, <1>4, <2>2, <2>3, SizesArePositive
  <2>5. Behind(P, Half(a), c) = Behind(P, a, b)
    BY <1>2, <1>3, <1>4, <1>7, <2>1, <2>2, <2>4, BehindOuter
  <2> QED
    BY <1>1, <1>4, <1>5, <2>1, <2>2, <2>5 DEF LoopVars, CountInv
<1>10. PatternsInv' /\ EntryInv' /\ ListInv' /\ EvenInv'
  <2>1. tests = <<>> /\ patterns = <<>>
    BY <1>1 DEF LoopVars, SetupInv, Looping
  <2>2. EvenInv'
    BY <1>1, <2>1, EvenStays DEF LoopVars
  <2> QED
    BY <1>1, <2>1, <2>2 DEF PatternsInv, EntryInv, ListInv
<1> QED
  BY <1>1, <1>2, <1>3, <1>6, <1>8, <1>9, <1>10 DEF LoopVars

LEMMA EndCountStep ==
  ASSUME TypeOK, LoopVars, EndCount
  PROVE  LoopVars' /\ i' \in Int /\ j' \in Int
<1>1. /\ pc = "count" /\ pc' = "patterns" /\ args' = args /\ setup' = setup
      /\ patterns' = patterns /\ tests' = tests
      /\ i' = MaxSize /\ j' = j /\ debug' = debug
      /\ IF Psend THEN i < MinSize ELSE j < MinSize
  BY DEF EndCount, Counted, parser
<1>2. i \in Int /\ j \in Int
  BY DEF TypeOK
<1>3. (Sane => Limits) /\ MinSize \in Int /\ MaxSize \in Int
  BY <1>1, SetupFields DEF LoopVars, Looping
<1>4. Sane /\ Limits
  BY <1>1, <1>2, <1>3 DEF LoopVars, LoopInv, Looping
<1>5. /\ MinSize' = MinSize /\ MaxSize' = MaxSize /\ Threads' = Threads
      /\ Psend' = Psend /\ Sizes' = Sizes /\ Sane' = Sane /\ OneRound' = OneRound
  BY <1>1, SameSetup
<1>6. tests = <<>> /\ patterns = <<>>
  BY <1>1 DEF LoopVars, SetupInv, Looping
<1>7. SetupInv'
  BY <1>1, <1>5, <1>6 DEF LoopVars, SetupInv, Looping
<1>8. LoopInv'
  <2>1. MinSize <= MaxSize => MaxSize \in Sizes /\ OneRound
    BY <1>1, <1>2, <1>3, <1>4, LargestSize DEF LoopVars, LoopInv, Looping
  <2> QED
    BY <1>1, <1>2, <1>3, <1>4, <1>5, <2>1 DEF LoopVars, LoopInv, Looping
<1>9. CountInv'
  <2>1. PICK P : P = Sizes \X Sizes
    OBVIOUS
  <2>2. PICK a, b : a = i /\ b = j
    OBVIOUS
  <2>3. setup.num_test_cases = Cardinality(Behind(P, a, b)) /\ (~Psend => i = MaxSize)
    BY <1>1, <1>4, <2>1, <2>2 DEF LoopVars, CountInv
  <2>4. CASE Psend
    <3>1. Behind(P, a, b) = P
      BY <1>1, <1>2, <1>4, <2>1, <2>2, <2>4, BehindEnd
    <3> QED
      BY <1>1, <1>5, <2>1, <2>3, <2>4, <3>1 DEF CountInv
  <2>5. CASE ~Psend
    <3>1. Behind(P, a, b) = {MaxSize} \X Sizes
      <4>1. a = MaxSize /\ b < MinSize
        BY <1>1, <2>2, <2>3, <2>5
      <4>2. \A t \in Sizes : t \in Nat /\ t > b /\ t <= MaxSize /\ MaxSize \in Sizes
        BY <1>2, <1>3, <1>4, <2>2, <4>1, SizesArePositive, LargestSize
      <4>3. ASSUME NEW p \in P, p[1] > a \/ (p[1] = a /\ p[2] > b)
            PROVE  p \in {MaxSize} \X Sizes
        <5>1. p[1] \in Sizes /\ p[2] \in Sizes /\ p = <<p[1], p[2]>>
          BY <2>1
        <5>2. p[1] = MaxSize
          BY <1>3, <4>1, <4>2, <4>3, <5>1
        <5> QED
          BY <5>1, <5>2
      <4>4. ASSUME NEW p \in {MaxSize} \X Sizes
            PROVE  p \in P /\ p[1] = a /\ p[2] > b
        <5>1. p[1] = MaxSize /\ p[2] \in Sizes /\ p = <<p[1], p[2]>>
          OBVIOUS
        <5> QED
          BY <2>1, <4>1, <4>2, <5>1
      <4> QED
        BY <4>3, <4>4 DEF Behind
    <3> QED
      BY <1>1, <1>5, <2>3, <2>5, <3>1 DEF CountInv
  <2> QED
    BY <2>4, <2>5
<1>10. PatternsInv'
  <2>1. Halves(MaxSize)[0] = MaxSize
    BY <1>3, HalvesDef
  <2>2. Len(patterns) = 0 /\ DOMAIN patterns = {}
    BY <1>6
  <2> QED
    BY <1>1, <1>5, <2>1, <2>2 DEF PatternsInv
<1>11. EntryInv' /\ ListInv' /\ EvenInv'
  <2>1. EvenInv'
    BY <1>1, <1>6, EvenStays DEF LoopVars
  <2> QED
    BY <1>1, <1>6, <2>1 DEF EntryInv, ListInv
<1> QED
  BY <1>1, <1>2, <1>3, <1>7, <1>8, <1>9, <1>10, <1>11 DEF LoopVars

\* Facts about the loops of test_cases_init, which leave the setup alone.
LEMMA InitLoops ==
  ASSUME TypeOK, LoopVars, pc \in {"patterns", "fill", "ready"}, setup' = setup
  PROVE  /\ Sane /\ Limits /\ MinSize \in Int /\ MaxSize \in Int /\ Threads \in Int
         /\ setup.buffer_size \in Int /\ setup \in SetupType
         /\ MinSize' = MinSize /\ MaxSize' = MaxSize /\ Threads' = Threads
         /\ Psend' = Psend /\ Allow1ToN' = Allow1ToN
         /\ Sizes' = Sizes /\ Wanted' = Wanted /\ Sane' = Sane
         /\ i \in Int /\ j \in Int
         /\ i >= MinSize => i \in Sizes
         /\ j >= MinSize => j \in Sizes
         /\ MinSize <= MaxSize => Threads > 0 /\ OneRound
         /\ OneRound' = OneRound
         /\ setup'.buffer_size = setup.buffer_size
         /\ Allow1ToN \in BOOLEAN
<1>1. Looping /\ pc # "count"
  BY DEF Looping
<1>2. Sane /\ (MinSize <= MaxSize => Threads > 0 /\ OneRound)
  BY <1>1 DEF LoopVars, LoopInv, OneRound
<1>3. /\ setup \in SetupType
      /\ MinSize \in Int /\ MaxSize \in Int /\ Threads \in Int
      /\ setup.buffer_size \in Int /\ Allow1ToN \in BOOLEAN
      /\ Sane => Limits
  BY <1>1, SetupFields DEF LoopVars
<1>4. i \in Int /\ j \in Int
  BY DEF TypeOK
<1>5. (i >= MinSize => i \in Sizes) /\ (j >= MinSize => j \in Sizes)
  BY <1>1, <1>2 DEF LoopVars, LoopInv
<1> QED
  BY <1>2, <1>3, <1>4, <1>5, SameSetup

LEMMA InitLoopsKeep ==
  ASSUME TypeOK, LoopVars, pc \in {"patterns", "fill", "ready"}, setup' = setup,
         args' = args, pc' \in {"patterns", "fill", "ready"},
         pc' = "patterns" => tests' = <<>>
  PROVE  SetupInv' /\ CountInv'
<1>1. SetupInv'
  BY InitLoops DEF LoopVars, SetupInv, Looping
<1>2. CountInv'
  <2>1. Psend' = Psend /\ MaxSize' = MaxSize /\ Sizes' = Sizes
    BY InitLoops
  <2>2. setup.num_test_cases =
          Cardinality((IF Psend THEN Sizes ELSE {MaxSize}) \X Sizes)
    BY DEF LoopVars, CountInv
  <2>3. setup'.num_test_cases =
          Cardinality((IF Psend' THEN Sizes' ELSE {MaxSize'}) \X Sizes')
    BY <2>1, <2>2
  <2> QED
    BY <2>3 DEF CountInv
<1> QED
  BY <1>1, <1>2

LEMMA MakePatternStep ==
  ASSUME TypeOK, LoopVars, MakePattern
  PROVE  LoopVars' /\ i' \in Int /\ j' \in Int /\ patterns' \in Seq(Int)
<1>1. /\ pc = "patterns" /\ pc' = "patterns" /\ args' = args /\ setup' = setup
      /\ patterns' = Append(patterns, i) /\ tests' = tests
      /\ i' = Half(i) /\ j' = j /\ i >= MinSize
      /\ debug' = debug /\ (debug => setup.buffer_size % i = 0)
  BY DEF MakePattern, PatternHolds, parser
<1>2. /\ Sane /\ Limits /\ MinSize \in Int /\ MaxSize \in Int /\ i \in Int /\ j \in Int
      /\ MinSize' = MinSize /\ MaxSize' = MaxSize /\ Threads' = Threads
      /\ Sizes' = Sizes /\ Sane' = Sane /\ i \in Sizes
      /\ j >= MinSize => j \in Sizes
      /\ MinSize <= MaxSize => OneRound
      /\ OneRound' = OneRound
  BY <1>1, InitLoops
<1>3. tests = <<>>
  BY <1>1 DEF LoopVars, SetupInv, Looping
<1>4. SetupInv' /\ CountInv'
  BY <1>1, <1>3, InitLoopsKeep
<1>5. Half(i) \in Int /\ (Half(i) >= MinSize => Half(i) \in Sizes)
  BY <1>2, HalfIsNext, HalfType
<1>6. LoopInv'
  BY <1>1, <1>2, <1>5 DEF LoopInv, Looping
<1>7. /\ patterns \in Seq(Int) /\ Len(patterns) \in Nat
      /\ DOMAIN patterns = 1 .. Len(patterns)
      /\ patterns' \in Seq(Int) /\ Len(patterns') = Len(patterns) + 1
      /\ DOMAIN patterns' = 1 .. Len(patterns) + 1
      /\ \A n \in 1 .. Len(patterns) : patterns'[n] = patterns[n]
      /\ patterns'[Len(patterns) + 1] = i
  BY <1>1, <1>2, AppendProperties DEF TypeOK
<1>8. PatternsInv'
  <2>1. i = Halves(MaxSize)[Len(patterns)]
    BY <1>1 DEF LoopVars, PatternsInv
  <2>2. Halves(MaxSize)[Len(patterns) + 1] = Half(i)
    BY <1>2, <1>7, <2>1, HalvesDef
  <2>3. ASSUME NEW n \in 1 .. Len(patterns) + 1
        PROVE  patterns'[n] = Halves(MaxSize)[n - 1]
    <3>1. CASE n \in 1 .. Len(patterns)
      BY <1>1, <1>7, <3>1 DEF LoopVars, PatternsInv
    <3>2. CASE n = Len(patterns) + 1
      BY <1>7, <2>1, <3>2
    <3> QED
      BY <1>7, <3>1, <3>2
  <2> QED
    BY <1>1, <1>2, <1>7, <2>2, <2>3 DEF PatternsInv
<1>9. EntryInv' /\ ListInv'
  BY <1>1, <1>3 DEF EntryInv, ListInv
<1>10. EvenInv'
  <2>1. ASSUME debug, NEW n \in 1 .. Len(patterns) + 1
        PROVE  setup.buffer_size % patterns'[n] = 0
    <3>1. CASE n \in 1 .. Len(patterns)
      BY <1>7, <2>1, <3>1 DEF LoopVars, EvenInv
    <3>2. CASE n = Len(patterns) + 1
      BY <1>1, <1>7, <2>1, <3>2
    <3> QED
      BY <1>7, <3>1, <3>2
  <2>2. tests' = <<>>
    BY <1>1, <1>3
  <2> QED
    BY <1>1, <1>7, <2>1, <2>2 DEF EvenInv
<1> QED
  BY <1>1, <1>2, <1>4, <1>5, <1>6, <1>7, <1>8, <1>9, <1>10 DEF LoopVars

LEMMA EndPatternsStep ==
  ASSUME TypeOK, LoopVars, EndPatterns
  PROVE  LoopVars' /\ i' \in Int /\ j' \in Int
<1>1. /\ pc = "patterns" /\ pc' = "fill" /\ args' = args /\ setup' = setup
      /\ patterns' = patterns /\ tests' = tests
      /\ i' = MaxSize /\ j' = MaxSize /\ i < MinSize /\ debug' = debug
  BY DEF EndPatterns, parser, MaxRecv
<1>2. /\ Sane /\ Limits /\ MinSize \in Int /\ MaxSize \in Int
      /\ MinSize' = MinSize /\ MaxSize' = MaxSize /\ Threads' = Threads
      /\ Allow1ToN' = Allow1ToN
      /\ Sizes' = Sizes /\ Wanted' = Wanted /\ Sane' = Sane
      /\ MinSize <= MaxSize => OneRound
      /\ OneRound' = OneRound
  BY <1>1, InitLoops
<1>3. tests = <<>>
  BY <1>1 DEF LoopVars, SetupInv, Looping
<1>4. SetupInv' /\ CountInv'
  BY <1>1, InitLoopsKeep
<1>5. LoopInv'
  BY <1>1, <1>2, LargestSize DEF LoopInv, Looping
<1>6. PatternsInv'
  BY <1>1, <1>2 DEF LoopVars, PatternsInv
<1>7. EntryInv' /\ EvenInv'
  <2>1. EvenInv'
    BY <1>1, EvenStays DEF LoopVars
  <2> QED
    BY <1>1, <1>3, <2>1 DEF EntryInv
<1>8. ListInv'
  <2>1. PICK P, m : P = Wanted /\ m = MaxSize
    OBVIOUS
  <2>2. P \in SUBSET (Sizes \X Sizes)
    BY <2>1 DEF Wanted
  <2>3. Behind(P, m, m) = {}
    BY <1>2, <2>1, <2>2, BehindStart
  <2>4. Behind(Wanted', i', j') = {} /\ Cardinality({}) = 0
    BY <1>1, <1>2, <2>1, <2>3, FS_EmptySet
  <2>5. Len(tests') = 0 /\ DOMAIN tests' = {}
    BY <1>1, <1>3
  <2> QED
    BY <1>1, <1>2, <2>4, <2>5 DEF ListInv
<1> QED
  BY <1>1, <1>2, <1>4, <1>5, <1>6, <1>7, <1>8 DEF LoopVars

\* The loops of a test in the list, when it is added or left out.
LEMMA FillingIsAt ==
  ASSUME TypeOK, LoopVars, Filling, setup' = setup
  PROVE  /\ i \in Sizes /\ j \in Sizes /\ i \in Nat /\ i > 0
         /\ Threads \in Int /\ Threads > 0 /\ setup.buffer_size \in Int /\ Limits
         /\ TooManyThreads <=> <<i, j>> \notin Wanted
         /\ ~Allow1ToN => i = j
         /\ Half(j) \in Nat /\ Half(j) < j
         /\ Half(j) >= MinSize => Half(j) \in Sizes
<1>1. pc = "fill" /\ i >= MinSize /\ j >= MinRecv(i)
  BY DEF Filling
<1>2. /\ Limits /\ MinSize \in Int /\ i \in Int /\ j \in Int /\ i \in Sizes
      /\ j >= MinSize => j \in Sizes
      /\ MinSize <= MaxSize => Threads > 0
      /\ Threads \in Int /\ setup.buffer_size \in Int
  BY <1>1, InitLoops
<1>3. i \in Nat /\ i > 0 /\ MinSize <= MaxSize
  BY <1>2, SizesArePositive
<1>4. IF Allow1ToN THEN j >= MinSize ELSE j >= i
  BY <1>1 DEF MinRecv, AllowNTo1, Allow1ToN
<1>5. j \in Sizes
  BY <1>1, <1>2, <1>4
<1>6. ~Allow1ToN => i = j
  <2>1. Allow1ToN \/ j <= i
    BY <1>1 DEF LoopVars, ListInv
  <2> QED
    BY <1>2, <1>4, <2>1
<1>7. TooManyThreads <=> <<i, j>> \notin Wanted
  <2>1. PICK b, t, s : b = setup.buffer_size /\ t = Threads /\ s = i
    OBVIOUS
  <2>2. b \div s \in Int /\ (t <= b \div s <=> t * s <= b)
    BY <1>2, <1>3, <2>1, Quotient
  <2>3. TooManyThreads <=> t > b \div s
    BY <2>1 DEF TooManyThreads, Count
  <2>4. TooManyThreads <=> ~(t * s <= b)
    BY <1>2, <2>1, <2>2, <2>3
  <2>5. <<i, j>> \in Wanted <=> t * s <= b
    BY <1>2, <1>5, <1>6, <2>1 DEF Wanted
  <2> QED
    BY <2>4, <2>5
<1>8. /\ Half(j) \in Nat /\ Half(j) < j
      /\ Half(j) >= MinSize => Half(j) \in Sizes
  BY <1>2, <1>5, HalfIsNext
<1> QED
  BY <1>2, <1>3, <1>5, <1>6, <1>7, <1>8

\* What does not change when the loops of the list go on.
LEMMA FillKeeps ==
  ASSUME TypeOK, LoopVars, pc \in {"fill", "ready"}, pc' \in {"fill", "ready"},
         setup' = setup, args' = args, patterns' = patterns,
         i' \in Int, j' \in Int,
         i' >= MinSize => i' \in Sizes,
         j' >= MinSize => j' \in Sizes
  PROVE  SetupInv' /\ LoopInv' /\ CountInv' /\ PatternsInv'
<1>1. SetupInv' /\ CountInv'
  BY InitLoopsKeep
<1>2. /\ Sane /\ MinSize' = MinSize /\ MaxSize' = MaxSize /\ Threads' = Threads
      /\ Sizes' = Sizes /\ Sane' = Sane
      /\ MinSize <= MaxSize => OneRound
      /\ OneRound' = OneRound
  BY InitLoops
<1>3. LoopInv'
  BY <1>2 DEF LoopInv, Looping
<1>4. PatternsInv'
  BY <1>2 DEF LoopVars, PatternsInv
<1> QED
  BY <1>1, <1>3, <1>4

LEMMA ConsistentStays ==
  ASSUME setup' = setup, NEW t
  PROVE  Consistent(t)' <=> Consistent(t)
<1>1. /\ Sizes' = Sizes /\ Threads' = Threads /\ MaxSize' = MaxSize
      /\ setup'.buffer_size = setup.buffer_size
  BY SameSetup
<1> QED
  BY <1>1 DEF Consistent, IndexOf, Count

LEMMA EntriesStay ==
  ASSUME EntryInv, setup' = setup, tests' = tests
  PROVE  EntryInv'
<1>1. ASSUME NEW n \in DOMAIN tests PROVE Consistent(tests[n])'
  <2>1. PICK t : t = tests[n]
    OBVIOUS
  <2>2. Consistent(t)
    BY <2>1 DEF EntryInv
  <2>3. Consistent(t)'
    BY <2>2, ConsistentStays
  <2> QED
    BY <2>1, <2>3 DEF Consistent
<1> QED
  BY <1>1 DEF EntryInv

\* The entry for the sizes at which the loops are.
LEMMA TestCaseIsConsistent ==
  ASSUME TypeOK, LoopVars, Filling, ~TooManyThreads, setup' = setup
  PROVE  /\ TestCase \in TestType /\ Consistent(TestCase)
         /\ TestCase.partition_size = i /\ TestCase.partition_size_recv = j
<1>1. /\ i \in Sizes /\ j \in Sizes /\ i \in Nat /\ i > 0
      /\ Threads \in Int /\ Threads > 0 /\ setup.buffer_size \in Int /\ Limits
  BY FillingIsAt
<1>2. setup \in SetupType
  BY InitLoops DEF Filling
<1>3. j \in Nat /\ j > 0
  BY <1>1, SizesArePositive
<1>4. Count(i) \in Int /\ Count(j) \in Int
  BY <1>1, <1>3 DEF Count
<1>5. IndexOf(i) \in Int /\ IndexOf(j) \in Int
  BY <1>1, IndexIsRound
<1>6. Mode \in {Modes[m] : m \in DOMAIN Modes}
  BY <1>2 DEF Mode, SetupType
<1>7. TestCase = [mode |-> Mode,
                  send_pattern |-> IndexOf(i), recv_pattern |-> IndexOf(j),
                  partition_size |-> i, partition_size_recv |-> j,
                  partition_count |-> Count(i), partition_count_recv |-> Count(j),
                  thread_count |-> Threads,
                  partitions_per_thread |-> (Count(i) + Threads - 1) \div Threads]
  <2>1. ~(Count(i) < Threads)
    BY <1>1, <1>4 DEF TooManyThreads
  <2> QED
    BY <2>1 DEF TestCase
<1>8. (Count(i) + Threads - 1) \div Threads \in Int
  BY <1>1, <1>4
<1>9. TestCase \in TestType
  BY <1>1, <1>3, <1>4, <1>5, <1>6, <1>7, <1>8 DEF TestType
<1>10. Consistent(TestCase)
  BY <1>1, <1>7 DEF Consistent
<1> QED
  BY <1>7, <1>9, <1>10

LEMMA AddTestStep ==
  ASSUME TypeOK, LoopVars, AddTest
  PROVE  LoopVars' /\ i' \in Int /\ j' \in Int
<1>1. /\ pc = "fill" /\ pc' = "fill" /\ args' = args /\ setup' = setup
      /\ patterns' = patterns /\ i' = i /\ j' = Half(j)
      /\ Filling /\ ~TooManyThreads
      /\ debug' = debug /\ (debug => Even(TestCase))
      /\ tests' = Append(tests, TestCase)
  BY DEF AddTest, Filling, parser
<1>2. /\ i \in Sizes /\ j \in Sizes /\ i \in Nat /\ Limits
      /\ <<i, j>> \in Wanted
      /\ ~Allow1ToN => i = j
      /\ Half(j) \in Nat /\ Half(j) < j
      /\ Half(j) >= MinSize => Half(j) \in Sizes
  BY <1>1, FillingIsAt
<1>3. /\ Sizes' = Sizes /\ Wanted' = Wanted /\ Allow1ToN' = Allow1ToN
      /\ MinSize' = MinSize /\ j \in Int
  BY <1>1, InitLoops
<1>4. SetupInv' /\ LoopInv' /\ CountInv' /\ PatternsInv'
  BY <1>1, <1>2, <1>3, FillKeeps
<1>5. PICK t : t = TestCase
  OBVIOUS
<1>6. /\ t \in TestType /\ Consistent(t)
      /\ t.partition_size = i /\ t.partition_size_recv = j
  BY <1>1, <1>5, TestCaseIsConsistent
<1>7. /\ tests \in Seq(TestType) /\ Len(tests) \in Nat
      /\ DOMAIN tests = 1 .. Len(tests)
      /\ tests' \in Seq(TestType) /\ Len(tests') = Len(tests) + 1
      /\ DOMAIN tests' = 1 .. Len(tests) + 1
      /\ \A n \in 1 .. Len(tests) : tests'[n] = tests[n]
      /\ tests'[Len(tests) + 1] = t
  BY <1>1, <1>5, <1>6, AppendProperties DEF LoopVars, EntryInv
<1>8. EntryInv'
  <2>1. ASSUME NEW n \in DOMAIN tests' PROVE Consistent(tests[n])'
    <3>1. PICK e : e = tests'[n]
      OBVIOUS
    <3>2. Consistent(e)
      BY <1>6, <1>7, <3>1 DEF LoopVars, EntryInv
    <3>3. Consistent(e)'
      BY <1>1, <3>2, ConsistentStays
    <3> QED
      BY <3>1, <3>3 DEF Consistent
  <2> QED
    BY <1>7, <2>1 DEF EntryInv
<1>10. EvenInv'
  <2>1. ASSUME debug, NEW n \in DOMAIN tests' PROVE Even(tests'[n])
    BY <1>1, <1>5, <1>7, <2>1 DEF LoopVars, EvenInv
  <2>2. ASSUME debug, NEW n \in DOMAIN patterns PROVE setup.buffer_size % patterns[n] = 0
    BY <2>2 DEF LoopVars, EvenInv
  <2> QED
    BY <1>1, <2>1, <2>2 DEF EvenInv, Even
<1>9. ListInv'
  <2>1. PICK P, a, b : P = Wanted /\ a = i /\ b = j
    OBVIOUS
  <2>2. P \in SUBSET (Sizes \X Sizes)
    BY <2>1 DEF Wanted
  <2>3. /\ Behind(P, a, Half(b)) = Behind(P, a, b) \cup {<<a, b>>}
        /\ <<a, b>> \notin Behind(P, a, b)
        /\ Cardinality(Behind(P, a, Half(b))) = Cardinality(Behind(P, a, b)) + 1
    <3>1. a \in Int /\ b \in Sizes /\ <<a, b>> \in P
      BY <1>2, <2>1
    <3>2. /\ Behind(P, a, Half(b)) = Behind(P, a, b) \cup (P \cap {<<a, b>>})
          /\ <<a, b>> \notin Behind(P, a, b)
      BY <1>2, <2>2, <3>1, BehindInner
    <3>3. Cardinality(Behind(P, a, Half(b))) = Cardinality(Behind(P, a, b)) + 1
      BY <1>2, <2>2, <3>1, BehindCount
    <3>4. P \cap {<<a, b>>} = {<<a, b>>}
      BY <3>1
    <3> QED
      BY <3>2, <3>3, <3>4
  <2> DEFINE pair(n) == <<tests[n].partition_size, tests[n].partition_size_recv>>
             next(n) == <<tests'[n].partition_size, tests'[n].partition_size_recv>>
             last == Len(tests) + 1
  <2>4. /\ {pair(n) : n \in DOMAIN tests} = Behind(P, a, b)
        /\ \A m, n \in DOMAIN tests : pair(m) = pair(n) => m = n
        /\ Len(tests) = Cardinality(Behind(P, a, b))
        /\ Allow1ToN \/ j <= i
    BY <1>1, <2>1 DEF LoopVars, ListInv
  <2>5. \A n \in DOMAIN tests : next(n) = pair(n)
    BY <1>7
  <2>6. next(last) = <<a, b>>
    BY <1>6, <1>7, <2>1
  <2>7. \A n \in DOMAIN tests : pair(n) # <<a, b>>
    BY <2>3, <2>4
  <2>8. DOMAIN tests' = DOMAIN tests \cup {last} /\ last \notin DOMAIN tests
    BY <1>7
  <2> HIDE DEF pair, next, last
  <2>9. {next(n) : n \in DOMAIN tests'} = Behind(P, a, Half(b))
    BY <2>3, <2>4, <2>5, <2>6, <2>8
  <2>10. \A m, n \in DOMAIN tests' : next(m) = next(n) => m = n
    BY <2>4, <2>5, <2>6, <2>7, <2>8
  <2>11. Behind(Wanted', i', j') = Behind(P, a, Half(b))
    BY <1>1, <1>3, <2>1
  <2>12. Len(tests') = Cardinality(Behind(P, a, Half(b)))
    BY <1>7, <2>3, <2>4
  <2>13. Allow1ToN' \/ j' <= i'
    BY <1>1, <1>2, <1>3, <2>4
  <2> QED
    BY <1>1, <2>9, <2>10, <2>11, <2>12, <2>13 DEF ListInv, next
<1> QED
  BY <1>1, <1>2, <1>3, <1>4, <1>8, <1>9, <1>10 DEF LoopVars

\* The next place of the loops, with the list as it was.
LEMMA ListStays ==
  ASSUME TypeOK, LoopVars, pc = "fill", pc' \in {"fill", "ready"}, setup' = setup,
         tests' = tests, patterns' = patterns, debug' = debug,
         Behind(Wanted, i', j') = Behind(Wanted, i, j),
         Allow1ToN \/ j' <= i', pc' = "ready" => i' < MinSize
  PROVE  EntryInv' /\ EvenInv' /\ ListInv'
<1>1. Wanted' = Wanted /\ Allow1ToN' = Allow1ToN /\ MinSize' = MinSize
  BY InitLoops
<1>2. EntryInv'
  BY EntriesStay DEF LoopVars
<1>4. EvenInv'
  BY EvenStays DEF LoopVars
<1>3. Behind(Wanted', i', j') = Behind(Wanted, i, j)
  BY <1>1
<1> QED
  BY <1>1, <1>2, <1>3, <1>4 DEF LoopVars, ListInv

LEMMA LeaveOutTestStep ==
  ASSUME TypeOK, LoopVars, LeaveOutTest
  PROVE  LoopVars' /\ i' \in Int /\ j' \in Int
<1>1. /\ pc = "fill" /\ pc' = "fill" /\ args' = args /\ setup' = setup
      /\ patterns' = patterns /\ tests' = tests /\ i' = i /\ j' = Half(j)
      /\ Filling /\ TooManyThreads /\ debug' = debug
  BY DEF LeaveOutTest, Filling, parser
<1>2. /\ i \in Sizes /\ j \in Sizes /\ i \in Nat /\ Limits
      /\ <<i, j>> \notin Wanted
      /\ ~Allow1ToN => i = j
      /\ Half(j) \in Nat /\ Half(j) < j
      /\ Half(j) >= MinSize => Half(j) \in Sizes
  BY <1>1, FillingIsAt
<1>3. Sizes' = Sizes /\ MinSize' = MinSize /\ j \in Int
  BY <1>1, InitLoops
<1>4. SetupInv' /\ LoopInv' /\ CountInv' /\ PatternsInv'
  BY <1>1, <1>2, <1>3, FillKeeps
<1>5. Behind(Wanted, i', j') = Behind(Wanted, i, j)
  <2>1. PICK P, a, b : P = Wanted /\ a = i /\ b = j
    OBVIOUS
  <2>2. P \in SUBSET (Sizes \X Sizes)
    BY <2>1 DEF Wanted
  <2>3. Behind(P, a, Half(b)) = Behind(P, a, b) \cup (P \cap {<<a, b>>})
    BY <1>2, <2>1, <2>2, BehindInner
  <2>4. P \cap {<<a, b>>} = {}
    BY <1>2, <2>1
  <2>5. \A S, T, U : S = T \cup U /\ U = {} => S = T
    OBVIOUS
  <2>6. Behind(P, a, Half(b)) = Behind(P, a, b)
    BY <2>3, <2>4, <2>5, Zenon
  <2> QED
    BY <1>1, <2>1, <2>6
<1>6. Allow1ToN \/ j' <= i'
  BY <1>1, <1>2, <1>3
<1>7. EntryInv' /\ EvenInv' /\ ListInv'
  BY <1>1, <1>5, <1>6, ListStays
<1> QED
  BY <1>1, <1>2, <1>3, <1>4, <1>7 DEF LoopVars

LEMMA NextSizeStep ==
  ASSUME TypeOK, LoopVars, NextSize
  PROVE  LoopVars' /\ i' \in Int /\ j' \in Int
<1>1. /\ pc = "fill" /\ pc' = "fill" /\ args' = args /\ setup' = setup
      /\ patterns' = patterns /\ tests' = tests
      /\ i' = Half(i) /\ j' = MaxRecv(Half(i))
      /\ i >= MinSize /\ j < MinRecv(i) /\ debug' = debug
  BY DEF NextSize, parser
<1>2. /\ Limits /\ MinSize \in Int /\ MaxSize \in Int /\ i \in Sizes /\ j \in Int
      /\ Sizes' = Sizes /\ MinSize' = MinSize
  BY <1>1, InitLoops
<1>3. i \in Nat /\ MinSize <= MaxSize
  BY <1>2, SizesArePositive
<1>4. /\ Half(i) \in Nat /\ Half(i) < i
      /\ Half(i) >= MinSize => Half(i) \in Sizes
      /\ \A t \in Sizes : t < i <=> t <= Half(i)
  BY <1>2, HalfIsNext
<1>5. MaxSize \in Sizes
  BY <1>2, <1>3, LargestSize
<1>6. j' = IF Allow1ToN THEN MaxSize ELSE Half(i)
  BY <1>1 DEF MaxRecv
<1>7. j < IF Allow1ToN THEN MinSize ELSE i
  BY <1>1 DEF MinRecv, AllowNTo1, Allow1ToN
<1>8. SetupInv' /\ LoopInv' /\ CountInv' /\ PatternsInv'
  <2>1. i' \in Int /\ j' \in Int
    BY <1>1, <1>2, <1>4, <1>6
  <2>2. (i' >= MinSize => i' \in Sizes) /\ (j' >= MinSize => j' \in Sizes)
    BY <1>1, <1>4, <1>5, <1>6
  <2> QED
    BY <1>1, <2>1, <2>2, FillKeeps
<1>9. Behind(Wanted, i', j') = Behind(Wanted, i, j)
  <2>1. PICK P, a, b, c : P = Wanted /\ a = i /\ b = j /\ c = j'
    OBVIOUS
  <2>2. P \in SUBSET (Sizes \X Sizes) /\ a \in Sizes /\ b \in Int /\ c \in Int
    BY <1>2, <1>4, <1>6, <2>1 DEF Wanted
  <2>3. ASSUME NEW p \in P
        PROVE  (p[1] = a => p[2] > b) /\ (p[1] = Half(a) => p[2] <= c)
    <3>1. p[1] \in Sizes /\ p[2] \in Sizes /\ (Allow1ToN \/ p[1] = p[2])
      BY <2>1, <2>3 DEF Wanted
    <3>2. p[2] \in Nat /\ MinSize <= p[2] /\ p[2] <= MaxSize
      BY <1>2, <3>1, SizesArePositive
    <3> QED
      BY <1>2, <1>3, <1>4, <1>6, <1>7, <2>1, <3>1, <3>2
  <2>4. Behind(P, Half(a), c) = Behind(P, a, b)
    BY <1>2, <2>2, <2>3, BehindOuter
  <2> QED
    BY <1>1, <2>1, <2>4
<1>10. Allow1ToN \/ j' <= i'
  BY <1>1, <1>4, <1>6
<1>11. EntryInv' /\ EvenInv' /\ ListInv'
  BY <1>1, <1>9, <1>10, ListStays
<1> QED
  BY <1>1, <1>2, <1>4, <1>6, <1>8, <1>11 DEF LoopVars

LEMMA EndFillStep ==
  ASSUME TypeOK, LoopVars, EndFill
  PROVE  LoopVars' /\ i' \in Int /\ j' \in Int
<1>1. /\ pc = "fill" /\ pc' = "ready" /\ args' = args /\ setup' = setup
      /\ patterns' = patterns /\ tests' = tests /\ i' = i /\ j' = j /\ i < MinSize
      /\ debug' = debug
  BY DEF EndFill, parser
<1>2. /\ i \in Int /\ j \in Int
      /\ i >= MinSize => i \in Sizes
      /\ j >= MinSize => j \in Sizes
  BY <1>1, InitLoops
<1>3. SetupInv' /\ LoopInv' /\ CountInv' /\ PatternsInv'
  BY <1>1, <1>2, FillKeeps
<1>4. Allow1ToN \/ j' <= i'
  BY <1>1 DEF LoopVars, ListInv
<1>5. EntryInv' /\ EvenInv' /\ ListInv'
  BY <1>1, <1>4, ListStays
<1> QED
  BY <1>1, <1>2, <1>3, <1>5 DEF LoopVars

-------------------------------------------------------------------------------
(* The invariant.                                                          *)

LEMMA InitInv == Init => IInv
<1> SUFFICES ASSUME Init PROVE IInv
  OBVIOUS
<1>1. /\ line \in CommandLines /\ optind = 1 /\ args = Defaults
      /\ given = NotGiven /\ seen = NotGiven /\ pc = "parse"
      /\ setup = NoSetup /\ i = 0 /\ j = 0 /\ patterns = <<>> /\ tests = <<>>
      /\ debug \in BOOLEAN
  BY DEF Init, ParserInit
<1>2. Len(line) \in Nat
  BY <1>1, CommandLinesAssumption
<1>3. TypeOK
  BY <1>1, <1>2 DEF TypeOK, NotGiven
<1>4. ParserInv
  <2>1. Past = {}
    BY <1>1 DEF Past
  <2>2. \A o \in OptionNames : seen[o] = 0 /\ args[o] = Defaults[o]
    BY <1>1 DEF NotGiven
  <2>3. DOMAIN args = OptionNames /\ \A o \in IntOptions : args[o] \in Int
    BY <1>1, Names
  <2> QED
    BY <1>1, <2>1, <2>2, <2>3 DEF ParserInv
<1>5. /\ SetupInv /\ LoopInv /\ CountInv /\ PatternsInv
      /\ EntryInv /\ EvenInv /\ ListInv
  BY <1>1 DEF SetupInv, LoopInv, CountInv, PatternsInv, EntryInv, EvenInv, ListInv,
              Looping
<1> QED
  BY <1>3, <1>4, <1>5 DEF IInv

\* Before there is a setup the invariants of the loops say that nothing is there.
LEMMA ParserKeepsLoops ==
  ASSUME LoopVars, pc = "parse", pc' \in {"parse", "parsed", "failed", "informed"},
         UNCHANGED <<debug, setup, i, j, patterns, tests>>
  PROVE  LoopVars'
<1>1. setup = NoSetup /\ patterns = <<>> /\ tests = <<>>
  BY DEF LoopVars, SetupInv, Looping
<1>2. EvenInv'
  BY <1>1, EvenStays DEF LoopVars
<1> QED
  BY <1>1, <1>2 DEF LoopVars, SetupInv, LoopInv, CountInv, PatternsInv, EntryInv, ListInv,
              Looping

\* The actions behind the parser.
LEMMA SetupStep ==
  ASSUME IInv,
         \/ MakeSetup
         \/ CountTest \/ CountForEver \/ CountNextSize \/ EndCount \/ BufferTooSmall
         \/ MakePattern \/ PatternAborts \/ PatternOverruns \/ EndPatterns
         \/ AddTest \/ UnevenTest \/ LeaveOutTest \/ NextSize \/ EndFill
  PROVE  IInv'
<1>1. TypeOK /\ ParserInv /\ LoopVars
  BY DEF IInv, LoopVars
<1>2. /\ UNCHANGED parser /\ debug' = debug
      /\ pc \notin {"parse", "failed", "informed"}
      /\ pc' \in {"count", "patterns", "fill", "ready", "endless", "undefined",
                  "aborted"}
  BY DEF MakeSetup, CountTest, CountForEver, CountNextSize, EndCount, BufferTooSmall,
         MakePattern, PatternAborts, PatternOverruns, EndPatterns, AddTest, UnevenTest,
         LeaveOutTest, NextSize, EndFill, Counting, Counted, Filling, Abort
<1>3. LoopVars' /\ i' \in Int /\ j' \in Int
  BY <1>1, MakeSetupStep, CountTestStep, CountNextSizeStep,
     EndCountStep, MakePatternStep, EndPatternsStep, AddTestStep,
     LeaveOutTestStep, NextSizeStep, EndFillStep, LostStep, AbortStep
<1>4. patterns' \in Seq(Int)
  <2>1. CASE MakePattern
    BY <1>1, <2>1, MakePatternStep
  <2>2. CASE ~MakePattern
    <3>1. patterns' = patterns \/ patterns' = <<>>
      BY <2>2 DEF MakeSetup, CountTest, CountForEver, CountNextSize, EndCount,
                  BufferTooSmall, PatternAborts, PatternOverruns, EndPatterns, AddTest,
                  UnevenTest, LeaveOutTest, NextSize, EndFill, Abort
    <3>2. patterns \in Seq(Int) /\ <<>> \in Seq(Int)
      BY <1>1 DEF TypeOK
    <3> QED
      BY <3>1, <3>2
  <2> QED
    BY <2>1, <2>2
<1>5. ParserInv'
  BY <1>1, <1>2, ParserStays
<1>6. TypeOK'
  BY <1>1, <1>2, <1>3, <1>4 DEF TypeOK, parser, Stopped
<1> QED
  BY <1>3, <1>5, <1>6 DEF IInv, LoopVars

LEMMA StutterStep ==
  ASSUME IInv, UNCHANGED vars
  PROVE  IInv'
<1>1. TypeOK' /\ ParserInv'
  BY DEF IInv, vars, parser, TypeOK, Stopped, ParserInv, Past, Item, Erroneous,
         Informing, Naming, Parsed
<1>2. /\ MinSize' = MinSize /\ MaxSize' = MaxSize /\ Threads' = Threads
      /\ Psend' = Psend /\ Allow1ToN' = Allow1ToN
      /\ Sizes' = Sizes /\ Wanted' = Wanted /\ Sane' = Sane /\ OneRound' = OneRound
  BY SameSetup DEF vars
<1>3. SetupInv' /\ LoopInv' /\ CountInv' /\ PatternsInv' /\ ListInv'
  BY <1>2 DEF IInv, vars, parser, SetupInv, LoopInv, CountInv, PatternsInv, ListInv,
              Looping
<1>4. EntryInv'
  BY EntriesStay DEF IInv, vars
<1>5. EvenInv'
  BY EvenStays DEF IInv, vars
<1> QED
  BY <1>1, <1>3, <1>4, <1>5 DEF IInv

LEMMA NextInv ==
  ASSUME IInv, [Next]_vars
  PROVE  IInv'
<1>1. CASE Parser /\ UNCHANGED <<debug, setup, i, j, patterns, tests>>
  <2>1. TypeOK /\ ParserInv /\ LoopVars
    BY DEF IInv, LoopVars
  <2>2. /\ ParserInv'
        /\ line' \in CommandLines /\ optind' \in 1 .. Len(line') + 1
        /\ given' \in [OptionNames -> Nat] /\ seen' = given'
        /\ pc = "parse" /\ pc' \in {"parse", "parsed", "failed", "informed"}
    BY <1>1, <2>1, ParserStep
  <2>3. LoopVars'
    BY <1>1, <2>1, <2>2, ParserKeepsLoops
  <2>4. TypeOK'
    BY <1>1, <2>1, <2>2 DEF TypeOK, Stopped
  <2> QED
    BY <2>2, <2>3, <2>4 DEF IInv, LoopVars
<1>2. CASE UNCHANGED vars
  BY <1>2, StutterStep
<1>3. CASE \/ MakeSetup
           \/ CountTest \/ CountForEver \/ CountNextSize \/ EndCount \/ BufferTooSmall
           \/ MakePattern \/ PatternAborts \/ PatternOverruns \/ EndPatterns
           \/ AddTest \/ UnevenTest \/ LeaveOutTest \/ NextSize \/ EndFill
  BY <1>3, SetupStep
<1> QED
  BY <1>1, <1>2, <1>3 DEF Next, Startup

(* The program never leaves the inductive invariant: what the parser has   *)
(* stored, where the loops of make_setup and test_cases_init are, and what *)
(* is in the tables they fill belong together, for every set of command    *)
(* lines and every width of an int.                                        *)
THEOREM Invariance == Spec => []IInv
<1>1. Init => IInv
  BY InitInv
<1>2. IInv /\ [Next]_vars => IInv'
  BY NextInv
<1> QED
  BY <1>1, <1>2, PTL DEF Spec

(* Each variable of the program keeps to its type, and an option is given  *)
(* in args_info as often as in local_args_info: the check for a repeated   *)
(* option (cmdline.c:427) catches each one that line 442 would drop.       *)
THEOREM TypeCorrect == Spec => []TypeOK
<1>1. IInv => TypeOK
  BY DEF IInv
<1> QED
  BY <1>1, Invariance, PTL

(* The parser accepts a command line if and only if nothing is wrong       *)
(* anywhere in it, stops at the first thing that is, and what it accepts   *)
(* is in args_info: each option with the value given or its default, and   *)
(* a number as an int can hold it (cmdline.c:407-495, 550-706).            *)
THEOREM OptionsAreParsed == Spec => []ParsedAsGiven
<1>1. IInv => ParsedAsGiven
  BY ParserResult DEF IInv
<1> QED
  BY <1>1, Invariance, PTL

LEMMA CountBoundsList ==
  ASSUME IInv
  PROVE  ListFits
<1> SUFFICES ASSUME setup # NoSetup, pc # "count"
             PROVE  Len(tests) <= setup.num_test_cases
  BY DEF ListFits
<1>1. TypeOK /\ LoopVars
  BY DEF IInv, LoopVars
<1>2. Looping \/ pc \in {"endless", "undefined"}
  BY <1>1 DEF LoopVars, SetupInv
<1>3. CASE pc \in {"patterns", "endless", "undefined"}
  <2>1. tests = <<>> /\ setup.num_test_cases \in Nat
    BY <1>1, <1>2, <1>3, SetupFields DEF LoopVars, SetupInv
  <2> QED
    BY <2>1
<1>4. CASE pc \in {"fill", "ready"}
  <2>1. /\ Len(tests) = Cardinality(Behind(Wanted, i, j))
        /\ setup.num_test_cases =
             Cardinality((IF Psend THEN Sizes ELSE {MaxSize}) \X Sizes)
    BY <1>1, <1>4 DEF LoopVars, ListInv, CountInv
  <2>2. Limits
    BY <1>1, <1>2, <1>4, SetupFields DEF LoopVars, LoopInv
  <2>3. IsFiniteSet(Wanted)
    <3>1. IsFiniteSet(Sizes \X Sizes)
      BY <2>2, SizesArePositive, FS_Product
    <3>2. Wanted \in SUBSET (Sizes \X Sizes)
      BY DEF Wanted
    <3> QED
      BY <3>1, <3>2, FS_Subset
  <2>4. Behind(Wanted, i, j) \in SUBSET Wanted
    BY DEF Behind
  <2>5. /\ Cardinality(Behind(Wanted, i, j)) <= Cardinality(Wanted)
        /\ Cardinality(Behind(Wanted, i, j)) \in Nat
    BY <2>3, <2>4, FS_Subset, FS_CardinalityType
  <2> QED
    BY <2>1, <2>2, <2>5, WantedAreCounted
<1> QED
  BY <1>2, <1>3, <1>4 DEF Looping

(* test_cases_init writes no entry behind the memory that make_setup has   *)
(* counted it to need (setups.c:41-50, test_cases.c:172-193), though the   *)
(* two count in different loops: each test in the list is a different pair *)
(* of sizes, and no more pairs are wanted than make_setup has counted.     *)
THEOREM ListNeverOverflows == Spec => []ListFits
<1>1. IInv => ListFits
  BY CountBoundsList
<1> QED
  BY <1>1, Invariance, PTL

LEMMA LookupFindsPattern ==
  ASSUME IInv
  PROVE  PatternsOfSizes
<1> SUFFICES ASSUME NEW n \in DOMAIN tests
             PROVE  LET t == tests[n]
                    IN  /\ {t.send_pattern + 1, t.recv_pattern + 1} \subseteq DOMAIN patterns
                        /\ patterns[t.send_pattern + 1] = t.partition_size
                        /\ patterns[t.recv_pattern + 1] = t.partition_size_recv
  BY DEF PatternsOfSizes
<1>1. TypeOK /\ LoopVars /\ Consistent(tests[n])
  BY DEF IInv, LoopVars, EntryInv
<1>2. pc \in {"fill", "ready"}
  BY <1>1 DEF LoopVars, SetupInv, Looping
<1>3. Limits
  BY <1>1, <1>2, SetupFields DEF LoopVars, LoopInv, Looping
<1>4. Len(patterns) \in Nat /\ DOMAIN patterns = 1 .. Len(patterns)
  BY <1>1, LenProperties DEF TypeOK
<1>5. /\ \A m \in DOMAIN patterns : patterns[m] = Halves(MaxSize)[m - 1]
      /\ Halves(MaxSize)[Len(patterns)] < MinSize
  BY <1>1, <1>2 DEF LoopVars, PatternsInv
<1>6. ASSUME NEW s \in Sizes
      PROVE  IndexOf(s) + 1 \in DOMAIN patterns /\ patterns[IndexOf(s) + 1] = s
  <2>1. IndexOf(s) \in Nat /\ Halves(MaxSize)[IndexOf(s)] = s
    BY <1>3, IndexIsRound
  <2>2. MaxSize \in Nat /\ s \in Nat /\ s >= MinSize /\ MinSize \in Int
    BY <1>3, SizesArePositive
  <2>3. ~(Len(patterns) <= IndexOf(s))
    <3>1. Len(patterns) <= IndexOf(s) =>
            Halves(MaxSize)[IndexOf(s)] <= Halves(MaxSize)[Len(patterns)]
      BY <1>4, <2>1, <2>2, HalvesMonotone
    <3>2. Halves(MaxSize)[Len(patterns)] \in Nat
      BY <1>4, <2>2, HalvesDown
    <3> QED
      BY <1>5, <2>1, <2>2, <3>1, <3>2
  <2>4. IndexOf(s) + 1 \in DOMAIN patterns /\ (IndexOf(s) + 1) - 1 = IndexOf(s)
    BY <1>4, <2>1, <2>3
  <2> QED
    BY <1>5, <2>1, <2>4
<1> QED
  BY <1>1, <1>6 DEF Consistent

(* Each test in the list has the partition patterns of its own sizes: the  *)
(* lookup of test_cases_send_pattern never reads behind the table that the *)
(* loop before has filled, and its assertion holds (test_cases.c:106-112). *)
THEOREM TestsHaveTheirPatterns == Spec => []PatternsOfSizes
<1>1. IInv => PatternsOfSizes
  BY LookupFindsPattern
<1> QED
  BY <1>1, Invariance, PTL

LEMMA EndIsComplete ==
  ASSUME IInv
  PROVE  ListIsComplete
<1> SUFFICES ASSUME pc = "ready" PROVE ListIsComplete
  BY DEF ListIsComplete
<1>1. TypeOK /\ LoopVars
  BY DEF IInv, LoopVars
<1>2. Limits
  BY <1>1, SetupFields DEF LoopVars, LoopInv, Looping
<1>3. i \in Int /\ j \in Int /\ i < MinSize
  BY <1>1 DEF TypeOK, LoopVars, ListInv
<1>4. Behind(Wanted, i, j) = Wanted
  <2>1. PICK P, a, b : P = Wanted /\ a = i /\ b = j
    OBVIOUS
  <2>2. P \in SUBSET (Sizes \X Sizes)
    BY <2>1 DEF Wanted
  <2> QED
    BY <1>2, <1>3, <2>1, <2>2, BehindEnd
<1> DEFINE Equal == {p \in Sizes \X Sizes : p[1] = p[2]}
<1>5. Allow1ToN <=> On("allow_1_to_n")
  BY <1>1 DEF LoopVars, SetupInv, Looping, Allow1ToN, On
<1>6. ASSUME NEW p \in Sizes \X Sizes
      PROVE  /\ p[1] = p[2] => (p \in Wanted <=> p \in Asked)
             /\ On("allow_1_to_n") = On("allow_n_to_1")
                  => (p \in Wanted <=> p \in Asked)
  <2>1. p[1] \in Nat /\ p[2] \in Nat
    BY <1>2, SizesArePositive
  <2>2. p[1] = p[2] \/ p[1] < p[2] \/ p[2] < p[1]
    BY <2>1
  <2> QED
    BY <1>5, <2>2 DEF Wanted, Asked
<1>7. Wanted \cap Equal = Asked \cap Equal
  BY <1>6
<1>8. On("allow_1_to_n") = On("allow_n_to_1") => Wanted = Asked
  BY <1>6 DEF Wanted, Asked
<1> QED
  BY <1>1, <1>4, <1>7, <1>8 DEF LoopVars, ListInv, ListIsComplete

(* When the program is ready its list has each pair of sizes of sender and *)
(* receiver once.  With both of the options allow_1_to_n and allow_n_to_1  *)
(* or none of them these are the pairs that their help texts ask for       *)
(* (cmdline.ggo:14-15), without those that have fewer partitions than      *)
(* threads; with one of them, which the code mistakes (test_cases.c:183),  *)
(* the pairs of equal sizes are.                                           *)
THEOREM ListBecomesComplete == Spec => []ListIsComplete
<1>1. IInv => ListIsComplete
  BY EndIsComplete
<1> QED
  BY <1>1, Invariance, PTL

LEMMA WholeParts ==
  \A b, s \in Int : s > 0 /\ b % s = 0 => (b \div s) * s = b
OBVIOUS

LEMMA EntriesAreCovered ==
  ASSUME IInv
  PROVE  SlicesCover
<1> SUFFICES ASSUME NEW n \in DOMAIN tests
             PROVE  LET t == tests[n]
                    IN  /\ t.thread_count = Threads
                        /\ t.thread_count * t.partitions_per_thread >= t.partition_count
                        /\ t.thread_count * (t.partitions_per_thread - 1) < t.partition_count
                        /\ debug => t.thread_count * t.partitions_per_thread
                                      * t.partition_size = setup.buffer_size
  BY DEF SlicesCover
<1>1. TypeOK /\ LoopVars /\ Consistent(tests[n])
  BY DEF IInv, LoopVars, EntryInv
<1>2. pc \in {"fill", "ready"}
  BY <1>1 DEF LoopVars, SetupInv, Looping
<1>3. Limits /\ Threads \in Int /\ setup.buffer_size \in Int
  BY <1>1, <1>2, SetupFields DEF LoopVars, LoopInv, Looping
<1>4. PICK s : s = tests[n].partition_size
  OBVIOUS
<1>5. s \in Sizes
  BY <1>1, <1>4 DEF Consistent
<1>6. s \in Nat /\ s > 0 /\ MinSize <= MaxSize
  BY <1>3, <1>5, SizesArePositive
<1>7. Threads > 0
  BY <1>1, <1>2, <1>6 DEF LoopVars, LoopInv, Looping, OneRound
<1>8. /\ tests[n].thread_count = Threads
      /\ tests[n].partition_count = Count(s)
      /\ tests[n].partitions_per_thread = (Count(s) + Threads - 1) \div Threads
  BY <1>1, <1>4 DEF Consistent
<1>9. Count(s) \in Int
  BY <1>3, <1>6 DEF Count
<1>10. /\ Threads * ((Count(s) + Threads - 1) \div Threads) >= Count(s)
       /\ Threads * (((Count(s) + Threads - 1) \div Threads) - 1) < Count(s)
  BY <1>3, <1>7, <1>9, RoundedUp
<1>11. ASSUME debug
       PROVE  tests[n].thread_count * tests[n].partitions_per_thread
              * tests[n].partition_size = setup.buffer_size
  <2>1. PICK b, c, q, t :
          /\ b = setup.buffer_size /\ c = Count(s) /\ t = Threads
          /\ q = (Count(s) + Threads - 1) \div Threads
    OBVIOUS
  <2>2. b \in Int /\ c \in Int /\ t \in Int /\ t > 0 /\ c = b \div s
    BY <1>3, <1>7, <1>9, <2>1 DEF Count
  <2>3. q \in Int /\ q * t = c
    <3>1. Even(tests[n])
      BY <1>1, <1>11 DEF LoopVars, EvenInv
    <3>2. q \in Int
      BY <2>1, <2>2
    <3> QED
      BY <1>8, <2>1, <3>1, <3>2 DEF Even
  <2>4. b % s = 0
    <3>1. /\ tests[n].send_pattern + 1 \in DOMAIN patterns
          /\ patterns[tests[n].send_pattern + 1] = s
      BY <1>4, LookupFindsPattern DEF PatternsOfSizes
    <3> QED
      BY <1>1, <1>11, <2>1, <3>1 DEF LoopVars, EvenInv
  <2>5. c * s = b
    BY <1>6, <2>2, <2>4, WholeParts
  <2>6. (t * q) * s = b
    <3>1. t * q = q * t
      BY <2>2, <2>3
    <3> QED
      BY <2>3, <2>5, <3>1
  <2> QED
    BY <1>4, <1>8, <2>1, <2>6
<1> QED
  BY <1>8, <1>10, <1>11

(* The slices of the threads cover the partitions of every test, and are   *)
(* not larger than that takes; no test has fewer partitions than threads,  *)
(* so "something went wrong" is never printed (test_cases.c:191, 217-224). *)
(* In the tests that bench_dbg gets to they are all bytes of the buffer:   *)
(* its assertions (line 225, send_patterns.c:93) have ended it otherwise.  *)
THEOREM SlicesAlwaysCover == Spec => []SlicesCover
<1>1. IInv => SlicesCover
  BY EntriesAreCovered
<1> QED
  BY <1>1, Invariance, PTL

\* Threads that divide the partitions have slices that are the partitions.
LEMMA WholeSlices ==
  ASSUME NEW c \in Int, NEW t \in Int, t > 0, c % t = 0
  PROVE  ((c + t - 1) \div t) * t = c
<1> DEFINE q == (c + t - 1) \div t
           d == c \div t
<1>1. q \in Int /\ q * t <= c + t - 1 /\ c + t - 1 < q * t + t
  OBVIOUS
<1>2. d \in Int /\ d * t = c
  BY WholeParts
<1> HIDE DEF q, d
<1>3. d <= q
  <2>1. d * t < (q + 1) * t
    BY <1>1, <1>2
  <2>2. q + 1 <= d => (q + 1) * t <= d * t
    BY <1>1, <1>2, Product
  <2>3. d * t \in Int /\ (q + 1) * t \in Int
    BY <1>1, <1>2
  <2> QED
    BY <1>1, <1>2, <2>1, <2>2, <2>3
<1>4. q <= d
  <2>1. q * t < (d + 1) * t
    BY <1>1, <1>2
  <2>2. d + 1 <= q => (d + 1) * t <= q * t
    BY <1>1, <1>2, Product
  <2>3. q * t \in Int /\ (d + 1) * t \in Int
    BY <1>1, <1>2
  <2> QED
    BY <1>1, <1>2, <2>1, <2>2, <2>3
<1> QED
  BY <1>1, <1>2, <1>3, <1>4 DEF q

\* What the program does with options for which the C standard says it.
LegalIsAt ==
  Looping /\ Legal =>
    /\ MinSize > 0 /\ Threads > 0 /\ OneRound /\ setup.buffer_size >= 6
    /\ Limits

LEMMA LegalOptions ==
  ASSUME TypeOK, ParserInv, LoopVars
  PROVE  LegalIsAt
<1> SUFFICES ASSUME Looping, Legal
             PROVE  /\ MinSize > 0 /\ Threads > 0 /\ OneRound
                    /\ setup.buffer_size >= 6 /\ Limits
  BY DEF LegalIsAt
<1>1. /\ MinSize = args["partition_size"] /\ Threads = args["num_threads"]
      /\ setup.buffer_size = args["num_values"]
      /\ Threads \in Int /\ MinSize \in Int /\ (Sane => Limits)
  BY SetupFields DEF LoopVars, SetupInv
<1>2. MinSize > 0 /\ Threads > 0 /\ 2 * Threads <= MaxInt /\ setup.buffer_size >= 6
  BY <1>1 DEF Legal
<1>3. OneRound
  BY <1>1, <1>2, MaxIntAssumption DEF OneRound, Overflows
<1> QED
  BY <1>1, <1>2, <1>3 DEF Sane

(* The part of LegalStarts that is no liveness.                            *)
EndlessIsIllegal ==
  /\ pc = "endless" => ~Legal
  /\ pc = "undefined" => ~Legal \/ (~debug /\ Uneven)
  /\ pc = "aborted" => debug /\ (~Legal \/ Uneven)

LEMMA AbortsUneven ==
  ASSUME TypeOK, ParserInv, LoopVars, Legal, PatternAborts \/ UnevenTest
  PROVE  Uneven
<1>1. Looping /\ i >= MinSize /\ pc \in {"patterns", "fill"}
  BY DEF PatternAborts, UnevenTest, Filling, Looping
<1>2. /\ MinSize > 0 /\ Threads > 0 /\ Limits
  BY <1>1, LegalOptions DEF LegalIsAt
<1>3. /\ MinSize \in Int /\ Threads \in Int /\ i \in Int
      /\ setup.buffer_size \in Int
  BY <1>1, SetupFields DEF LoopVars, TypeOK
<1>4. i > 0
  BY <1>1, <1>2, <1>3
<1>5. /\ setup.buffer_size = args["num_values"] /\ Threads = args["num_threads"]
      /\ setup.send_pattern = Lookup(PatternNames, args["send_pattern"])
  BY <1>1 DEF LoopVars, SetupInv
<1>6. CASE PatternAborts
  BY <1>4, <1>5, <1>6 DEF PatternAborts, PatternHolds, Uneven
<1>7. CASE UnevenTest
  <2>1. Filling /\ ~TooManyThreads /\ ~Even(TestCase)
    BY <1>7 DEF UnevenTest
  <2>2. PICK t : t = TestCase
    OBVIOUS
  <2>3. PICK c : c = Count(i)
    OBVIOUS
  <2>4. /\ t.partition_count = c /\ t.thread_count = Threads
        /\ t.partitions_per_thread = (c + Threads - 1) \div Threads
    <3>1. c \in Int
      BY <1>3, <1>4, <2>3 DEF Count
    <3>2. ~(c < Threads)
      BY <1>3, <2>1, <2>3, <3>1 DEF TooManyThreads
    <3> QED
      BY <2>2, <2>3, <3>2 DEF TestCase
  <2>5. c \in Int
    BY <1>3, <1>4, <2>3 DEF Count
  <2>6. c % Threads # 0
    BY <1>2, <1>3, <2>1, <2>2, <2>4, <2>5, WholeSlices DEF Even
  <2> QED
    BY <1>4, <1>5, <2>3, <2>6 DEF Uneven, Count
<1> QED
  BY <1>6, <1>7

(* A program that does not get to its tests has been given options with    *)
(* which the C standard does not say that it does (setups.c:41-50): a      *)
(* partition size or number of threads that is not positive, more threads  *)
(* than half of INT_MAX, or a buffer of less than six bytes; or one size   *)
(* or number does not divide the other.  With sizes and threads that do,   *)
(* no assertion fails (test_cases.c:225, send_patterns.c:93-100).          *)
THEOREM OnlyIllegalIsEndless == Spec => []EndlessIsIllegal
<1>1. Init => EndlessIsIllegal
  BY DEF Init, ParserInit, EndlessIsIllegal
<1>2. ASSUME IInv, EndlessIsIllegal, [Next]_vars
      PROVE  EndlessIsIllegal'
  <2>0. TypeOK /\ ParserInv /\ LoopVars
    BY <1>2 DEF IInv, LoopVars
  <2>1. CASE CountForEver
    <3>1. /\ args' = args /\ pc = "count" /\ pc' \in {"endless", "undefined"}
          /\ j >= MinSize /\ (j = 0 \/ Threads = 0 \/ Overflows)
      BY <2>1 DEF CountForEver, Counting, parser
    <3>2. /\ MinSize \in Int /\ Threads \in Int
      BY <2>0, <3>1, SetupFields DEF LoopVars, Looping
    <3>3. Looping /\ ~Legal
      BY <2>0, <3>1, <3>2, LegalOptions DEF LegalIsAt, OneRound, Looping
    <3> QED
      BY <3>1, <3>3 DEF Legal, EndlessIsIllegal
  <2>2. CASE BufferTooSmall
    <3>1. /\ args' = args /\ pc = "count" /\ pc' = "undefined"
          /\ setup.buffer_size < 6
      BY <2>2 DEF BufferTooSmall, Counted, parser
    <3>2. setup.buffer_size \in Int
      BY <2>0, <3>1, SetupFields DEF LoopVars, Looping
    <3>3. ~Legal
      BY <2>0, <3>1, <3>2, LegalOptions DEF LegalIsAt, Looping
    <3> QED
      BY <3>1, <3>3 DEF Legal, EndlessIsIllegal
  <2>3. CASE PatternOverruns
    <3>1. /\ args' = args /\ pc = "patterns" /\ pc' = "undefined" /\ i >= MinSize
          /\ ~debug /\ debug' = debug /\ i' = i /\ setup.buffer_size % i # 0
      BY <2>3 DEF PatternOverruns, parser
    <3>2. MinSize \in Int /\ i \in Int /\ setup.buffer_size = args["num_values"]
      BY <2>0, <3>1, SetupFields DEF LoopVars, SetupInv, Looping, TypeOK
    <3>3. Legal => i > 0
      BY <2>0, <3>1, <3>2, LegalOptions DEF LegalIsAt, Looping
    <3> QED
      BY <3>1, <3>2, <3>3 DEF Legal, Uneven, EndlessIsIllegal
  <2>4. CASE PatternAborts \/ UnevenTest
    <3>1. args' = args /\ pc' = "aborted" /\ debug /\ debug' = debug /\ i' = i
      BY <2>4 DEF PatternAborts, UnevenTest, Abort, parser
    <3>2. Legal => Uneven
      BY <2>0, <2>4, AbortsUneven
    <3>3. (Legal' <=> Legal) /\ (Uneven' <=> Uneven)
      BY <3>1 DEF Legal, Uneven
    <3> QED
      BY <3>1, <3>2, <3>3 DEF EndlessIsIllegal
  <2>5. CASE UNCHANGED vars
    BY <1>2, <2>5 DEF vars, parser, Legal, Uneven, EndlessIsIllegal
  <2>6. CASE \/ Parser \/ MakeSetup \/ CountTest \/ CountNextSize \/ EndCount
             \/ MakePattern \/ EndPatterns \/ AddTest \/ LeaveOutTest
             \/ NextSize \/ EndFill
    <3>1. pc' \notin {"endless", "undefined", "aborted"}
      BY <2>6 DEF Parser, RepeatedOption, StringOption, IntOption,
           InvalidNumber, HelpOrVersion, InvalidOption, Operand, EndOfOptions,
           Take, Fail, MakeSetup, CountTest, CountNextSize, EndCount, MakePattern,
           EndPatterns, AddTest, LeaveOutTest, NextSize, EndFill, Counting, Counted,
           Filling
    <3> QED
      BY <3>1 DEF EndlessIsIllegal
  <2> QED
    BY <1>2, <2>1, <2>2, <2>3, <2>4, <2>5, <2>6 DEF Next, Startup
<1> QED
  BY <1>1, <1>2, Invariance, PTL DEF Spec

(* How far the program is; the loop that does not end is no progress.      *)
Stage ==
  [endless |-> 0, parse |-> 1, parsed |-> 2, count |-> 3, patterns |-> 4,
   fill |-> 5, ready |-> 6, failed |-> 6, informed |-> 6, aborted |-> 6,
   undefined |-> 6]

\* A step to a later part of the program, or towards the end of its loop.
Advances ==
  \/ Stage[pc'] > Stage[pc]
  \/ /\ pc = "parse" /\ pc' = pc
     /\ optind' > optind /\ optind' <= Len(line) + 1
  \/ /\ pc' = pc
     /\ i \in Nat /\ i' \in Nat
     /\ i' < i \/ (i' = i /\ j \in Nat /\ j' \in Nat /\ j' < j)

\* The part of LegalStarts that is left without fairness.
LegalAdvances == [][Legal => Advances]_vars

LEMMA AdvanceStep ==
  ASSUME IInv, Next, ~(UNCHANGED vars), Legal
  PROVE  Advances
<1>1. TypeOK /\ ParserInv /\ LoopVars
  BY DEF IInv, LoopVars
<1>2. Stage["endless"] = 0 /\ Stage["parse"] = 1 /\ Stage["parsed"] = 2
      /\ Stage["count"] = 3 /\ Stage["patterns"] = 4 /\ Stage["fill"] = 5
      /\ Stage["ready"] = 6 /\ Stage["failed"] = 6 /\ Stage["informed"] = 6
      /\ Stage["aborted"] = 6 /\ Stage["undefined"] = 6
  BY DEF Stage
<1>3. ASSUME Looping
      PROVE  /\ Limits /\ MinSize > 0 /\ Threads > 0 /\ MinSize \in Int
             /\ Sane /\ i \in Int /\ j \in Int
             /\ i >= MinSize => i \in Sizes
             /\ j >= MinSize => j \in Sizes
  <2>1. /\ MinSize > 0 /\ Threads > 0 /\ Limits
        /\ MinSize \in Int
    BY <1>1, <1>3, LegalOptions, SetupFields DEF LoopVars, LegalIsAt
  <2> QED
    BY <1>1, <1>3, <2>1 DEF LoopVars, LoopInv, TypeOK, Limits
<1>4. \A s \in Sizes : Looping => /\ s \in Nat /\ Half(s) \in Nat /\ Half(s) < s
                                  /\ MaxSize \in Nat
  BY <1>3, SizesArePositive, HalfIsNext
<1>5. CASE Parser /\ UNCHANGED <<debug, setup, i, j, patterns, tests>>
  <2>1. /\ pc = "parse" /\ pc' \in {"parse", "parsed", "failed", "informed"}
        /\ line' = line /\ optind' \in 1 .. Len(line') + 1
    BY <1>1, <1>5, ParserStep DEF Parser, RepeatedOption, StringOption, IntOption,
       InvalidNumber, HelpOrVersion, InvalidOption, Operand, EndOfOptions, parser
  <2>2. CASE pc' = "parse"
    <3>1. optind' = optind + 1
      BY <1>5, <2>1, <2>2 DEF Parser, RepeatedOption, StringOption, IntOption,
         InvalidNumber, HelpOrVersion, InvalidOption, Operand, EndOfOptions, Take, Fail
    <3> QED
      BY <1>1, <2>1, <2>2, <3>1, LineType DEF Advances
  <2>3. CASE pc' # "parse"
    BY <1>2, <2>1, <2>3 DEF Advances
  <2> QED
    BY <2>2, <2>3
<1>6. CASE MakeSetup
  BY <1>2, <1>6 DEF MakeSetup, Advances
<1>7. CASE CountTest
  <2>1. Looping /\ pc' = pc /\ i' = i /\ j' = Half(j) /\ j >= MinSize /\ pc = "count"
        /\ (Psend => i >= MinSize)
    BY <1>7 DEF CountTest, Counting, Looping
  <2>2. j \in Sizes
    BY <1>3, <2>1
  <2>3. i \in Nat
    BY <1>1, <1>3, <1>4, <2>1, <2>2 DEF LoopVars, CountInv
  <2> QED
    BY <1>4, <2>1, <2>2, <2>3 DEF Advances
<1>8. CASE CountForEver \/ BufferTooSmall
  <2>1. Looping /\ \/ j >= MinSize /\ (j = 0 \/ Threads = 0 \/ Overflows)
                   \/ setup.buffer_size < 6
    BY <1>8 DEF CountForEver, Counting, BufferTooSmall, Counted, Looping
  <2>2. Threads \in Int /\ setup.buffer_size \in Int
    BY <1>1, <2>1, SetupFields DEF LoopVars
  <2>3. OneRound /\ setup.buffer_size >= 6
    BY <1>1, <2>1, LegalOptions DEF LegalIsAt
  <2> QED
    BY <1>3, <2>1, <2>2, <2>3 DEF OneRound
<1>9. CASE CountNextSize \/ MakePattern \/ NextSize
  <2>1. Looping /\ pc' = pc /\ i' = Half(i) /\ i >= MinSize
    BY <1>9 DEF CountNextSize, MakePattern, NextSize, Looping
  <2> QED
    BY <1>3, <1>4, <2>1 DEF Advances
<1>10. CASE EndCount \/ PatternAborts \/ PatternOverruns \/ EndPatterns
            \/ UnevenTest \/ EndFill
  <2>1. CASE EndCount
    BY <1>2, <2>1 DEF EndCount, Counted, Advances
  <2>2. CASE PatternAborts \/ PatternOverruns \/ EndPatterns
    BY <1>2, <2>2 DEF PatternAborts, Abort, PatternOverruns, EndPatterns, Advances
  <2>3. CASE UnevenTest \/ EndFill
    BY <1>2, <2>3 DEF UnevenTest, Abort, Filling, EndFill, Advances
  <2> QED
    BY <1>10, <2>1, <2>2, <2>3
<1>11. CASE AddTest \/ LeaveOutTest
  <2>1. Looping /\ pc' = pc /\ i' = i /\ j' = Half(j) /\ Filling /\ setup' = setup
    BY <1>11 DEF AddTest, LeaveOutTest, Filling, Looping
  <2>2. i \in Sizes /\ j \in Sizes
    BY <1>1, <2>1, FillingIsAt
  <2> QED
    BY <1>4, <2>1, <2>2 DEF Advances
<1> QED
  BY <1>5, <1>6, <1>7, <1>8, <1>9, <1>10, <1>11 DEF Next, Startup

(* With a positive partition size, a positive number of threads that an    *)
(* int can hold twice, and six bytes or more, each step brings the program *)
(* nearer to its end: the parser takes another element, a loop over sizes  *)
(* halves a number that is no less than 0 (setups.c:42-43,                 *)
(* test_cases.c:162, 180-186), or the next part begins.  As none of these  *)
(* can go on for ever, fairness is all that LegalStarts adds.              *)
THEOREM LegalOptionsAdvance == Spec => LegalAdvances
<1>1. IInv /\ [Next]_vars => [Legal => Advances]_vars
  BY AdvanceStep
<1> QED
  BY <1>1, Invariance, PTL DEF Spec, LegalAdvances
===============================================================================
