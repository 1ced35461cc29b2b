----------------------------- MODULE WindowsProofs -----------------------------
(***************************************************************************)
(* What the run methods on windows guarantee for every number of           *)
(* partitions and iterations and every pattern.                            *)
(***************************************************************************)
EXTENDS Windows, FiniteSetTheorems, TLAPS

\* There are two ranks, each the other of its other.
LEMMA OtherRank ==
  ASSUME NEW r \in Ranks
  PROVE  Other(r) \in Ranks /\ Other(r) # r /\ Other(Other(r)) = r
BY DEF Ranks, Other

\* A pattern leaves no partition out.
LEMMA PatternCovers ==
  \A p \in Partitions : \E k \in Partitions : Pattern[k] = p
<1>1. IsFiniteSet(Partitions)
  BY CountAssumption, FS_Interval DEF Partitions
<1>2. Pattern \in Injection(Partitions, Partitions)
  BY PatternAssumption DEF Injection, IsInjective
<1>3. Pattern \in Surjection(Partitions, Partitions)
  BY <1>1, <1>2, FS_Injection
<1> QED
  BY <1>3 DEF Surjection

LEMMA InitIInv == Init => IInv
<1> SUFFICES ASSUME Init PROVE IInv
  OBVIOUS
<1> USE CountAssumption, ModesAssumption
<1>1. TypeOK
  BY DEF Init, TypeOK, Collectives, Partitions, None
<1>2. CollectiveInv
  BY DEF Init, CollectiveInv, Places, Behind, Accessing, WindowCount, Ranks,
         Other, Collectives
<1>3. LockInv
  BY DEF Init, LockInv, None, Ranks
<1>4. MemoryInv
  BY DEF Init, MemoryInv, Accessing, Filled, Ranks
<1> QED
  BY <1>1, <1>2, <1>3, <1>4 DEF IInv

\* A step of rank r leaves what belongs to the other rank alone.
OnlyRank(r) ==
  \A q \in Ranks \ {r} :
    /\ pc'[q] = pc[q] /\ inside'[q] = inside[q]
    /\ collectives'[q] = collectives[q]
    /\ n'[q] = n[q] /\ epoch'[q] = epoch[q]

\* A rank's own numbers.
LEMMA OwnTypes ==
  ASSUME IInv, NEW r \in Ranks
  PROVE  /\ n[r] \in Nat /\ epoch[r] \in Nat /\ collectives[r] \in Nat
         /\ Behind(r) \in Nat /\ WindowCount \in 1..PartitionCount
         /\ PartitionCount \in Nat /\ Iterations \in Nat
         /\ inside[r] \in BOOLEAN /\ mode \in {"Win", "WinSingle"}
<1>1. /\ n[r] \in Nat /\ epoch[r] \in Nat /\ collectives[r] \in Nat
      /\ PartitionCount \in Nat /\ Iterations \in Nat
      /\ inside[r] \in BOOLEAN /\ mode \in {"Win", "WinSingle"}
  BY CountAssumption, ModesAssumption DEF IInv, TypeOK, Partitions
<1>2. WindowCount \in 1..PartitionCount
  BY CountAssumption DEF WindowCount
<1>3. Behind(r) \in Nat
  BY <1>1, <1>2 DEF Behind
<1> QED
  BY <1>1, <1>2, <1>3

\* Such a step keeps CollectiveInv if it keeps r's part of it.
LEMMA OnlyRankCollective ==
  ASSUME IInv, NEW r \in Ranks, OnlyRank(r), mode' = mode,
         Places(r)', collectives'[r] = Behind(r)' + (IF inside'[r] THEN 1 ELSE 0),
         Behind(r)' <= collectives[Other(r)],
         collectives'[r] \in Nat, collectives'[r] >= collectives[r]
  PROVE  CollectiveInv'
<1> DEFINE q == Other(r)
<1>1. q \in Ranks /\ q # r /\ Other(q) = r /\ Ranks = {q, r}
  BY DEF Ranks, Other
<1>2. /\ pc'[q] = pc[q] /\ inside'[q] = inside[q] /\ n'[q] = n[q]
      /\ collectives'[q] = collectives[q] /\ epoch'[q] = epoch[q]
  BY <1>1 DEF OnlyRank
<1> HIDE DEF q
<1>3. /\ Places(q) /\ Behind(q) <= collectives[r]
      /\ collectives[q] = Behind(q) + (IF inside[q] THEN 1 ELSE 0)
      /\ collectives[r] \in Nat /\ collectives[q] \in Nat
  BY <1>1 DEF IInv, CollectiveInv, TypeOK
<1>4. Places(q)'
  BY <1>2, <1>3 DEF Places, Accessing, Accesses, WindowCount
<1>5. Behind(q)' = Behind(q)
  BY <1>2 DEF Behind, WindowCount
<1>6. Behind(q) \in Int
  BY <1>1, OwnTypes
<1>7. /\ collectives'[q] = Behind(q)' + (IF inside'[q] THEN 1 ELSE 0)
      /\ Behind(q)' <= collectives'[r]
  BY <1>2, <1>3, <1>5, <1>6
<1>8. Behind(r)' <= collectives'[q]
  BY <1>2 DEF q
<1> QED
  BY <1>1, <1>4, <1>7, <1>8 DEF CollectiveInv, q

\* The lock of a rank that does nothing stays with it.
LEMMA OnlyRankLock ==
  ASSUME IInv, NEW r \in Ranks, OnlyRank(r), mode' = mode,
         \A w \in Partitions :
           /\ holder'[w] \in {None, r, holder[w]}
           /\ holder'[w] = r => /\ pc'[r] \in {"put", "unlock"}
                                /\ ~NoCheck(r)' /\ Window(r)' = w
  PROVE  LockInv'
<1> SUFFICES ASSUME NEW q \in Ranks \ {r}, NEW w \in Partitions, holder'[w] = q
             PROVE  pc'[q] \in {"put", "unlock"} /\ ~NoCheck(q)' /\ Window(q)' = w
  BY DEF LockInv
<1>1. holder[w] = q
  BY DEF Ranks, None
<1>2. /\ pc'[q] = pc[q] /\ n'[q] = n[q] /\ epoch'[q] = epoch[q]
      /\ pc[q] \in {"put", "unlock"} /\ ~NoCheck(q) /\ Window(q) = w
  BY <1>1 DEF OnlyRank, IInv, LockInv
<1> QED
  BY <1>2 DEF NoCheck, Window, Partition

\* MemoryInv is about rank 0.
LEMMA MemoryOfRank0 ==
  ASSUME IInv, UNCHANGED <<mode, pending, memory>>,
         pc'[0] = pc[0], n'[0] = n[0], epoch'[0] = epoch[0]
  PROVE  MemoryInv'
BY DEF IInv, MemoryInv, Accessing, Filled, Target, Partition

LEMMA EnterKeeps ==
  ASSUME IInv, NEW r \in Ranks, EnterCollective(r)
  PROVE  IInv'
<1> USE DEF EnterCollective, Enter
<1>1. OnlyRank(r) /\ collectives'[r] = collectives[r] + 1 /\ inside'[r]
  BY DEF OnlyRank, IInv, TypeOK
<1>2. TypeOK'
  BY DEF IInv, TypeOK
<1>3. Behind(r)' = Behind(r) /\ Places(r)'
  BY DEF Behind, Places, Accessing, Accesses, WindowCount, IInv, CollectiveInv
<1>4. CollectiveInv'
  BY <1>1, <1>3, OwnTypes, OnlyRankCollective DEF IInv, CollectiveInv
<1>5. LockInv'
  BY <1>1, OnlyRankLock DEF IInv, LockInv, NoCheck, Window, Partition
<1>6. MemoryInv'
  BY MemoryOfRank0
<1> QED
  BY <1>2, <1>4, <1>5, <1>6 DEF IInv

\* Where a rank is behind a collective: at the next one, or at its first lock
\* of an epoch.
LEMMA LeaveMoves ==
  ASSUME IInv, NEW r \in Ranks, LeaveCollective(r)
  PROVE  /\ Places(r)' /\ Behind(r)' = Behind(r) + 1
         /\ pc'[r] \in Collectives \cup {"lock", "done"} /\ n'[r] \in Partitions
         /\ pc'[r] = "lock" => n'[r] = 0
<1>1. /\ pc[r] \in Collectives /\ Places(r) /\ inside'[r] = FALSE
      /\ epoch' = epoch /\ mode' = mode
      /\ pc \in [Ranks -> Collectives \cup {"lock", "put", "unlock", "done"}]
      /\ n \in [Ranks -> Partitions]
  BY DEF LeaveCollective, IInv, CollectiveInv, Places, TypeOK
<1>2. /\ n[r] \in Nat /\ epoch[r] \in Nat /\ WindowCount \in 1..PartitionCount
      /\ WindowCount' = WindowCount
      /\ PartitionCount \in Nat /\ Iterations \in Nat
      /\ mode \in {"Win", "WinSingle"}
  BY <1>1, OwnTypes DEF WindowCount
<1> USE <1>1, <1>2 DEF Places, Accessing, Accesses, Behind, Collectives, Partitions
<1>3. CASE pc[r] \in {"create", "free"} /\ n[r] + 1 < WindowCount
  <2>1. pc'[r] = pc[r] /\ n'[r] = n[r] + 1
    BY <1>3 DEF LeaveCollective, Goto
  <2>2. CASE pc[r] = "create"
    BY <1>3, <2>1, <2>2
  <2>3. CASE pc[r] = "free"
    BY <1>3, <2>1, <2>3
  <2> QED
    BY <1>3, <2>2, <2>3
<1>4. CASE ~(pc[r] \in {"create", "free"} /\ n[r] + 1 < WindowCount)
  <2>1. n'[r] = 0
    BY <1>4 DEF LeaveCollective
  <2>2. CASE pc[r] = "barrier0"
    <3>1. pc'[r] = "create" /\ mode = "Win"
      BY <2>2 DEF LeaveCollective, Goto
    <3> QED
      BY <2>1, <2>2, <3>1
  <2>3. CASE pc[r] = "create"
    <3>1. pc'[r] = "lock" /\ n[r] + 1 = WindowCount /\ epoch[r] = 0
      BY <1>4, <2>3 DEF LeaveCollective, Goto
    <3> QED
      BY <2>1, <2>3, <3>1 DEF Ranks
  <2>4. CASE pc[r] = "barrier1"
    <3>1. /\ pc'[r] = IF r = 0 /\ Iterations > 0 THEN "lock" ELSE "barrier2"
          /\ epoch[r] = 1
      BY <2>4 DEF LeaveCollective, Goto
    <3> QED
      BY <2>1, <2>4, <3>1 DEF Ranks
  <2>5. CASE pc[r] = "barrier2"
    <3>1. pc'[r] = "free"
      BY <2>5 DEF LeaveCollective, Goto
    <3> QED
      BY <2>1, <2>5, <3>1
  <2>6. CASE pc[r] = "free"
    <3>1. /\ pc'[r] = IF mode = "Win" THEN "done" ELSE "barrier3"
          /\ n[r] + 1 = WindowCount
      BY <1>4, <2>6 DEF LeaveCollective, Goto
    <3> QED
      BY <2>1, <2>6, <3>1
  <2>7. CASE pc[r] = "barrier3"
    <3>1. pc'[r] = "done" /\ mode = "WinSingle"
      BY <2>7 DEF LeaveCollective, Goto
    <3> QED
      BY <2>1, <2>7, <3>1
  <2> QED
    BY <2>2, <2>3, <2>4, <2>5, <2>6, <2>7
<1> QED
  BY <1>3, <1>4

LEMMA LeaveKeeps ==
  ASSUME IInv, NEW r \in Ranks, LeaveCollective(r)
  PROVE  IInv'
<1>1. /\ inside[r] /\ pc[r] \in Collectives
      /\ UNCHANGED <<mode, collectives, epoch, holder, pending, memory>>
      /\ inside' = [inside EXCEPT ![r] = FALSE]
      /\ collectives[Other(r)] >= collectives[r]
  BY DEF LeaveCollective, IInv, CollectiveInv, Places
<1>2. OnlyRank(r) /\ inside'[r] = FALSE
  BY <1>1 DEF LeaveCollective, Goto, OnlyRank, IInv, TypeOK
<1>3. /\ pc' = [pc EXCEPT ![r] = pc'[r]] /\ n' = [n EXCEPT ![r] = n'[r]]
  <2>1. \E x : pc' = [pc EXCEPT ![r] = x]
    BY Zenon DEF LeaveCollective, Goto
  <2>2. \E x : n' = [n EXCEPT ![r] = x]
    BY Zenon DEF LeaveCollective
  <2> QED
    BY <2>1, <2>2 DEF IInv, TypeOK
<1>4. TypeOK'
  BY <1>1, <1>3, LeaveMoves DEF IInv, TypeOK
<1>5. collectives[r] = Behind(r) + 1
  BY <1>1 DEF IInv, CollectiveInv
<1>6. CollectiveInv'
  BY <1>1, <1>2, <1>5, LeaveMoves, OwnTypes, OnlyRankCollective
<1>7. LockInv'
  BY <1>1, <1>2, OnlyRankLock DEF IInv, LockInv, Collectives
<1>8. MemoryInv'
  <2>1. CASE r = 1
    BY <1>1, <1>2, <2>1, MemoryOfRank0 DEF OnlyRank, Ranks
  <2>2. CASE r = 0
    <3>1. /\ pc[0] \in Collectives /\ pc'[0] \in Collectives \cup {"lock", "done"}
          /\ pc'[0] = "lock" => n'[0] = 0
      BY <1>1, <2>2, LeaveMoves
    <3>2. pending = {} /\ ~Accessing(0)
      BY <3>1 DEF IInv, MemoryInv, Accessing, Collectives
    <3>3. Accessing(0)' => Filled' = {}
      BY <3>1 DEF Accessing, Filled, Collectives
    <3> QED
      BY <1>1, <3>1, <3>2, <3>3 DEF IInv, MemoryInv, Collectives
  <2> QED
    BY <2>1, <2>2 DEF Ranks
<1> QED
  BY <1>4, <1>6, <1>7, <1>8 DEF IInv

\* What a rank that is between lock and unlock looks at.
LEMMA WindowTypes ==
  ASSUME IInv, NEW r \in Ranks, Accessing(r)
  PROVE  /\ Partition(r) \in Partitions /\ Window(r) \in Partitions
         /\ r = 0 => Target \subseteq Partitions
<1>1. /\ n[r] \in Nat /\ n[r] < Accesses(r) /\ WindowCount \in 1..PartitionCount
      /\ PartitionCount \in Nat
  BY OwnTypes DEF IInv, CollectiveInv, Places
<1>2. n[r] \in Partitions
  BY <1>1 DEF Accesses, Partitions
<1>3. Partition(r) \in Partitions /\ 0 \in Partitions
  BY <1>1, <1>2, PatternAssumption DEF Partition, Partitions
<1> QED
  BY <1>3 DEF Window, Target

LEMMA LockKeeps ==
  ASSUME IInv, NEW r \in Ranks, Lock(r)
  PROVE  IInv'
<1>1. /\ pc[r] = "lock" /\ pc' = [pc EXCEPT ![r] = IF r = 0 THEN "put" ELSE "unlock"]
      /\ UNCHANGED <<mode, inside, collectives, n, epoch, pending, memory>>
  BY DEF Lock, At, Goto
<1>2. OnlyRank(r) /\ pc'[r] = IF r = 0 THEN "put" ELSE "unlock"
  BY <1>1 DEF OnlyRank, IInv, TypeOK
<1>3. Window(r) \in Partitions /\ Window(r)' = Window(r) /\ NoCheck(r)' = NoCheck(r)
  BY <1>1, WindowTypes DEF Accessing, Window, Partition, NoCheck
<1>4. TypeOK'
  <2>1. holder' \in [Partitions -> Ranks \cup {None}]
    BY <1>3 DEF Lock, IInv, TypeOK
  <2> QED
    BY <1>1, <2>1 DEF IInv, TypeOK
<1>5. CollectiveInv'
  <2>1. Places(r) /\ ~inside[r]
    BY <1>1 DEF IInv, CollectiveInv, Places, Collectives, TypeOK
  <2>2. Places(r)'
    BY <1>1, <1>2, <2>1 DEF Places, Accessing, Accesses, WindowCount, Ranks,
                            Collectives
  <2>3. Behind(r)' = Behind(r)
    BY <1>1, <1>2 DEF Behind, WindowCount
  <2> QED
    BY <1>1, <1>2, <2>2, <2>3, OwnTypes, OnlyRankCollective
       DEF IInv, CollectiveInv
<1>6. LockInv'
  <2>1. ASSUME NEW w \in Partitions
        PROVE  /\ holder'[w] \in {None, r, holder[w]}
               /\ holder'[w] = r => ~NoCheck(r) /\ Window(r) = w
    BY <1>1, <1>3 DEF Lock, IInv, TypeOK, LockInv
  <2> QED
    BY <1>1, <1>2, <1>3, <2>1, OnlyRankLock
<1>7. MemoryInv'
  <2>1. CASE r = 1
    BY <1>1, <1>2, <2>1, MemoryOfRank0 DEF OnlyRank, Ranks
  <2>2. CASE r = 0
    BY <1>1, <1>2, <2>2 DEF IInv, MemoryInv, Accessing, Filled, Target, Partition
  <2> QED
    BY <2>1, <2>2 DEF Ranks
<1> QED
  BY <1>4, <1>5, <1>6, <1>7 DEF IInv

LEMMA PutKeeps ==
  ASSUME IInv, Put
  PROVE  IInv'
<1>1. /\ pc[0] = "put" /\ pc' = [pc EXCEPT ![0] = "unlock"] /\ pending' = Target
      /\ UNCHANGED <<mode, inside, collectives, n, epoch, holder, memory>>
      /\ 0 \in Ranks
  BY DEF Put, At, Goto, Ranks
<1>2. OnlyRank(0) /\ pc'[0] = "unlock"
  BY <1>1 DEF OnlyRank, IInv, TypeOK
<1>3. TypeOK'
  BY <1>1, WindowTypes DEF IInv, TypeOK, Accessing
<1>4. CollectiveInv'
  <2>1. Places(0)' /\ Behind(0)' = Behind(0)
    BY <1>1, <1>2 DEF IInv, CollectiveInv, Places, Behind, Accessing, Accesses,
                      WindowCount, Ranks, Collectives
  <2> QED
    BY <1>1, <1>2, <2>1, OwnTypes, OnlyRankCollective DEF IInv, CollectiveInv
<1>5. LockInv'
  BY <1>1, <1>2, OnlyRankLock DEF IInv, LockInv, NoCheck, Window, Partition
<1>6. MemoryInv'
  BY <1>1, <1>2 DEF IInv, MemoryInv, Accessing, Filled, Target, Partition
<1> QED
  BY <1>3, <1>4, <1>5, <1>6 DEF IInv

LEMMA ArriveKeeps ==
  ASSUME IInv, NEW p \in Partitions, Arrive(p)
  PROVE  IInv'
<1>1. /\ UNCHANGED <<mode, pc, inside, collectives, n, epoch, holder>>
      /\ p \in pending /\ pending' = pending \ {p}
      /\ memory' = [memory EXCEPT ![p] = epoch[0]]
  BY DEF Arrive
<1>2. pc[0] = "unlock" /\ epoch[0] \in 0..Iterations
  BY <1>1 DEF IInv, MemoryInv, CollectiveInv, Places, Accessing, Ranks
<1>3. TypeOK'
  BY <1>1, <1>2 DEF IInv, TypeOK
<1>4. CollectiveInv'
  BY <1>1 DEF IInv, CollectiveInv, Places, Behind, Accessing, Accesses,
              WindowCount
<1>5. LockInv'
  BY <1>1 DEF IInv, LockInv, NoCheck, Window, Partition
<1>6. MemoryInv'
  <2>1. Target' = Target /\ Filled' = Filled /\ Accessing(0)' = Accessing(0)
    BY <1>1 DEF Target, Filled, Accessing, Partition
  <2>2. \A q \in Partitions : memory'[q] = IF q = p THEN epoch[0] ELSE memory[q]
    BY <1>1 DEF IInv, TypeOK
  <2>3. Target \subseteq Partitions /\ Accessing(0)
    BY <1>2, WindowTypes DEF Accessing, Ranks
  <2>4. \A q \in Partitions : epoch[0] > 0 => memory'[q] \in Nat
    BY <1>2, <2>2, CountAssumption DEF IInv, MemoryInv
  <2>5. \A q \in Filled : q \in Partitions
    <3>1. n[0] \in Nat /\ n[0] < Accesses(0) /\ Accesses(0) \in 1..PartitionCount
      BY <2>3, OwnTypes DEF IInv, CollectiveInv, Places, Accesses, Ranks
    <3>2. 0 .. n[0] - 1 \subseteq Partitions
      BY <3>1, CountAssumption DEF Partitions
    <3> QED
      BY <3>2, PatternAssumption DEF Filled
  <2> QED
    BY <1>1, <1>2, <2>1, <2>2, <2>3, <2>4, <2>5 DEF IInv, MemoryInv
<1> QED
  BY <1>3, <1>4, <1>5, <1>6 DEF IInv

\* The unlock that does not end an epoch.
LEMMA UnlockNext ==
  ASSUME IInv, NEW r \in Ranks, Unlock(r), n[r] + 1 # Accesses(r)
  PROVE  /\ pc' = [pc EXCEPT ![r] = "lock"] /\ n' = [n EXCEPT ![r] = n[r] + 1]
         /\ epoch' = epoch
         /\ Places(r)' /\ Behind(r)' = Behind(r) /\ n[r] + 1 \in Partitions
<1>1. /\ pc[r] = "unlock" /\ UNCHANGED <<mode, inside>>
      /\ pc' = [pc EXCEPT ![r] = "lock"] /\ n' = [n EXCEPT ![r] = n[r] + 1]
      /\ epoch' = [epoch EXCEPT ![r] = epoch[r]]
  BY DEF Unlock, At, Goto
<1>2. /\ epoch' = epoch /\ pc'[r] = "lock" /\ n'[r] = n[r] + 1
  BY <1>1 DEF IInv, TypeOK
<1>3. /\ Places(r) /\ ~inside[r] /\ n[r] < Accesses(r)
      /\ epoch[r] \in IF r = 0 THEN 0..Iterations ELSE {0}
  BY <1>1 DEF IInv, CollectiveInv, Places, Accessing, Collectives, TypeOK
<1>4. n[r] + 1 < Accesses(r) /\ Accesses(r) \in 1..PartitionCount
  BY <1>3, OwnTypes DEF Accesses
<1>5. Places(r)'
  BY <1>1, <1>2, <1>3, <1>4
     DEF Places, Accessing, Accesses, WindowCount, Collectives
<1>6. Behind(r)' = Behind(r)
  BY <1>1, <1>2 DEF Behind, WindowCount
<1> QED
  BY <1>1, <1>2, <1>4, <1>5, <1>6, OwnTypes DEF Partitions

\* The one that does: the rank goes to a barrier or to its next iteration.
LEMMA UnlockLast ==
  ASSUME IInv, NEW r \in Ranks, Unlock(r), n[r] + 1 = Accesses(r)
  PROVE  /\ pc' = [pc EXCEPT ![r] = pc'[r]] /\ n' = [n EXCEPT ![r] = 0]
         /\ epoch' = [epoch EXCEPT ![r] = epoch[r] + 1]
         /\ pc'[r] = IF epoch[r] = 0 THEN "barrier1"
                     ELSE IF epoch[r] < Iterations THEN "lock" ELSE "barrier2"
         /\ epoch[r] \in IF r = 0 THEN 0..Iterations ELSE {0}
         /\ Places(r)' /\ Behind(r)' = Behind(r)
<1> DEFINE to == IF epoch[r] = 0 THEN "barrier1"
                 ELSE IF epoch[r] < Iterations THEN "lock" ELSE "barrier2"
<1>1. /\ pc[r] = "unlock" /\ UNCHANGED <<mode, inside>>
      /\ pc' = [pc EXCEPT ![r] = to] /\ n' = [n EXCEPT ![r] = 0]
      /\ epoch' = [epoch EXCEPT ![r] = epoch[r] + 1]
  BY DEF Unlock, At, Goto
<1>2. epoch'[r] = epoch[r] + 1 /\ pc'[r] = to /\ n'[r] = 0
  BY <1>1 DEF IInv, TypeOK
<1>3. /\ Places(r) /\ ~inside[r]
      /\ epoch[r] \in IF r = 0 THEN 0..Iterations ELSE {0}
  BY <1>1 DEF IInv, CollectiveInv, Places, Accessing, Collectives, TypeOK
<1>4. Places(r)' /\ Behind(r)' = Behind(r)
  <2>1. CASE epoch[r] = 0
    BY <1>1, <1>2, <1>3, <2>1
       DEF Places, Accessing, Accesses, WindowCount, Collectives, Behind
  <2>2. CASE epoch[r] # 0
    <3>1. r = 0 /\ epoch[r] \in 1..Iterations
      BY <1>3, <2>2, CountAssumption DEF Ranks
    <3> QED
      BY <1>1, <1>2, <1>3, <2>2, <3>1, CountAssumption
         DEF Places, Accessing, Accesses, WindowCount, Collectives, Behind
  <2> QED
    BY <2>1, <2>2
<1> QED
  BY <1>1, <1>2, <1>3, <1>4

LEMMA UnlockKeeps ==
  ASSUME IInv, NEW r \in Ranks, Unlock(r)
  PROVE  IInv'
<1>1. /\ pc[r] = "unlock" /\ (r = 0 => pending = {})
      /\ UNCHANGED <<mode, inside, collectives, pending, memory>>
      /\ IF NoCheck(r) THEN UNCHANGED holder
         ELSE holder' = [holder EXCEPT ![Window(r)] = None]
  BY DEF Unlock, At
<1>2. /\ OnlyRank(r) /\ Places(r)' /\ Behind(r)' = Behind(r)
      /\ pc'[r] \in {"lock", "barrier1", "barrier2"}
      /\ pc' = [pc EXCEPT ![r] = pc'[r]] /\ n' = [n EXCEPT ![r] = n'[r]]
      /\ n'[r] \in Partitions
      /\ epoch' = [epoch EXCEPT ![r] = epoch'[r]] /\ epoch'[r] \in 0 .. Iterations + 1
  <2>1. CASE n[r] + 1 = Accesses(r)
    BY <1>1, <2>1, UnlockLast, CountAssumption, SMTT(20)
       DEF IInv, TypeOK, OnlyRank, Partitions
  <2>2. CASE n[r] + 1 # Accesses(r)
    BY <1>1, <2>2, UnlockNext DEF IInv, TypeOK, OnlyRank
  <2> QED
    BY <2>1, <2>2
<1>3. Window(r) \in Partitions
  BY <1>1, WindowTypes DEF Accessing
<1>4. TypeOK'
  <2>1. holder' \in [Partitions -> Ranks \cup {None}]
    BY <1>1, <1>3 DEF IInv, TypeOK
  <2> QED
    BY <1>1, <1>2, <2>1 DEF IInv, TypeOK, Collectives
<1>5. CollectiveInv'
  BY <1>1, <1>2, OwnTypes, OnlyRankCollective DEF IInv, CollectiveInv
<1>6. LockInv'
  <2>1. ASSUME NEW w \in Partitions
        PROVE  holder'[w] \in {None, holder[w]} /\ holder'[w] # r
    BY <1>1, <1>3 DEF IInv, TypeOK, LockInv, None, Ranks
  <2> QED
    BY <1>1, <1>2, <2>1, OnlyRankLock
<1>7. MemoryInv'
  <2>1. CASE r = 1
    BY <1>1, <1>2, <2>1, MemoryOfRank0 DEF OnlyRank, Ranks
  <2>2. CASE r = 0
    <3>1. /\ \A p \in Target : memory[p] = epoch[0]
          /\ \A p \in Filled : memory[p] = epoch[0]
          /\ n[0] \in Nat /\ n[0] < Accesses(0) /\ epoch[0] \in Nat
          /\ epoch[0] > 0 => \A p \in Partitions : memory[p] \in Nat
          /\ PartitionCount \in Nat /\ mode \in {"Win", "WinSingle"}
      BY <1>1, <2>2, OwnTypes
         DEF IInv, MemoryInv, CollectiveInv, Places, Accessing
    <3>2. CASE n[0] + 1 # Accesses(0)
      <4>1. /\ pc'[0] = "lock" /\ n'[0] = n[0] + 1 /\ epoch'[0] = epoch[0]
        BY <2>2, <3>2, UnlockNext DEF IInv, TypeOK
      <4>2. \A p \in Filled' : p \in Filled \/ p \in Target
        BY <1>1, <3>1, <3>2, <4>1
           DEF Filled, Target, Partition, Accesses, WindowCount
      <4> QED
        BY <1>1, <2>2, <3>1, <4>1, <4>2 DEF MemoryInv, Accessing
    <3>3. CASE n[0] + 1 = Accesses(0)
      <4>1. /\ n'[0] = 0 /\ epoch'[0] = epoch[0] + 1
            /\ pc'[0] \in {"barrier1", "lock", "barrier2"}
        BY <2>2, <3>3, UnlockLast DEF IInv, TypeOK
      <4>2. ASSUME NEW p \in Partitions PROVE p \in Filled \/ p \in Target
        <5>1. CASE epoch[0] = 0
          BY <3>1, <3>3, <5>1
             DEF Filled, Target, Partition, Accesses, WindowCount, Partitions
        <5>2. CASE epoch[0] # 0
          <6>1. PICK k \in Partitions : Pattern[k] = p
            BY PatternCovers
          <6>2. k \in 0 .. n[0] - 1 \/ k = n[0]
            BY <3>1, <3>3, <5>2 DEF Accesses, Partitions
          <6> QED
            BY <3>1, <5>2, <6>1, <6>2 DEF Filled, Target, Partition
        <5> QED
          BY <5>1, <5>2
      <4>3. Filled' = {}
        BY <3>1, <4>1 DEF Filled
      <4> QED
        BY <1>1, <2>2, <3>1, <4>1, <4>2, <4>3 DEF MemoryInv, Accessing
    <3> QED
      BY <3>2, <3>3
  <2> QED
    BY <2>1, <2>2 DEF Ranks
<1> QED
  BY <1>4, <1>5, <1>6, <1>7 DEF IInv

LEMMA NextKeeps == IInv /\ [Next]_vars => IInv'
<1> SUFFICES ASSUME IInv, [Next]_vars PROVE IInv'
  OBVIOUS
<1>1. CASE \E r \in Ranks : Rank(r)
  BY <1>1, EnterKeeps, LeaveKeeps, LockKeeps, UnlockKeeps, PutKeeps DEF Rank
<1>2. CASE \E p \in Partitions : Arrive(p)
  BY <1>2, ArriveKeeps
<1>3. CASE UNCHANGED vars
  <2>1. /\ TypeOK' /\ CollectiveInv' /\ LockInv'
    BY <1>3 DEF vars, IInv, TypeOK, CollectiveInv, Places, Behind, Accessing,
                Accesses, WindowCount, LockInv, NoCheck, Window, Partition
  <2>2. MemoryInv'
    BY <1>3, MemoryOfRank0 DEF vars
  <2> QED
    BY <2>1, <2>2 DEF IInv
<1> QED
  BY <1>1, <1>2, <1>3 DEF Next

(* Where a rank is tells how many collectives it has entered, a lock is    *)
(* held between lock and unlock, and memory is filled put by put.          *)
THEOREM Invariance == Spec => []IInv
BY InitIInv, NextKeeps, PTL DEF Spec

-------------------------------------------------------------------------------
(* What follows from it.                                                   *)

THEOREM TypeCorrect == Spec => []TypeOK
<1>1. IInv => TypeOK
  BY DEF IInv
<1> QED
  BY <1>1, Invariance, PTL

\* How many collectives come before the barrier behind the warm-up.
First == IF mode = "Win" THEN 1 ELSE 0
Warm == First + WindowCount

\* A rank that was past that barrier has met the other one there.
LEMMA PastWarmup ==
  ASSUME IInv, NEW r \in Ranks, collectives[r] > Warm
  PROVE  epoch[r] > 0 /\ (pc[r] = "barrier1" => inside[r])
<1>1. /\ Places(r) /\ n[r] \in Nat /\ epoch[r] \in Nat
      /\ collectives[r] = Behind(r) + (IF inside[r] THEN 1 ELSE 0)
      /\ WindowCount \in Nat /\ inside[r] \in BOOLEAN
      /\ pc[r] \in Collectives \cup {"lock", "put", "unlock", "done"}
      /\ Iterations \in Nat
  BY OwnTypes DEF IInv, CollectiveInv, TypeOK
<1>2. CASE pc[r] \in {"barrier0", "create"}
  BY <1>1, <1>2 DEF Warm, First, Behind, Places
<1>3. CASE pc[r] = "barrier1"
  BY <1>1, <1>3 DEF Warm, First, Behind, Places
<1>4. CASE pc[r] \in {"barrier2", "free", "barrier3", "done"}
  BY <1>1, <1>4 DEF Places
<1>5. CASE Accessing(r)
  <2>1. ~inside[r]
    BY <1>1, <1>5 DEF Places, Accessing, Collectives
  <2> QED
    BY <1>1, <1>5, <2>1 DEF Warm, First, Behind, Accessing
<1> QED
  BY <1>1, <1>2, <1>3, <1>4, <1>5 DEF Accessing, Collectives

LEMMA OtherPastWarmup ==
  ASSUME IInv, NEW r \in Ranks, epoch[r] > 0, pc[r] # "barrier1"
  PROVE  /\ epoch[Other(r)] > 0
         /\ pc[Other(r)] = "barrier1" => inside[Other(r)]
<1>1. /\ Places(r) /\ Behind(r) <= collectives[Other(r)] /\ n[r] \in Nat
      /\ WindowCount \in Nat /\ epoch[r] \in Nat /\ collectives[Other(r)] \in Nat
      /\ Other(r) \in Ranks
      /\ pc[r] \in Collectives \cup {"lock", "put", "unlock", "done"}
  BY OwnTypes, OtherRank DEF IInv, CollectiveInv, TypeOK
<1>2. Behind(r) > Warm
  <2>1. pc[r] \notin {"barrier0", "create"}
    BY <1>1 DEF Places
  <2> QED
    BY <1>1, <2>1 DEF Behind, Warm, First
<1>3. collectives[Other(r)] > Warm
  BY <1>1, <1>2, OwnTypes DEF Warm, First
<1> QED
  BY <1>1, <1>3, PastWarmup

(* Rank 0 asserts MPI_MODE_NOCHECK in its iterations with right: nobody    *)
(* holds the lock of that window and rank 1 will not ask for one           *)
(* (bench_win.c:51, bench_win_single.c:55).                                *)
THEOREM NoCheckIsJustified == Spec => []NoCheckInIterations
<1>1. IInv => NoCheckInIterations
  <2> SUFFICES ASSUME IInv, epoch[0] > 0, Accessing(0)
               PROVE  NoCheckHolds /\ ~Accessing(1)
    BY DEF NoCheckInIterations
  <2>1. 0 \in Ranks /\ 1 \in Ranks /\ Other(0) = 1
    BY DEF Ranks, Other
  <2>2. epoch[1] > 0
    BY <2>1, OtherPastWarmup DEF Accessing
  <2>3. ~Accessing(1)
    BY <2>1, <2>2 DEF IInv, CollectiveInv, Places
  <2>4. Window(0) \in Partitions /\ NoCheck(0)
    BY <2>1, WindowTypes DEF NoCheck
  <2>5. holder[Window(0)] \notin {0, 1}
    BY <2>1, <2>3, <2>4 DEF IInv, LockInv, Accessing
  <2>6. holder[Window(0)] = None
    BY <2>4, <2>5 DEF IInv, TypeOK, Ranks
  <2> QED
    BY <2>3, <2>6 DEF NoCheckHolds
<1> QED
  BY <1>1, Invariance, PTL

(* Past the first barrier a rank finds the buffer filled and the other     *)
(* rank done with its warm-up (bench_win.c:37, bench_win_single.c:43).     *)
THEOREM WarmupEnds == Spec => []WarmupIsOver
<1>1. IInv => WarmupIsOver
  <2> SUFFICES ASSUME IInv, NEW r \in Ranks, epoch[r] > 0, pc[r] # "barrier1"
               PROVE  /\ epoch[Other(r)] > 0
                      /\ \A p \in Partitions : memory[p] # None
    BY DEF WarmupIsOver
  <2>1. epoch[Other(r)] > 0
    BY OtherPastWarmup
  <2>2. epoch[0] > 0
    BY <2>1 DEF Ranks, Other
  <2> QED
    BY <2>1, <2>2 DEF IInv, MemoryInv, None
<1> QED
  BY <1>1, Invariance, PTL

\* A rank that has left the last barrier has met the other one there.
LEMMA PastIterations ==
  ASSUME IInv, NEW r \in Ranks, collectives[r] > Warm + 1
  PROVE  pc[r] \in {"barrier2", "free", "barrier3", "done"} /\ (pc[r] = "barrier2" => inside[r])
<1>1. /\ Places(r) /\ n[r] \in Nat /\ epoch[r] \in Nat
      /\ collectives[r] = Behind(r) + (IF inside[r] THEN 1 ELSE 0)
      /\ WindowCount \in Nat /\ inside[r] \in BOOLEAN
      /\ pc[r] \in Collectives \cup {"lock", "put", "unlock", "done"}
  BY OwnTypes DEF IInv, CollectiveInv, TypeOK
<1>2. pc[r] \notin {"barrier0", "create", "barrier1"}
  BY <1>1 DEF Warm, First, Behind, Places
<1>3. ~Accessing(r)
  <2> SUFFICES ASSUME Accessing(r) PROVE FALSE
    OBVIOUS
  <2>1. ~inside[r]
    BY <1>1 DEF Places, Accessing, Collectives
  <2> QED
    BY <1>1, <2>1 DEF Warm, First, Behind, Accessing
<1>4. pc[r] = "barrier2" => inside[r]
  BY <1>1 DEF Warm, First, Behind
<1> QED
  BY <1>1, <1>2, <1>3, <1>4 DEF Accessing, Collectives

LEMMA OtherPastIterations ==
  ASSUME IInv, NEW r \in Ranks, pc[r] \in {"free", "barrier3", "done"}
  PROVE  /\ pc[Other(r)] \in {"barrier2", "free", "barrier3", "done"}
         /\ pc[Other(r)] = "barrier2" => inside[Other(r)]
<1>1. /\ Behind(r) <= collectives[Other(r)] /\ n[r] \in Nat
      /\ WindowCount \in Nat /\ collectives[Other(r)] \in Nat
      /\ Other(r) \in Ranks
  BY OwnTypes, OtherRank DEF IInv, CollectiveInv
<1>2. Behind(r) > Warm + 1
  BY <1>1 DEF Behind, Warm, First
<1>3. collectives[Other(r)] > Warm + 1
  BY <1>1, <1>2, OwnTypes DEF Warm, First
<1> QED
  BY <1>1, <1>3, PastIterations

(* Rank 1 compares its buffer when the last iteration has filled all of it *)
(* (bench.c:135).                                                          *)
THEOREM DataIsThere == Spec => []DataAtCheck
<1>1. IInv => DataAtCheck
  <2> SUFFICES ASSUME IInv, pc[1] = "done"
               PROVE  \A p \in Partitions : memory[p] = Iterations
    BY DEF DataAtCheck
  <2>1. 1 \in Ranks /\ 0 \in Ranks /\ Other(1) = 0
    BY DEF Ranks, Other
  <2>2. pc[0] \in {"barrier2", "free", "barrier3", "done"}
    BY <2>1, OtherPastIterations
  <2>3. epoch[0] = Iterations + 1 /\ ~Accessing(0)
    BY <2>1, <2>2 DEF IInv, CollectiveInv, Places, Accessing
  <2> QED
    BY <2>3, CountAssumption DEF IInv, MemoryInv
<1> QED
  BY <1>1, Invariance, PTL

-------------------------------------------------------------------------------
(* The refinement of RunMethod.                                            *)

Completed(r) == IF epoch[r] = 0 THEN 0 ELSE epoch[r] - 1
PhaseBar == [r \in Ranks |-> Phase(r)]
IterBar == [r \in Ranks |-> Completed(r)]

\* A rank that shows the same phase and iterations shows nothing of its step.
LEMMA HiddenStep ==
  ASSUME \A r \in Ranks : Phase(r)' = Phase(r) /\ Completed(r)' = Completed(r)
  PROVE  UNCHANGED Method!vars
<1>1. PhaseBar' = PhaseBar /\ IterBar' = IterBar
  BY DEF PhaseBar, IterBar
<1> QED
  BY <1>1 DEF Method!vars, PhaseBar, IterBar, Completed

\* A rank that moves to another phase makes RunMethod's Move.
LEMMA VisibleMove ==
  ASSUME NEW r \in Ranks, NEW from, NEW to,
         Phase(r) = from, Phase(r)' = to,
         \A q \in Ranks \ {r} : Phase(q)' = Phase(q),
         \A q \in Ranks : Completed(q)' = Completed(q)
  PROVE  /\ Method!Move(r, from, to)
         /\ UNCHANGED [q \in Ranks |-> IF epoch[q] = 0 THEN 0 ELSE epoch[q] - 1]
<1>1. PhaseBar' = [PhaseBar EXCEPT ![r] = to] /\ PhaseBar[r] = from
  BY DEF PhaseBar
<1>2. IterBar' = IterBar
  BY DEF IterBar
<1> QED
  BY <1>1, <1>2 DEF Method!Move, PhaseBar, IterBar, Completed

LEMMA OthersHidden ==
  ASSUME NEW r \in Ranks, OnlyRank(r)
  PROVE  \A q \in Ranks \ {r} : Phase(q)' = Phase(q) /\ Completed(q)' = Completed(q)
BY DEF OnlyRank, Phase, Completed

\* A barrier is entered.
LEMMA EnterImplements ==
  ASSUME IInv, NEW r \in Ranks, EnterCollective(r)
  PROVE  [Method!Next]_(Method!vars)
<1>1. /\ pc' = pc /\ epoch' = epoch /\ OnlyRank(r) /\ ~inside[r] /\ inside'[r]
      /\ pc[r] \in Collectives /\ Places(r)
  BY DEF EnterCollective, Enter, OnlyRank, IInv, TypeOK, CollectiveInv
<1>2. \A q \in Ranks : Completed(q)' = Completed(q)
  BY <1>1 DEF Completed
<1>3. \A q \in Ranks \ {r} : Phase(q)' = Phase(q)
  BY <1>1, OthersHidden
<1>4. CASE pc[r] = "barrier1"
  <2>1. Phase(r) = "warmup" /\ Phase(r)' = "first"
    BY <1>1, <1>4 DEF Phase, Places
  <2> QED
    BY <1>2, <1>3, <2>1, VisibleMove
       DEF Method!Next, Method!Rank, Method!EnterFirst, Method!Ranks, Ranks
<1>5. CASE pc[r] = "barrier2"
  <2>1. epoch[r] = IF r = 0 THEN Iterations + 1 ELSE 1
    BY <1>1, <1>5 DEF Places
  <2>2. Phase(r) = "timed" /\ Phase(r)' = "second"
    BY <1>1, <1>5, <2>1, CountAssumption DEF Phase
  <2>3. Completed(r) = IF r = 0 THEN Iterations ELSE 0
    BY <2>1, CountAssumption DEF Completed
  <2> QED
    BY <1>2, <1>3, <2>2, <2>3, VisibleMove
       DEF Method!Next, Method!Rank, Method!EnterSecond, Method!Ranks, Ranks,
           Completed
<1>6. CASE pc[r] \notin {"barrier1", "barrier2"}
  <2>1. Phase(r)' = Phase(r)
    BY <1>1, <1>6 DEF Phase
  <2> QED
    BY <1>2, <1>3, <2>1, HiddenStep
<1> QED
  BY <1>4, <1>5, <1>6

\* A collective is left.
LEMMA LeaveImplements ==
  ASSUME IInv, NEW r \in Ranks, LeaveCollective(r)
  PROVE  [Method!Next]_(Method!vars)
<1>1. /\ epoch' = epoch /\ OnlyRank(r) /\ inside[r] /\ ~inside'[r]
      /\ mode' = mode /\ collectives' = collectives
      /\ collectives[Other(r)] >= collectives[r]
  BY DEF LeaveCollective, Goto, OnlyRank, IInv, TypeOK
<1>2. /\ pc[r] \in Collectives /\ Places(r) /\ Iterations \in Nat
      /\ collectives[Other(r)] >= Behind(r) + 1 /\ WindowCount \in Nat
  BY <1>1, CountAssumption, OwnTypes DEF IInv, CollectiveInv, Places
<1>3. \A q \in Ranks : Completed(q)' = Completed(q)
  BY <1>1 DEF Completed
<1>4. \A q \in Ranks \ {r} : Phase(q)' = Phase(q)
  BY <1>1, OthersHidden
<1>5. Other(r) \in Ranks \ {r}
  BY OtherRank
<1>6. CASE pc[r] = "barrier1"
  <2>1. epoch[r] = 1 /\ pc'[r] = IF r = 0 /\ Iterations > 0 THEN "lock" ELSE "barrier2"
    BY <1>2, <1>6 DEF LeaveCollective, Goto, Places, IInv, TypeOK
  <2>2. Phase(r) = "first" /\ Phase(r)' = "timed"
    BY <1>1, <1>6, <2>1 DEF Phase
  <2>3. collectives[Other(r)] > Warm
    BY <1>2, <1>5, <1>6, OwnTypes DEF Behind, Warm, First
  <2>4. /\ epoch[Other(r)] > 0 /\ epoch[Other(r)] \in Nat
        /\ pc[Other(r)] = "barrier1" => inside[Other(r)]
    BY <1>5, <2>3, PastWarmup, OwnTypes
  <2>5. Phase(Other(r)) # "warmup"
    BY <2>4 DEF Phase
  <2> QED
    BY <1>3, <1>4, <2>2, <2>5, VisibleMove
       DEF Method!Next, Method!Rank, Method!LeaveFirst, Method!Ranks, Ranks,
           Method!Other, Other
<1>7. CASE pc[r] = "barrier2"
  <2>1. pc'[r] = "free" /\ epoch[r] > 0
    BY <1>2, <1>7 DEF LeaveCollective, Goto, Places, IInv, TypeOK
  <2>2. Phase(r) = "second" /\ Phase(r)' = "done"
    BY <1>1, <1>7, <2>1 DEF Phase
  <2>3. collectives[Other(r)] > Warm + 1
    BY <1>2, <1>5, <1>7, OwnTypes DEF Behind, Warm, First
  <2>4. /\ pc[Other(r)] \in {"barrier2", "free", "barrier3", "done"}
        /\ pc[Other(r)] = "barrier2" => inside[Other(r)]
    BY <1>5, <2>3, PastIterations
  <2>5. epoch[Other(r)] # 0
    BY <1>2, <1>5, <2>4 DEF IInv, CollectiveInv, Places
  <2>6. Phase(Other(r)) \in {"second", "done"}
    BY <2>4, <2>5 DEF Phase
  <2> QED
    BY <1>3, <1>4, <2>2, <2>6, VisibleMove
       DEF Method!Next, Method!Rank, Method!LeaveSecond, Method!Ranks, Ranks,
           Method!Other, Other
<1>8. CASE pc[r] \in {"barrier0", "create"}
  <2>1. Phase(r)' = Phase(r)
    BY <1>1, <1>2, <1>8 DEF Phase, Places
  <2> QED
    BY <1>3, <1>4, <2>1, HiddenStep
<1>9. CASE pc[r] \in {"free", "barrier3"}
  <2>1. pc'[r] \in {"free", "barrier3", "done"}
    BY <1>9 DEF LeaveCollective, Goto, IInv, TypeOK
  <2>2. Phase(r)' = Phase(r)
    BY <1>1, <1>2, <1>9, <2>1 DEF Phase
  <2> QED
    BY <1>3, <1>4, <2>2, HiddenStep
<1> QED
  BY <1>2, <1>6, <1>7, <1>8, <1>9 DEF Collectives

\* An unlock ends the warm-up, an iteration of rank 0, or neither.
LEMMA UnlockImplements ==
  ASSUME IInv, NEW r \in Ranks, Unlock(r)
  PROVE  [Method!Next]_(Method!vars)
<1>1. /\ pc[r] = "unlock" /\ OnlyRank(r) /\ Places(r) /\ ~inside[r] /\ inside' = inside
      /\ epoch[r] \in Nat /\ Iterations \in Nat
  BY OwnTypes DEF Unlock, At, Goto, OnlyRank, IInv, TypeOK, CollectiveInv, Places,
                  Collectives
<1>2. \A q \in Ranks \ {r} : Phase(q)' = Phase(q) /\ Completed(q)' = Completed(q)
  BY <1>1, OthersHidden
<1>3. CASE n[r] + 1 # Accesses(r)
  <2>1. pc'[r] = "lock" /\ epoch' = epoch
    BY <1>3, UnlockNext DEF IInv, TypeOK
  <2>2. Phase(r)' = Phase(r) /\ Completed(r)' = Completed(r)
    BY <1>1, <2>1 DEF Phase, Completed
  <2> QED
    BY <1>2, <2>2, HiddenStep
<1>4. CASE n[r] + 1 = Accesses(r)
  <2>1. /\ epoch'[r] = epoch[r] + 1
        /\ pc'[r] = IF epoch[r] = 0 THEN "barrier1"
                    ELSE IF epoch[r] < Iterations THEN "lock" ELSE "barrier2"
        /\ epoch[r] \in IF r = 0 THEN 0..Iterations ELSE {0}
    BY <1>4, UnlockLast DEF IInv, TypeOK
  <2>2. Phase(r)' = Phase(r)
    BY <1>1, <2>1 DEF Phase
  <2>3. CASE epoch[r] = 0
    <3>1. Completed(r)' = Completed(r)
      BY <2>1, <2>3 DEF Completed
    <3> QED
      BY <1>2, <2>2, <3>1, HiddenStep
  <2>4. CASE epoch[r] # 0
    <3>1. /\ r = 0 /\ Phase(r) = "timed"
          /\ Completed(r) < Iterations /\ Completed(r)' = Completed(r) + 1
      BY <1>1, <2>1, <2>4 DEF Phase, Completed, Ranks
    <3>2. PhaseBar' = PhaseBar
      BY <1>2, <2>2 DEF PhaseBar
    <3>3. IterBar' = [IterBar EXCEPT ![r] = @ + 1]
      BY <1>2, <3>1 DEF IterBar
    <3> QED
      BY <3>1, <3>2, <3>3
         DEF Method!Next, Method!Rank, Method!Iterate, Method!Ranks, Ranks,
             PhaseBar, IterBar, Completed
  <2> QED
    BY <2>3, <2>4
<1> QED
  BY <1>3, <1>4

\* Nothing else shows.
LEMMA AccessHidden ==
  ASSUME IInv,
         (\E r \in Ranks : Lock(r)) \/ Put \/ (\E p \in Partitions : Arrive(p))
           \/ UNCHANGED vars
  PROVE  UNCHANGED Method!vars
<1>1. CASE \E r \in Ranks : Lock(r)
  <2>1. PICK r \in Ranks : Lock(r)
    BY <1>1
  <2>2. /\ epoch' = epoch /\ inside' = inside /\ OnlyRank(r)
        /\ pc[r] = "lock" /\ pc'[r] \in {"put", "unlock"}
    BY <2>1 DEF Lock, At, Goto, OnlyRank, IInv, TypeOK
  <2>3. Phase(r)' = Phase(r)
    BY <2>2 DEF Phase
  <2> QED
    BY <2>2, <2>3, OthersHidden, HiddenStep DEF Completed
<1>2. CASE Put
  <2>1. /\ epoch' = epoch /\ inside' = inside /\ OnlyRank(0) /\ 0 \in Ranks
        /\ pc[0] = "put" /\ pc'[0] = "unlock"
    BY <1>2 DEF Put, At, Goto, OnlyRank, IInv, TypeOK, Ranks
  <2>2. Phase(0)' = Phase(0)
    BY <2>1 DEF Phase
  <2> QED
    BY <2>1, <2>2, OthersHidden, HiddenStep DEF Completed
<1>3. CASE (\E p \in Partitions : Arrive(p)) \/ UNCHANGED vars
  <2>1. UNCHANGED <<pc, epoch, inside>>
    BY <1>3 DEF Arrive, vars
  <2> QED
    BY <2>1, HiddenStep DEF Phase, Completed
<1> QED
  BY <1>1, <1>2, <1>3

(* Safety of the refinement: the two barriers of the one-sided methods keep *)
(* the timed iterations of a rank apart from the warm-up of the other one,  *)
(* and a rank is done only after the last iteration of rank 0               *)
(* (bench_win.c:37-38 and :64-71, bench_win_single.c:43-44).                *)
THEOREM ImplementsRunMethod == Spec => Method!Init /\ [][Method!Next]_(Method!vars)
<1>1. Init => Method!Init
  BY DEF Init, Method!Init, Phase, Ranks, Method!Ranks
<1>2. IInv /\ [Next]_vars => [Method!Next]_(Method!vars)
  <2> SUFFICES ASSUME IInv, [Next]_vars PROVE [Method!Next]_(Method!vars)
    OBVIOUS
  <2>1. CASE \E r \in Ranks : EnterCollective(r) \/ LeaveCollective(r) \/ Unlock(r)
    BY <2>1, EnterImplements, LeaveImplements, UnlockImplements
  <2>2. CASE (\E r \in Ranks : Lock(r)) \/ Put \/ (\E p \in Partitions : Arrive(p))
               \/ UNCHANGED vars
    BY <2>2, AccessHidden
  <2> QED
    BY <2>1, <2>2 DEF Next, Rank
<1> QED
  BY <1>1, <1>2, Invariance, PTL DEF Spec
================================================================================
