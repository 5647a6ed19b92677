-------------------------- MODULE DeviceMemory_proofs --------------------------
(***************************************************************************)
(* Proofs about the memory a GPU device hands out: the ring, the           *)
(* partitions of its queues and their quarantine, and the data arena.      *)
(***************************************************************************)
EXTENDS MCDeviceMemory, TLAPS, FiniteSetTheorems, SequenceTheorems, WellFoundedInduction

RingProofs == INSTANCE EventRing_proofs WITH
    RingSize <- C, Submissions <- RingSubmissions, UsesSlot <- RingSubmissions,
    stage <- submission

(* The device's constants are ones the ring is proved for. *)
LEMMA RingConstantsHold == RingProofs!RingConstants
BY QueueResourcesAssumption, RingSubmissionsAssumption DEF RingProofs!RingConstants

(* The ring of the composition is the ring the proofs are about. *)
LEMMA SameRing ==
    /\ Ring!Init <=> RingProofs!Init
    /\ Ring!Next <=> RingProofs!Next
    /\ RingProofs!RingSafe <=> RingExact
  <1>1. Ring!Init <=> RingProofs!Init
    BY DEF Ring!Init, RingProofs!Init, Ring!None, RingProofs!None, Ring!Resources,
       RingProofs!Resources
  <1>2. \A s : Ring!Step(s) <=> RingProofs!Step(s)
    BY DEF Ring!Step, RingProofs!Step, Ring!TryAcquire, RingProofs!TryAcquire,
       Ring!Drop, RingProofs!Drop, Ring!ExecuteNothing, RingProofs!ExecuteNothing,
       Ring!ExecuteNative, RingProofs!ExecuteNative, Ring!NativeFinish,
       RingProofs!NativeFinish, Ring!OnWorkerComplete, RingProofs!OnWorkerComplete,
       Ring!OnWorkerDestroy, RingProofs!OnWorkerDestroy, Ring!Retire, RingProofs!Retire,
       Ring!DestroyTask, RingProofs!DestroyTask, Ring!CanAcquire, RingProofs!CanAcquire,
       Ring!FreeEvents, RingProofs!FreeEvents, Ring!FreeSlots, RingProofs!FreeSlots,
       Ring!First, RingProofs!First, Ring!Returned, RingProofs!Returned,
       Ring!RetireUnknown, RingProofs!RetireUnknown, Ring!SyncEvent,
       RingProofs!SyncEvent, Ring!DestroyProof, RingProofs!DestroyProof, Ring!None,
       RingProofs!None, Ring!Resources, RingProofs!Resources
  <1>3. \A ok : Ring!Drain(ok) <=> RingProofs!Drain(ok)
    BY DEF Ring!Drain, RingProofs!Drain, Ring!OnQueueDrain, RingProofs!OnQueueDrain,
       Ring!Idle, RingProofs!Idle, Ring!None, RingProofs!None, Ring!Resources,
       RingProofs!Resources
  <1>4. RingProofs!RingSafe <=> RingExact
    <2>1. Ring!RingTypeOK <=> RingProofs!RingTypeOK
      BY DEF Ring!RingTypeOK, RingProofs!RingTypeOK, Ring!Optional,
         RingProofs!Optional, Ring!Stages, RingProofs!Stages, Ring!None, RingProofs!None,
         Ring!Resources, RingProofs!Resources
    <2>2. /\ Ring!RunningHoldsResources <=> RingProofs!RunningHoldsResources
          /\ Ring!RunningDisjoint <=> RingProofs!RunningDisjoint
      BY DEF Ring!RunningHoldsResources, RingProofs!RunningHoldsResources,
         Ring!RunningDisjoint, RingProofs!RunningDisjoint, Ring!Running,
         RingProofs!Running, Ring!None, RingProofs!None
    <2>3. /\ Ring!ProofIsSound <=> RingProofs!ProofIsSound
          /\ Ring!UnknownsCounted <=> RingProofs!UnknownsCounted
      BY DEF Ring!ProofIsSound, RingProofs!ProofIsSound, Ring!UnknownsCounted,
         RingProofs!UnknownsCounted, Ring!Cardinality, RingProofs!Cardinality
    <2>4. Ring!IdleMeansFree <=> RingProofs!IdleMeansFree
      BY DEF Ring!IdleMeansFree, RingProofs!IdleMeansFree, Ring!Idle, RingProofs!Idle,
         Ring!None, RingProofs!None, Ring!Resources, RingProofs!Resources
    <2> QED
      BY <2>1, <2>2, <2>3, <2>4 DEF RingExact, RingProofs!RingSafe
  <1> QED
    BY <1>1, <1>2, <1>3, <1>4 DEF Ring!Next, RingProofs!Next

(* The ring and the pool of every GPU device, with any number of events and *)
(* any history of submissions, never hand out what running work uses, never *)
(* call such work complete and account for every event and slot they        *)
(* withhold (event_ring.hpp, metadata_slot_pool.hpp).                       *)
THEOREM RingIsExact == MemorySpec => []RingExact
  <1>1. MemoryInit => RingProofs!Init
    BY SameRing DEF MemoryInit
  <1>2. [MemoryNext]_<<vars, dataVars, ringVars>> => [RingProofs!Next]_RingProofs!ringVars
    BY SameRing DEF MemoryNext, ringVars, RingProofs!ringVars
  <1>3. RingProofs!Spec => []RingProofs!RingSafe
    BY RingConstantsHold, RingProofs!RingCorrect
  <1>4. RingProofs!RingSafe => RingExact
    BY SameRing
  <1> QED
    BY <1>1, <1>2, <1>3, <1>4, PTL DEF MemorySpec, RingProofs!Spec


--------------------------------------------------------------------------------
(* The stack of the metadata allocator is cut into whole partitions, read   *)
(* from its bottom, and holds no slot twice.                                *)
Tiled(s) ==
    /\ Len(s) % C = 0
    /\ \A i \in DOMAIN s : i % C = 0 =>
           \E b \in Blocks : b % C = 0 /\ {s[k] : k \in i - C + 1 .. i} = Partition(b)

StackTiled == IsInjective(freeIndices) /\ Tiled(freeIndices)

(* Leases hold whole partitions, apart from each other and from the stack.  *)
LeasesApart ==
    /\ \A q \in Holders : base[q] % C = 0 /\ Partition(base[q]) \subseteq Blocks
    /\ \A q, r \in Holders : q # r => Partition(base[q]) \cap Partition(base[r]) = {}
    /\ \A q \in Holders : Partition(base[q]) \cap ToSet(freeIndices) = {}

(* No slot is lost. *)
SlotsCovered ==
    \A b \in Blocks : b \in ToSet(freeIndices) \/ \E q \in Holders : b \in Partition(base[q])

(* A queue has a lease while it lives or is retained, and counts until its  *)
(* destructor ends.                                                         *)
LivesCounted ==
    /\ \A q \in Queues : base[q] # NoBase <=> stage[q] \in {"live", "retained"}
    /\ \A q \in Queues : stage[q] = "none" => q \notin slots
    /\ \A q \in Queues : stage[q] \in {"slot", "live", "unwinding"} => q \in slots
    /\ IsFiniteSet(slots) /\ liveQueues = Cardinality(slots)
    /\ device # "alive" => slots = {}

(* Every retained lease is in the quarantine or in the array of a reclaim,  *)
(* and what that has passed is proved or back in the quarantine.            *)
LeasesQuarantined ==
    /\ IsInjective(retained) /\ IsInjective(pending)
    /\ ToSet(retained) \cup ToSet(pending) = {q \in Queues : stage[q] = "retained"}
    /\ proved \subseteq ToSet(pending) /\ proved \cap ToSet(retained) = {}
    /\ \A i \in DOMAIN pending :
           IF i < next THEN pending[i] \in proved \cup ToSet(retained)
           ELSE pending[i] \notin proved \cup ToSet(retained)
    /\ pending = <<>> <=> next = 0
    /\ Len(pending) <= MaxLiveGpuQueues
    /\ device = "destroyed" => retained = <<>> /\ pending = <<>>

--------------------------------------------------------------------------------
(***************************************************************************)
(* Multiples of C are C apart.                                             *)
(***************************************************************************)
LEMMA Multiples ==
    ASSUME NEW a \in Nat, NEW b \in Nat, a % C = 0, b % C = 0, a < b
    PROVE  a + C <= b
  <1> DEFINE m == a \div C
             n == b \div C
  <1>1. C \in Nat /\ C > 0
    BY QueueResourcesAssumption
  <1>2. m \in Int /\ a = C * m
    BY <1>1
  <1>3. n \in Int /\ b = C * n
    BY <1>1
  <1> HIDE DEF m, n
  <1>4. m < n
    <2>1. SUFFICES ASSUME n <= m PROVE FALSE
      BY <1>2, <1>3
    <2>2. C * n <= C * m
      BY <1>1, <1>2, <1>3, <2>1
    <2> QED
      BY <1>2, <1>3, <2>2
  <1>5. C * (m + 1) <= C * n
    BY <1>1, <1>2, <1>3, <1>4
  <1>6. C * (m + 1) = C * m + C
    BY <1>1, <1>2
  <1> QED
    BY <1>2, <1>3, <1>5, <1>6

(* ... and the one after and the one before a multiple are multiples. *)
LEMMA NextMultiple ==
    ASSUME NEW a \in Nat, a % C = 0
    PROVE  /\ (a + C) % C = 0
           /\ a >= C => (a - C) % C = 0
  <1> DEFINE m == a \div C
  <1>1. C \in Nat /\ C > 0
    BY QueueResourcesAssumption
  <1>2. m \in Int /\ a = C * m
    BY <1>1
  <1> HIDE DEF m
  <1>3. a + C = C * (m + 1) /\ a - C = C * (m - 1)
    BY <1>1, <1>2
  <1>4. \A k \in Int : (C * k) % C = 0
    BY <1>1
  <1> QED
    BY <1>2, <1>3, <1>4

(* A stack that is not empty has a partition on it. *)
LEMMA HasTop ==
    ASSUME NEW s \in Seq(Blocks), Tiled(s), s # <<>>
    PROVE  Len(s) \in Nat /\ Len(s) >= C
  <1>1. C \in Nat /\ C > 0 /\ 0 % C = 0
    BY QueueResourcesAssumption
  <1>2. Len(s) \in Nat /\ Len(s) > 0 /\ Len(s) % C = 0
    BY EmptySeq, LenProperties DEF Tiled
  <1> QED
    BY <1>1, <1>2, Multiples

(* Two sequences joined, element by element. *)
LEMMA Joined ==
    ASSUME NEW S, NEW s \in Seq(S), NEW t \in Seq(S)
    PROVE  /\ s \o t \in Seq(S) /\ Len(s \o t) = Len(s) + Len(t)
           /\ DOMAIN (s \o t) = 1 .. Len(s) + Len(t)
           /\ \A i \in 1 .. Len(s) + Len(t) :
                  (s \o t)[i] = IF i <= Len(s) THEN s[i] ELSE t[i - Len(s)]
  <1>1. s \o t \in Seq(S) /\ Len(s \o t) = Len(s) + Len(t)
    BY ConcatProperties
  <1>2. \A i \in 1 .. Len(s) + Len(t) :
            (s \o t)[i] = IF i <= Len(s) THEN s[i] ELSE t[i - Len(s)]
    BY ConcatProperties
  <1>3. DOMAIN (s \o t) = 1 .. Len(s \o t)
    BY <1>1, LenProperties
  <1> QED
    BY <1>1, <1>2, <1>3

(* ... here with C slots on top of a stack. *)
LEMMA PushedOn ==
    ASSUME NEW s \in Seq(Blocks), NEW t, t \in Seq(Blocks) /\ Len(t) = C
    PROVE  /\ s \o t \in Seq(Blocks) /\ Len(s \o t) = Len(s) + C
           /\ DOMAIN (s \o t) = 1 .. Len(s) + C
           /\ \A i \in 1 .. Len(s) + C :
                  (s \o t)[i] = IF i <= Len(s) THEN s[i] ELSE t[i - Len(s)]
  BY Joined

(* Pushing a partition that is not on the stack keeps it tiled. *)
LEMMA Push ==
    ASSUME NEW s \in Seq(Blocks), IsInjective(s), Tiled(s),
           NEW b \in Blocks, b % C = 0, Partition(b) \subseteq Blocks,
           Partition(b) \cap ToSet(s) = {},
           NEW t \in Bijection(1 .. C, Partition(b))
    PROVE  /\ s \o t \in Seq(Blocks) /\ IsInjective(s \o t) /\ Tiled(s \o t)
           /\ ToSet(s \o t) = ToSet(s) \cup Partition(b)
  <1>1. C \in Nat /\ C > 0
    BY QueueResourcesAssumption
  <1>0. /\ t \in [1 .. C -> Partition(b)] /\ IsInjective(t)
        /\ \A x \in Partition(b) : \E i \in 1 .. C : t[i] = x
    BY DEF Bijection, Injection, Surjection
  <1>2. t \in Seq(Blocks) /\ Len(t) = C /\ DOMAIN t = 1 .. C
    <2>1. t \in [1 .. C -> Blocks]
      BY <1>0
    <2>2. t \in Seq(Blocks)
      BY <1>1, <2>1, SeqDef
    <2> QED
      BY <1>0, <1>1, <2>2, LenProperties
  <1>3. Len(s) \in Nat /\ DOMAIN s = 1 .. Len(s)
    BY LenProperties
  <1>4. /\ s \o t \in Seq(Blocks) /\ Len(s \o t) = Len(s) + C
        /\ DOMAIN (s \o t) = 1 .. Len(s) + C
        /\ \A i \in 1 .. Len(s) + C : (s \o t)[i] = IF i <= Len(s) THEN s[i] ELSE t[i - Len(s)]
    <2>1. t \in Seq(Blocks) /\ Len(t) = C
      BY <1>2
    <2> QED
      BY <2>1, PushedOn
  <1> DEFINE u == s \o t
             n == Len(s)
  <1>5. /\ u \in Seq(Blocks) /\ Len(u) = n + C /\ DOMAIN u = 1 .. n + C
        /\ \A i \in 1 .. n : u[i] = s[i]
        /\ \A i \in 1 .. C : u[n + i] = t[i]
    <2>1. \A i \in 1 .. C : n + i \in 1 .. n + C /\ ~(n + i <= n) /\ (n + i) - n = i
      BY <1>1, <1>3
    <2>2. \A i \in 1 .. n : i \in 1 .. n + C /\ i <= n
      BY <1>1, <1>3
    <2> QED
      BY <1>4, <2>1, <2>2
  <1>6. \A i \in 1 .. n + C : i \in 1 .. n \/ \E k \in 1 .. C : i = n + k
    <2>1. TAKE i \in 1 .. n + C
    <2>2. CASE i <= n
      BY <1>1, <1>3, <2>2
    <2>3. CASE i > n
      <3>1. i - n \in 1 .. C /\ i = n + (i - n)
        BY <1>1, <1>3, <2>3
      <3> QED
        BY <3>1
    <2> QED
      BY <1>1, <1>3, <2>2, <2>3
  <1> HIDE DEF u
  <1>7. ToSet(u) = ToSet(s) \cup Partition(b)
    <2>1. ToSet(u) \subseteq ToSet(s) \cup Partition(b)
      <3>1. SUFFICES ASSUME NEW i \in 1 .. n + C
                     PROVE  u[i] \in ToSet(s) \cup Partition(b)
        BY <1>5 DEF ToSet
      <3>2. CASE i \in 1 .. n
        BY <1>3, <1>5, <3>2 DEF ToSet
      <3>3. CASE \E k \in 1 .. C : i = n + k
        BY <1>0, <1>5, <3>3
      <3> QED
        BY <1>6, <3>2, <3>3
    <2>2. ToSet(s) \subseteq ToSet(u)
      <3>1. \A i \in 1 .. n : i \in DOMAIN u
        BY <1>1, <1>3, <1>5
      <3> QED
        BY <1>3, <1>5, <3>1 DEF ToSet
    <2>3. Partition(b) \subseteq ToSet(u)
      <3>1. \A i \in 1 .. C : n + i \in DOMAIN u
        BY <1>1, <1>3, <1>5
      <3> QED
        BY <1>0, <1>5, <3>1 DEF ToSet
    <2> QED
      BY <2>1, <2>2, <2>3
  <1>8. IsInjective(u)
    <2>1. SUFFICES ASSUME NEW i \in 1 .. n + C, NEW j \in 1 .. n + C, u[i] = u[j]
                   PROVE  i = j
      BY <1>5 DEF IsInjective
    <2>2. CASE i \in 1 .. n /\ j \in 1 .. n
      BY <1>3, <1>5, <2>1, <2>2 DEF IsInjective
    <2>3. CASE i \in 1 .. n /\ \E k \in 1 .. C : j = n + k
      BY <1>0, <1>3, <1>5, <2>1, <2>3 DEF ToSet
    <2>4. CASE j \in 1 .. n /\ \E k \in 1 .. C : i = n + k
      <3>1. PICK k \in 1 .. C : i = n + k
        BY <2>4
      <3>2. t[k] = s[j] /\ t[k] \in Partition(b)
        BY <1>0, <1>5, <2>1, <2>4, <3>1
      <3>3. s[j] \in ToSet(s)
        BY <1>3, <2>4 DEF ToSet
      <3> QED
        BY <3>2, <3>3
    <2>5. CASE (\E k \in 1 .. C : i = n + k) /\ \E k \in 1 .. C : j = n + k
      <3>1. PICK k \in 1 .. C, l \in 1 .. C : i = n + k /\ j = n + l
        BY <2>5
      <3>2. t[k] = t[l]
        BY <1>5, <2>1, <3>1
      <3> QED
        BY <1>0, <1>2, <3>1, <3>2 DEF IsInjective
    <2> QED
      BY <1>6, <2>2, <2>3, <2>4, <2>5
  <1>9. Tiled(u)
    <2>1. n % C = 0 /\ (n + C) % C = 0
      BY <1>3, NextMultiple DEF Tiled
    <2>2. ASSUME NEW i \in 1 .. n + C, i % C = 0
          PROVE  \E d \in Blocks : d % C = 0 /\ {u[k] : k \in i - C + 1 .. i} = Partition(d)
      <3>1. CASE i \in 1 .. n
        <4>1. PICK d \in Blocks : d % C = 0 /\ {s[k] : k \in i - C + 1 .. i} = Partition(d)
          BY <1>3, <2>2, <3>1 DEF Tiled
        <4>2. i - C + 1 .. i \subseteq 1 .. n
          <5>1. 0 % C = 0 /\ 0 < i /\ i \in Nat
            BY <1>1, <3>1
          <5>2. 0 + C <= i
            BY <2>2, <5>1, Multiples
          <5> QED
            BY <1>1, <1>3, <3>1, <5>2
        <4>3. {u[k] : k \in i - C + 1 .. i} = {s[k] : k \in i - C + 1 .. i}
          BY <1>5, <4>2
        <4> QED
          BY <4>1, <4>3
      <3>2. CASE i > n
        <4>1. n + C <= i
          BY <1>1, <1>3, <2>1, <2>2, <3>2, Multiples
        <4>2. i = n + C
          BY <1>1, <1>3, <4>1
        <4>3. \A k \in i - C + 1 .. i : k - n \in 1 .. C /\ k = n + (k - n)
          BY <1>1, <1>3, <4>2
        <4>4. \A k \in 1 .. C : n + k \in i - C + 1 .. i
          BY <1>1, <1>3, <4>2
        <4>5. {u[k] : k \in i - C + 1 .. i} = Partition(b)
          <5>1. \A k \in i - C + 1 .. i : u[k] \in Partition(b)
            BY <1>0, <1>5, <4>3
          <5>2. \A x \in Partition(b) : \E k \in i - C + 1 .. i : u[k] = x
            BY <1>0, <1>5, <4>4
          <5> QED
            BY <5>1, <5>2
        <4> QED
          BY <4>5
      <3> QED
        BY <1>1, <1>3, <3>1, <3>2
    <2> QED
      BY <1>5, <2>1, <2>2 DEF Tiled
  <1> QED
    BY <1>5, <1>7, <1>8, <1>9 DEF u

(* Taking the C slots on top of the stack keeps it tiled; they are one      *)
(* partition.                                                               *)
LEMMA Pop ==
    ASSUME NEW s \in Seq(Blocks), IsInjective(s), Tiled(s), Len(s) >= C
    PROVE  LET u == SubSeq(s, 1, Len(s) - C)
               top == {s[k] : k \in Len(s) - C + 1 .. Len(s)}
           IN  /\ u \in Seq(Blocks) /\ IsInjective(u) /\ Tiled(u)
               /\ ToSet(u) = ToSet(s) \ top
               /\ top \subseteq ToSet(s)
               /\ \E b \in Blocks : b % C = 0 /\ top = Partition(b)
  <1> DEFINE n == Len(s) - C
             u == SubSeq(s, 1, n)
             top == {s[k] : k \in Len(s) - C + 1 .. Len(s)}
  <1>1. C \in Nat /\ C > 0
    BY QueueResourcesAssumption
  <1>2. Len(s) \in Nat /\ DOMAIN s = 1 .. Len(s) /\ s \in [1 .. Len(s) -> Blocks]
    BY LenProperties
  <1>3. n \in Nat /\ Len(s) = n + C
    BY <1>1, <1>2
  <1> HIDE DEF n
  <1>4. u \in Seq(Blocks) /\ Len(u) = n /\ \A i \in 1 .. n : u[i] = s[i]
    <2>1. \A i \in 1 .. n : s[i] \in Blocks
      BY <1>1, <1>2, <1>3
    <2>2. /\ u \in Seq(Blocks)
          /\ Len(u) = IF 1 <= n THEN n - 1 + 1 ELSE 0
          /\ \A i \in 1 .. n - 1 + 1 : u[i] = s[1 + i - 1]
      BY <1>3, <2>1, SubSeqProperties
    <2>3. (IF 1 <= n THEN n - 1 + 1 ELSE 0) = n /\ n - 1 + 1 = n
      BY <1>3
    <2>4. \A i \in 1 .. n : 1 + i - 1 = i
      BY <1>3
    <2> QED
      BY <2>2, <2>3, <2>4
  <1>5. DOMAIN u = 1 .. n
    BY <1>4, LenProperties
  <1> HIDE DEF u
  <1>6. \A i \in 1 .. n : i \in 1 .. Len(s)
    BY <1>1, <1>2, <1>3
  <1>7. IsInjective(u)
    BY <1>2, <1>4, <1>5, <1>6 DEF IsInjective
  <1>8. top = {s[k] : k \in n + 1 .. n + C}
    <2>1. Len(s) - C + 1 = n + 1 /\ Len(s) = n + C
      BY <1>1, <1>2, <1>3
    <2> QED
      BY <2>1
  <1>9. \A k \in n + 1 .. n + C : k \in 1 .. Len(s) /\ k \notin 1 .. n
    BY <1>1, <1>3
  <1>10. \A k \in 1 .. Len(s) : k \in 1 .. n \/ k \in n + 1 .. n + C
    BY <1>1, <1>2, <1>3
  <1>11. top \subseteq ToSet(s)
    BY <1>2, <1>8, <1>9 DEF ToSet
  <1>12. ToSet(u) = ToSet(s) \ top
    <2>1. ToSet(u) \subseteq ToSet(s)
      BY <1>2, <1>4, <1>5, <1>6 DEF ToSet
    <2>2. ToSet(u) \cap top = {}
      <3>1. SUFFICES ASSUME NEW i \in 1 .. n, NEW k \in n + 1 .. n + C, u[i] = s[k]
                     PROVE  FALSE
        BY <1>5, <1>8 DEF ToSet
      <3>2. s[i] = s[k] /\ i # k
        BY <1>4, <1>9, <3>1
      <3> QED
        BY <1>2, <1>6, <1>9, <3>2 DEF IsInjective
    <2>3. ToSet(s) \subseteq ToSet(u) \cup top
      BY <1>2, <1>4, <1>5, <1>8, <1>10 DEF ToSet
    <2> QED
      BY <2>1, <2>2, <2>3
  <1>13. Len(s) % C = 0 /\ n % C = 0
    <2>1. (Len(s) - C) % C = 0
      BY <1>1, <1>2, NextMultiple DEF Tiled
    <2>2. Len(s) - C = n
      BY <1>1, <1>2, <1>3
    <2> QED
      BY <2>1, <2>2 DEF Tiled
  <1>14. Tiled(u)
    <2>1. ASSUME NEW i \in 1 .. n, i % C = 0
          PROVE  \E d \in Blocks : d % C = 0 /\ {u[k] : k \in i - C + 1 .. i} = Partition(d)
      <3>1. PICK d \in Blocks : d % C = 0 /\ {s[k] : k \in i - C + 1 .. i} = Partition(d)
        BY <1>2, <1>6, <2>1 DEF Tiled
      <3>2. i - C + 1 .. i \subseteq 1 .. n
        <4>1. 0 % C = 0 /\ 0 < i /\ i \in Nat
          BY <1>1, <1>3
        <4>2. 0 + C <= i
          BY <2>1, <4>1, Multiples
        <4> QED
          BY <1>1, <1>3, <4>2
      <3>3. {u[k] : k \in i - C + 1 .. i} = {s[k] : k \in i - C + 1 .. i}
        BY <1>4, <3>2
      <3> QED
        BY <3>1, <3>3
    <2> QED
      BY <1>4, <1>5, <1>13, <2>1 DEF Tiled
  <1>15. \E b \in Blocks : b % C = 0 /\ top = Partition(b)
    <2>1. Len(s) \in DOMAIN s
      BY <1>1, <1>2, <1>3
    <2> QED
      BY <1>13, <2>1 DEF Tiled
  <1> QED
    BY <1>4, <1>7, <1>11, <1>12, <1>14, <1>15 DEF u, n

(* The blocks alloc() takes are the top of the stack. *)
LEMMA TopTaken ==
    ASSUME freeIndices \in Seq(Blocks), IsInjective(freeIndices), Len(freeIndices) >= C
    PROVE  /\ Top \in [1 .. C -> Blocks]
           /\ ToSet(Top) = {freeIndices[k] : k \in Len(freeIndices) - C + 1 .. Len(freeIndices)}
  <1> DEFINE n == Len(freeIndices)
  <1>1. C \in Nat /\ C > 0
    BY QueueResourcesAssumption
  <1>2. n \in Nat /\ n >= C /\ \A k \in 1 .. n : freeIndices[k] \in Blocks
    BY LenProperties
  <1>3. Top = [i \in 1 .. C |-> freeIndices[n + 1 - i]]
    BY DEF Top
  <1> HIDE DEF n
  <1>4. \A i \in 1 .. C : n + 1 - i \in n - C + 1 .. n /\ n + 1 - i \in 1 .. n
    BY <1>1, <1>2
  <1>5. \A k \in n - C + 1 .. n : n + 1 - k \in 1 .. C /\ n + 1 - (n + 1 - k) = k
    BY <1>1, <1>2
  <1>6. Top \in [1 .. C -> Blocks]
    BY <1>2, <1>3, <1>4
  <1>7. ToSet(Top) = {freeIndices[k] : k \in n - C + 1 .. n}
    <2>1. ToSet(Top) = {freeIndices[n + 1 - i] : i \in 1 .. C}
      BY <1>3 DEF ToSet
    <2>2. \A k \in n - C + 1 .. n : \E i \in 1 .. C : n + 1 - i = k
      BY <1>5
    <2> QED
      BY <1>4, <2>1, <2>2
  <1> QED
    BY <1>6, <1>7 DEF n

(* The slots of a partition in their order. *)
LEMMA AscendingOf ==
    ASSUME NEW b \in Nat
    PROVE  /\ Ascending(b) \in [1 .. C -> Partition(b)]
           /\ \A i, j \in 1 .. C : i < j => Ascending(b)[i] < Ascending(b)[j]
           /\ Ascending(b) \in Bijection(1 .. C, Partition(b))
  <1>1. C \in Nat /\ C > 0
    BY QueueResourcesAssumption
  <1>2. Ascending(b) = [i \in 1 .. C |-> b + i - 1] /\ Partition(b) = b .. b + C - 1
    BY DEF Ascending, Partition
  <1>3. \A i \in 1 .. C : b + i - 1 \in b .. b + C - 1
    BY <1>1
  <1>4. \A i, j \in 1 .. C : (i < j => b + i - 1 < b + j - 1) /\ (b + i - 1 = b + j - 1 => i = j)
    BY <1>1
  <1>5. \A x \in b .. b + C - 1 : x - b + 1 \in 1 .. C /\ b + (x - b + 1) - 1 = x
    BY <1>1
  <1> QED
    BY <1>2, <1>3, <1>4, <1>5 DEF IsInjective, Bijection, Injection, Surjection

(* Sorting the slots of a partition neither drops nor doubles one. *)
LEMMA SortedPartition ==
    ASSUME NEW t, DOMAIN t = 1 .. C, NEW b \in Nat, ToSet(t) = Partition(b)
    PROVE  Sorted(t) \in Bijection(1 .. C, Partition(b))
  <1>1. C \in Nat /\ C > 0
    BY QueueResourcesAssumption
  <1>2. \E s \in [1 .. C -> Partition(b)] : \A i, j \in 1 .. C : i < j => s[i] < s[j]
    BY AscendingOf
  <1>3. /\ Sorted(t) \in [1 .. C -> Partition(b)]
        /\ \A i, j \in 1 .. C : i < j => Sorted(t)[i] < Sorted(t)[j]
    BY <1>2 DEF Sorted
  <1> DEFINE s == Sorted(t)
  <1> HIDE DEF s
  <1>4. s \in [1 .. C -> Partition(b)] /\ \A i, j \in 1 .. C : i < j => s[i] < s[j]
    BY <1>3 DEF s
  <1>5. IsInjective(s)
    <2>1. SUFFICES ASSUME NEW i \in 1 .. C, NEW j \in 1 .. C, s[i] = s[j]
                   PROVE  i = j
      BY <1>4 DEF IsInjective
    <2>2. s[i] \in Int /\ s[j] \in Int
      BY <1>1, <1>4 DEF Partition
    <2>3. ~(i < j) /\ ~(j < i)
      BY <1>4, <2>1, <2>2
    <2> QED
      BY <1>1, <2>3
  <1>6. s \in Injection(1 .. C, Partition(b))
    BY <1>4, <1>5 DEF Injection
  <1>7. /\ IsFiniteSet(Partition(b)) /\ Cardinality(1 .. C) = C
        /\ Cardinality(Partition(b)) = C
    <2>1. b \in Int /\ b + C - 1 \in Int /\ ~(b > b + C - 1) /\ (b + C - 1) - b + 1 = C
      BY <1>1
    <2>2. Cardinality(1 .. C) = C
      BY <1>1, FS_Interval
    <2>3. IsFiniteSet(b .. b + C - 1) /\ Cardinality(b .. b + C - 1) = C
      BY <2>1, FS_Interval
    <2> QED
      BY <2>2, <2>3 DEF Partition
  <1>8. s \in Surjection(1 .. C, Partition(b))
    BY <1>6, <1>7, FS_Injection
  <1> QED
    BY <1>6, <1>8 DEF Bijection, s

--------------------------------------------------------------------------------
(***************************************************************************)
(* What the steps do to the slots.                                         *)
(***************************************************************************)
SlotsOK ==
    /\ freeIndices \in Seq(Blocks) /\ base \in [Queues -> Blocks \cup {NoBase}]
    /\ StackTiled /\ LeasesApart /\ SlotsCovered

(* Every slot number is natural, and none stands for "no lease". *)
LEMMA BlocksNatural == Blocks \subseteq Nat /\ NoBase \notin Blocks
  <1>1. MaxLiveGpuQueues * C \in Nat
    BY QueueResourcesAssumption
  <1> QED
    BY <1>1 DEF Blocks, NoBase

(* A lease that ends gives its whole partition back. *)
LEMMA GiveBack ==
    ASSUME SlotsOK, NEW q \in Holders,
           freeIndices' = Release(freeIndices, base[q]),
           base' = [base EXCEPT ![q] = NoBase]
    PROVE  SlotsOK'
  <1> DEFINE b == base[q]
  <1>1. /\ q \in Queues /\ b \in Blocks /\ b \in Nat /\ b % C = 0
        /\ Partition(b) \subseteq Blocks /\ Partition(b) \cap ToSet(freeIndices) = {}
        /\ IsInjective(freeIndices) /\ Tiled(freeIndices) /\ freeIndices \in Seq(Blocks)
    BY BlocksNatural DEF SlotsOK, Holders, LeasesApart, StackTiled
  <1>2. /\ freeIndices' = freeIndices \o Ascending(b)
        /\ Ascending(b) \in Bijection(1 .. C, Partition(b))
    BY <1>1, AscendingOf DEF Release
  <1>3. /\ freeIndices' \in Seq(Blocks) /\ IsInjective(freeIndices') /\ Tiled(freeIndices')
        /\ ToSet(freeIndices') = ToSet(freeIndices) \cup Partition(b)
    <2> HIDE DEF b
    <2>1. LET u == freeIndices \o Ascending(b)
          IN  /\ u \in Seq(Blocks) /\ IsInjective(u) /\ Tiled(u)
              /\ ToSet(u) = ToSet(freeIndices) \cup Partition(b)
      BY <1>1, <1>2, Push
    <2> QED
      BY <1>2, <2>1
  <1>4. /\ base' \in [Queues -> Blocks \cup {NoBase}] /\ base'[q] = NoBase
        /\ \A r \in Queues : r # q => base'[r] = base[r]
    BY <1>1 DEF SlotsOK
  <1>5. Holders' = Holders \ {q}
    BY <1>1, <1>4 DEF Holders
  <1>6. LeasesApart'
    <2>1. \A r \in Holders' : base'[r] = base[r] /\ r \in Holders
      BY <1>4, <1>5 DEF Holders
    <2>2. \A r \in Holders' : Partition(base'[r]) \cap ToSet(freeIndices') = {}
      BY <1>3, <1>5, <2>1 DEF SlotsOK, LeasesApart
    <2> QED
      BY <2>1, <2>2 DEF SlotsOK, LeasesApart
  <1>7. SlotsCovered'
    <2>1. \A x \in Blocks : x \in ToSet(freeIndices') \/ \E r \in Holders' : x \in Partition(base'[r])
      <3>1. TAKE x \in Blocks
      <3>2. CASE x \in ToSet(freeIndices)
        BY <1>3, <3>2
      <3>3. CASE \E r \in Holders : x \in Partition(base[r])
        <4>1. PICK r \in Holders : x \in Partition(base[r])
          BY <3>3
        <4>2. CASE r = q
          BY <1>3, <4>1, <4>2
        <4>3. CASE r # q
          BY <1>4, <1>5, <4>1, <4>3 DEF Holders
        <4> QED
          BY <4>2, <4>3
      <3> QED
        BY <3>2, <3>3 DEF SlotsOK, SlotsCovered
    <2> QED
      BY <2>1 DEF SlotsCovered
  <1> QED
    BY <1>3, <1>4, <1>6, <1>7 DEF SlotsOK, StackTiled

(* What alloc() can take C times is one partition no queue has. *)
LEMMA OnTop ==
    ASSUME SlotsOK, Len(freeIndices) >= C
    PROVE  \E b \in Blocks :
               /\ b % C = 0 /\ b \in Nat /\ Partition(b) \subseteq Blocks
               /\ ToSet(Top) = Partition(b) /\ DOMAIN Top = 1 .. C
               /\ Partition(b) \subseteq ToSet(freeIndices)
               /\ Below \in Seq(Blocks) /\ IsInjective(Below) /\ Tiled(Below)
               /\ ToSet(Below) = ToSet(freeIndices) \ Partition(b)
  <1>1. freeIndices \in Seq(Blocks) /\ IsInjective(freeIndices) /\ Tiled(freeIndices)
    BY DEF SlotsOK, StackTiled
  <1>2. /\ Top \in [1 .. C -> Blocks]
        /\ ToSet(Top) = {freeIndices[k] : k \in Len(freeIndices) - C + 1 .. Len(freeIndices)}
    BY <1>1, TopTaken
  <1>3. /\ Below \in Seq(Blocks) /\ IsInjective(Below) /\ Tiled(Below)
        /\ ToSet(Below) = ToSet(freeIndices) \ ToSet(Top)
        /\ ToSet(Top) \subseteq ToSet(freeIndices)
        /\ \E b \in Blocks : b % C = 0 /\ ToSet(Top) = Partition(b)
    BY <1>1, <1>2, Pop DEF Below
  <1>4. ToSet(Top) \subseteq Blocks
    BY <1>2 DEF ToSet
  <1> QED
    BY <1>2, <1>3, <1>4, BlocksNatural

(* The first slot of a partition is its least. *)
LEMMA FirstOf ==
    ASSUME NEW b \in Nat
    PROVE  Min(Partition(b)) = b /\ b \in Partition(b)
  <1>1. C \in Nat /\ C > 0
    BY QueueResourcesAssumption
  <1>2. Partition(b) = b .. b + C - 1
    BY DEF Partition
  <1>3. b \in b .. b + C - 1 /\ \A y \in b .. b + C - 1 : b <= y /\ y \in Int
    BY <1>1
  <1>4. \A x \in b .. b + C - 1 : (\A y \in b .. b + C - 1 : x <= y) => x = b
    BY <1>1, <1>3
  <1>5. Min(b .. b + C - 1) = CHOOSE x \in b .. b + C - 1 : \A y \in b .. b + C - 1 : x <= y
    BY DEF Min
  <1> QED
    BY <1>2, <1>3, <1>4, <1>5

(* A reservation takes a partition nobody has. *)
LEMMA Take ==
    ASSUME SlotsOK, NEW q \in Queues, base[q] = NoBase, Len(freeIndices) >= C,
           base' = [base EXCEPT ![q] = Min(ToSet(Top))], freeIndices' = Below
    PROVE  SlotsOK' /\ base'[q] # NoBase
  <1>1. PICK b \in Blocks :
               /\ b % C = 0 /\ b \in Nat /\ Partition(b) \subseteq Blocks
               /\ ToSet(Top) = Partition(b)
               /\ Partition(b) \subseteq ToSet(freeIndices)
               /\ Below \in Seq(Blocks) /\ IsInjective(Below) /\ Tiled(Below)
               /\ ToSet(Below) = ToSet(freeIndices) \ Partition(b)
    BY OnTop
  <1>2. base' = [base EXCEPT ![q] = b]
    BY <1>1, FirstOf
  <1>3. /\ base' \in [Queues -> Blocks \cup {NoBase}] /\ base'[q] = b /\ b # NoBase
        /\ \A r \in Queues : r # q => base'[r] = base[r]
    BY <1>2, BlocksNatural DEF SlotsOK
  <1>4. Holders' = Holders \cup {q} /\ q \notin Holders
    BY <1>3 DEF Holders
  <1>5. \A r \in Holders : base'[r] = base[r] /\ r \in Holders'
    BY <1>3, <1>4 DEF Holders
  <1>6. LeasesApart'
    <2>1. \A r \in Holders : Partition(base[r]) \cap Partition(b) = {}
      BY <1>1 DEF SlotsOK, LeasesApart
    <2>2. \A r \in Holders' : base'[r] % C = 0 /\ Partition(base'[r]) \subseteq Blocks
      BY <1>1, <1>3, <1>4, <1>5 DEF SlotsOK, LeasesApart
    <2>3. \A r, p \in Holders' : r # p => Partition(base'[r]) \cap Partition(base'[p]) = {}
      <3>1. TAKE r \in Holders', p \in Holders'
      <3>2. CASE r = q \/ p = q
        BY <1>3, <1>4, <1>5, <2>1, <3>2
      <3>3. CASE r # q /\ p # q
        BY <1>4, <1>5, <3>3 DEF SlotsOK, LeasesApart
      <3> QED
        BY <3>2, <3>3
    <2>4. \A r \in Holders' : Partition(base'[r]) \cap ToSet(freeIndices') = {}
      BY <1>1, <1>3, <1>4, <1>5 DEF SlotsOK, LeasesApart
    <2> QED
      BY <2>2, <2>3, <2>4 DEF LeasesApart
  <1>7. SlotsCovered'
    <2>1. \A x \in Blocks : x \in ToSet(freeIndices') \/ \E r \in Holders' : x \in Partition(base'[r])
      <3>1. TAKE x \in Blocks
      <3>2. CASE x \in Partition(b)
        BY <1>3, <1>4, <3>2
      <3>3. CASE x \notin Partition(b) /\ x \in ToSet(freeIndices)
        BY <1>1, <3>3
      <3>4. CASE \E r \in Holders : x \in Partition(base[r])
        BY <1>5, <3>4
      <3> QED
        BY <3>2, <3>3, <3>4 DEF SlotsOK, SlotsCovered
    <2> QED
      BY <2>1 DEF SlotsCovered
  <1> QED
    BY <1>1, <1>3, <1>6, <1>7 DEF SlotsOK, StackTiled

(* A reservation that fails after its blocks gives all of them back. *)
LEMMA PutBack ==
    ASSUME SlotsOK, Len(freeIndices) >= C, freeIndices' = Below \o Sorted(Top),
           base' = base
    PROVE  SlotsOK'
  <1>1. PICK b \in Blocks :
               /\ b % C = 0 /\ b \in Nat /\ Partition(b) \subseteq Blocks
               /\ ToSet(Top) = Partition(b) /\ DOMAIN Top = 1 .. C
               /\ Partition(b) \subseteq ToSet(freeIndices)
               /\ Below \in Seq(Blocks) /\ IsInjective(Below) /\ Tiled(Below)
               /\ ToSet(Below) = ToSet(freeIndices) \ Partition(b)
    BY OnTop
  <1>2. Sorted(Top) \in Bijection(1 .. C, Partition(b))
    BY <1>1, SortedPartition
  <1>3. Partition(b) \cap ToSet(Below) = {}
    BY <1>1
  <1>4. /\ freeIndices' \in Seq(Blocks) /\ IsInjective(freeIndices') /\ Tiled(freeIndices')
        /\ ToSet(freeIndices') = ToSet(Below) \cup Partition(b)
    BY <1>1, <1>2, <1>3, Push
  <1>5. ToSet(freeIndices') = ToSet(freeIndices)
    BY <1>1, <1>4
  <1>6. Holders' = Holders
    BY DEF Holders
  <1>7. LeasesApart'
    <2>1. \A q \in Holders' : base'[q] % C = 0 /\ Partition(base'[q]) \subseteq Blocks
      BY <1>6 DEF SlotsOK, LeasesApart
    <2>2. \A q, r \in Holders' : q # r => Partition(base'[q]) \cap Partition(base'[r]) = {}
      BY <1>6 DEF SlotsOK, LeasesApart
    <2>3. \A q \in Holders' : Partition(base'[q]) \cap ToSet(freeIndices') = {}
      BY <1>5, <1>6 DEF SlotsOK, LeasesApart
    <2> QED
      BY <2>1, <2>2, <2>3 DEF LeasesApart
  <1>8. SlotsCovered'
    BY <1>5, <1>6 DEF SlotsOK, SlotsCovered
  <1> QED
    BY <1>4, <1>7, <1>8 DEF SlotsOK, StackTiled

(* Every other step leaves them alone. *)
LEMMA SlotsAlone ==
    ASSUME SlotsOK, freeIndices' = freeIndices, base' = base
    PROVE  SlotsOK'
  BY DEF SlotsOK, StackTiled, LeasesApart, SlotsCovered, Holders

QInv == ResourcesTypeOK /\ SlotsOK /\ LivesCounted /\ LeasesQuarantined

--------------------------------------------------------------------------------
(***************************************************************************)
(* The quarantine's sequences.                                             *)
(***************************************************************************)
LEMMA AppendSet ==
    ASSUME NEW s \in Seq(Queues), IsInjective(s), NEW x \in Queues, x \notin ToSet(s)
    PROVE  /\ Append(s, x) \in Seq(Queues) /\ IsInjective(Append(s, x))
           /\ ToSet(Append(s, x)) = ToSet(s) \cup {x}
  <1> DEFINE u == Append(s, x)
             n == Len(s)
  <1>1. /\ u \in Seq(Queues) /\ Len(u) = n + 1 /\ n \in Nat
        /\ u[n + 1] = x /\ \A i \in 1 .. n : u[i] = s[i]
    BY AppendProperties, LenProperties
  <1>2. DOMAIN s = 1 .. n /\ DOMAIN u = 1 .. n + 1
    BY <1>1, LenProperties
  <1> HIDE DEF u, n
  <1>3. 1 .. n + 1 = (1 .. n) \cup {n + 1} /\ n + 1 \notin 1 .. n
    BY <1>1
  <1>4. ToSet(u) = ToSet(s) \cup {x}
    BY <1>1, <1>2, <1>3 DEF ToSet
  <1>5. IsInjective(u)
    <2>1. SUFFICES ASSUME NEW i \in 1 .. n + 1, NEW j \in 1 .. n + 1, u[i] = u[j]
                   PROVE  i = j
      BY <1>2 DEF IsInjective
    <2>2. CASE i \in 1 .. n /\ j \in 1 .. n
      BY <1>1, <1>2, <2>1, <2>2 DEF IsInjective
    <2>3. CASE i = n + 1 /\ j \in 1 .. n
      BY <1>1, <1>2, <2>1, <2>3 DEF ToSet
    <2>4. CASE j = n + 1 /\ i \in 1 .. n
      BY <1>1, <1>2, <2>1, <2>4 DEF ToSet
    <2> QED
      BY <1>3, <2>2, <2>3, <2>4
  <1> QED
    BY <1>1, <1>4, <1>5 DEF u

(* Dropping the head of a sequence without repetitions. *)
LEMMA TailSet ==
    ASSUME NEW s \in Seq(Queues), IsInjective(s), s # <<>>
    PROVE  /\ Tail(s) \in Seq(Queues) /\ IsInjective(Tail(s))
           /\ Head(s) \in ToSet(s) /\ Head(s) \in Queues
           /\ ToSet(Tail(s)) = ToSet(s) \ {Head(s)}
  <1> DEFINE u == Tail(s)
             n == Len(s)
  <1>1. n \in Nat /\ n > 0 /\ DOMAIN s = 1 .. n
    BY EmptySeq, LenProperties
  <1>2. /\ u \in Seq(Queues) /\ Len(u) = n - 1 /\ Head(s) = s[1] /\ s[1] \in Queues
        /\ \A i \in 1 .. Len(u) : u[i] = s[i + 1]
    <2>1. Head(s) = s[1] /\ 1 \in 1 .. n
      BY <1>1
    <2>2. u \in Seq(Queues) /\ Len(u) = n - 1 /\ \A i \in 1 .. Len(u) : u[i] = s[i + 1]
      BY HeadTailProperties
    <2> QED
      BY <2>1, <2>2, ElementOfSeq
  <1>3. DOMAIN u = 1 .. n - 1
    BY <1>2, LenProperties
  <1> HIDE DEF u, n
  <1>4. /\ \A i \in 1 .. n - 1 : i + 1 \in 1 .. n /\ i + 1 # 1 /\ u[i] = s[i + 1]
        /\ \A i \in 1 .. n : i = 1 \/ (i - 1 \in 1 .. n - 1 /\ (i - 1) + 1 = i)
        /\ \A i, j \in 1 .. n - 1 : i + 1 = j + 1 => i = j
    BY <1>1, <1>2
  <1>5. IsInjective(u)
    <2>1. SUFFICES ASSUME NEW i \in 1 .. n - 1, NEW j \in 1 .. n - 1, u[i] = u[j]
                   PROVE  i = j
      BY <1>3 DEF IsInjective
    <2>2. s[i + 1] = s[j + 1] /\ i + 1 \in 1 .. n /\ j + 1 \in 1 .. n
      BY <1>4, <2>1
    <2>3. i + 1 = j + 1
      BY <1>1, <2>2 DEF IsInjective
    <2> QED
      BY <1>4, <2>3
  <1>6. ToSet(u) \subseteq ToSet(s) \ {s[1]}
    <2>1. \A i \in 1 .. n - 1 : u[i] # s[1]
      BY <1>1, <1>4 DEF IsInjective
    <2> QED
      BY <1>1, <1>3, <1>4, <2>1 DEF ToSet
  <1>7. ToSet(s) \ {s[1]} \subseteq ToSet(u)
    <2>1. SUFFICES ASSUME NEW i \in 1 .. n, s[i] # s[1]
                   PROVE  s[i] \in ToSet(u)
      BY <1>1 DEF ToSet
    <2>2. i - 1 \in 1 .. n - 1 /\ (i - 1) + 1 = i
      BY <1>4, <2>1
    <2>3. u[i - 1] = s[i]
      BY <1>4, <2>2
    <2> QED
      BY <1>3, <2>2, <2>3 DEF ToSet
  <1>8. s[1] \in ToSet(s)
    BY <1>1 DEF ToSet
  <1> QED
    BY <1>2, <1>5, <1>6, <1>7, <1>8 DEF u

(* Dropping the last element of a sequence without repetitions. *)
LEMMA FrontSet ==
    ASSUME NEW s \in Seq(Queues), IsInjective(s), s # <<>>
    PROVE  /\ Front(s) \in Seq(Queues) /\ IsInjective(Front(s))
           /\ Last(s) \in ToSet(s) /\ Last(s) \in Queues
           /\ ToSet(Front(s)) = ToSet(s) \ {Last(s)}
           /\ Len(s) \in Nat /\ Len(Front(s)) = Len(s) - 1
           /\ \A i \in DOMAIN Front(s) : i \in DOMAIN s /\ Front(s)[i] = s[i]
  <1> DEFINE u == Front(s)
             n == Len(s)
  <1>1. n \in Nat /\ n > 0 /\ DOMAIN s = 1 .. n /\ \A i \in 1 .. n : s[i] \in Queues
    BY EmptySeq, LenProperties
  <1>2. u \in Seq(Queues) /\ Len(u) = n - 1 /\ \A i \in 1 .. n - 1 : u[i] = s[i]
    <2>1. u = SubSeq(s, 1, n - 1)
      BY DEF Front
    <2>2. \A i \in 1 .. n - 1 : s[i] \in Queues
      BY <1>1
    <2>3. /\ u \in Seq(Queues) /\ Len(u) = IF 1 <= n - 1 THEN (n - 1) - 1 + 1 ELSE 0
          /\ \A i \in 1 .. (n - 1) - 1 + 1 : u[i] = s[1 + i - 1]
      BY <1>1, <2>1, <2>2, SubSeqProperties
    <2>4. (IF 1 <= n - 1 THEN (n - 1) - 1 + 1 ELSE 0) = n - 1 /\ (n - 1) - 1 + 1 = n - 1
      BY <1>1
    <2>5. \A i \in 1 .. n - 1 : 1 + i - 1 = i
      BY <1>1
    <2> QED
      BY <2>3, <2>4, <2>5
  <1>3. DOMAIN u = 1 .. n - 1
    BY <1>2, LenProperties
  <1>4. Last(s) = s[n]
    BY DEF Last
  <1> HIDE DEF u, n
  <1>5. n \in 1 .. n /\ 1 .. n = (1 .. n - 1) \cup {n} /\ n \notin 1 .. n - 1
    BY <1>1
  <1>6. IsInjective(u)
    BY <1>1, <1>2, <1>3, <1>5 DEF IsInjective
  <1>7. ToSet(u) \subseteq ToSet(s) \ {s[n]}
    <2>1. \A i \in 1 .. n - 1 : u[i] # s[n]
      BY <1>1, <1>2, <1>5 DEF IsInjective
    <2> QED
      BY <1>1, <1>2, <1>3, <1>5, <2>1 DEF ToSet
  <1>8. ToSet(s) \ {s[n]} \subseteq ToSet(u)
    BY <1>1, <1>2, <1>3, <1>5 DEF ToSet
  <1>9. s[n] \in ToSet(s) /\ s[n] \in Queues
    BY <1>1, <1>5 DEF ToSet
  <1>10. n = Len(s)
    BY DEF n
  <1> QED
    BY <1>1, <1>2, <1>3, <1>4, <1>5, <1>6, <1>7, <1>8, <1>9, <1>10 DEF u

(* The empty sequence. *)
LEMMA NothingIn ==
    /\ <<>> \in Seq(Queues) /\ IsInjective(<<>>) /\ ToSet(<<>>) = {}
    /\ Len(<<>>) = 0 /\ DOMAIN <<>> = {}
  BY DEF IsInjective, ToSet

(* A sequence without repetition is as long as its set is large. *)
LEMMA LengthOfSet ==
    ASSUME NEW s \in Seq(Queues), IsInjective(s)
    PROVE  IsFiniteSet(ToSet(s)) /\ Cardinality(ToSet(s)) = Len(s)
  <1>1. Len(s) \in Nat /\ DOMAIN s = 1 .. Len(s) /\ s \in [1 .. Len(s) -> Queues]
    BY LenProperties
  <1>2. s \in [1 .. Len(s) -> ToSet(s)]
    BY <1>1 DEF ToSet
  <1>3. s \in Surjection(1 .. Len(s), ToSet(s)) /\ s \in Injection(1 .. Len(s), ToSet(s))
    BY <1>1, <1>2 DEF Surjection, Injection, ToSet
  <1>4. ExistsBijection(1 .. Len(s), ToSet(s))
    BY <1>3 DEF ExistsBijection, Bijection
  <1>5. IsFiniteSet(1 .. Len(s))
    BY <1>1, FS_Interval
  <1> QED
    BY <1>1, <1>4, <1>5, FS_Bijection, FS_CountingElements

(* There are no more leases than partitions. *)
LEMMA LeasesCounted ==
    ASSUME SlotsOK
    PROVE  IsFiniteSet(Holders) /\ Cardinality(Holders) <= MaxLiveGpuQueues
  <1>1. C \in Nat /\ C > 0 /\ MaxLiveGpuQueues \in Nat
    BY QueueResourcesAssumption
  <1> DEFINE f == [q \in Holders |-> base[q] \div C]
  <1>2. \A q \in Holders : /\ base[q] \in Nat /\ base[q] < MaxLiveGpuQueues * C
                           /\ base[q] % C = 0
    <2>1. MaxLiveGpuQueues * C \in Nat
      BY <1>1
    <2>2. \A q \in Holders : base[q] \in Blocks /\ base[q] % C = 0
      BY DEF SlotsOK, Holders, LeasesApart
    <2> QED
      BY <2>1, <2>2 DEF Blocks
  <1>3. \A q \in Holders : /\ base[q] \div C \in 0 .. MaxLiveGpuQueues - 1
                           /\ base[q] = C * (base[q] \div C)
    <2>1. TAKE q \in Holders
    <2> DEFINE b == base[q]
               m == b \div C
    <2>2. b \in Nat /\ b < MaxLiveGpuQueues * C /\ b % C = 0
      BY <1>2
    <2> HIDE DEF b
    <2>3. m \in Int /\ b = C * m /\ m >= 0
      BY <1>1, <2>2
    <2> HIDE DEF m
    <2>4. m < MaxLiveGpuQueues
      <3>1. SUFFICES ASSUME MaxLiveGpuQueues <= m PROVE FALSE
        BY <1>1, <2>3
      <3>2. C * MaxLiveGpuQueues <= C * m
        BY <1>1, <2>3, <3>1
      <3>3. C * MaxLiveGpuQueues = MaxLiveGpuQueues * C
        BY <1>1
      <3> QED
        BY <1>1, <2>2, <2>3, <3>2, <3>3
    <2>5. m \in 0 .. MaxLiveGpuQueues - 1
      BY <1>1, <2>3, <2>4
    <2> QED
      BY <2>3, <2>5 DEF b, m
  <1>4. f \in Injection(Holders, 0 .. MaxLiveGpuQueues - 1)
    <2>1. f \in [Holders -> 0 .. MaxLiveGpuQueues - 1]
      BY <1>3
    <2>2. ASSUME NEW q \in Holders, NEW r \in Holders, f[q] = f[r] PROVE q = r
      <3>1. base[q] = base[r]
        BY <1>3, <2>2
      <3>2. base[q] \in Partition(base[q])
        BY <1>2, FirstOf
      <3> QED
        BY <3>1, <3>2 DEF SlotsOK, LeasesApart
    <2> QED
      BY <2>1, <2>2 DEF Injection, IsInjective
  <1>5. IsFiniteSet(0 .. MaxLiveGpuQueues - 1)
        /\ Cardinality(0 .. MaxLiveGpuQueues - 1) = MaxLiveGpuQueues
    <2>1. 0 \in Int /\ MaxLiveGpuQueues - 1 \in Int
          /\ (IF 0 > MaxLiveGpuQueues - 1 THEN 0 ELSE (MaxLiveGpuQueues - 1) - 0 + 1)
             = MaxLiveGpuQueues
      BY QueueResourcesAssumption
    <2> QED
      BY <2>1, FS_Interval
  <1> HIDE DEF f
  <1> QED
    BY <1>4, <1>5, FS_Injection

(* Hence a queue that cannot prove its drain finds room.  *)
LEMMA RoomKept ==
    ASSUME QInv
    PROVE  /\ QuarantineFits /\ Len(retained) \in Nat /\ Len(retained) <= MaxLiveGpuQueues
  <1> DEFINE B == {i \in DOMAIN pending : i >= next}
             R == ToSet(retained)
             P == {pending[i] : i \in B}
             L == {q \in Queues : stage[q] = "live"}
  <1>1. /\ retained \in Seq(Queues) /\ pending \in Seq(Queues)
        /\ IsInjective(retained) /\ IsInjective(pending)
    BY DEF QInv, ResourcesTypeOK, LeasesQuarantined
  <1>2. IsFiniteSet(R) /\ Cardinality(R) = Len(retained) /\ Len(retained) \in Nat
    BY <1>1, LengthOfSet, LenProperties
  <1>3. IsFiniteSet(B) /\ IsFiniteSet(P) /\ Cardinality(P) = Cardinality(B)
    <2>1. Len(pending) \in Nat /\ DOMAIN pending = 1 .. Len(pending)
      BY <1>1, LenProperties
    <2>2. IsFiniteSet(B)
      <3>1. IsFiniteSet(1 .. Len(pending))
        BY <2>1, FS_Interval
      <3> QED
        BY <2>1, <3>1, FS_Subset
    <2> DEFINE f == [i \in B |-> pending[i]]
    <2>3. f \in Bijection(B, P)
      BY <1>1 DEF Bijection, Surjection, Injection, IsInjective
    <2>4. ExistsBijection(B, P)
      BY <2>3 DEF ExistsBijection
    <2> QED
      BY <2>2, <2>4, FS_Bijection
  <1>4. R \subseteq Holders /\ P \subseteq Holders /\ L \subseteq Holders
    <2>1. \A q \in Queues : stage[q] \in {"live", "retained"} => q \in Holders
      BY DEF QInv, LivesCounted, Holders
    <2>2. \A q \in R \cup ToSet(pending) : q \in Queues /\ stage[q] = "retained"
      BY DEF QInv, LeasesQuarantined
    <2>3. P \subseteq ToSet(pending)
      BY DEF ToSet
    <2> QED
      BY <2>1, <2>2, <2>3
  <1>5. R \cap P = {} /\ R \cap L = {} /\ P \cap L = {}
    <2>1. \A q \in R \cup ToSet(pending) : stage[q] = "retained"
      BY DEF QInv, LeasesQuarantined
    <2>2. P \subseteq ToSet(pending)
      BY DEF ToSet
    <2>3. next \in Int /\ \A i \in DOMAIN pending : i \in Int
      BY <1>1, LenProperties, QueueResourcesAssumption DEF QInv, ResourcesTypeOK
    <2>4. \A i \in B : pending[i] \notin R
      BY <2>3 DEF QInv, LeasesQuarantined
    <2> QED
      BY <2>1, <2>2, <2>4
  <1>6. IsFiniteSet(Holders) /\ Cardinality(Holders) <= MaxLiveGpuQueues
    BY LeasesCounted DEF QInv
  <1>7. IsFiniteSet(L)
    BY <1>4, <1>6, FS_Subset
  <1> HIDE DEF B, R, P, L
  <1>8. IsFiniteSet(R \cup P) /\ Cardinality(R \cup P) = Cardinality(R) + Cardinality(P)
    <2>1. Cardinality(R \cap P) = 0
      BY <1>5, FS_EmptySet
    <2> QED
      <3>1. /\ IsFiniteSet(R \cup P)
            /\ Cardinality(R \cup P) =
                 Cardinality(R) + Cardinality(P) - Cardinality(R \cap P)
        BY <1>2, <1>3, FS_Union
      <3>2. Cardinality(R) \in Nat /\ Cardinality(P) \in Nat
        BY <1>2, <1>3, FS_CardinalityType
      <3> QED
        BY <2>1, <3>1, <3>2
  <1>9. /\ IsFiniteSet((R \cup P) \cup L)
        /\ Cardinality((R \cup P) \cup L) = Cardinality(R) + Cardinality(P) + Cardinality(L)
    <2>1. (R \cup P) \cap L = {}
      BY <1>5
    <2>2. Cardinality((R \cup P) \cap L) = 0
      BY <2>1, FS_EmptySet
    <2>3. /\ Cardinality(R) \in Nat /\ Cardinality(P) \in Nat /\ Cardinality(L) \in Nat
          /\ Cardinality(R \cup P) \in Nat
      BY <1>2, <1>3, <1>7, <1>8, FS_CardinalityType
    <2>4. /\ IsFiniteSet((R \cup P) \cup L)
          /\ Cardinality((R \cup P) \cup L) =
               Cardinality(R \cup P) + Cardinality(L) - Cardinality((R \cup P) \cap L)
      BY <1>7, <1>8, FS_Union
    <2> QED
      BY <1>8, <2>2, <2>3, <2>4
  <1>10. Cardinality((R \cup P) \cup L) <= Cardinality(Holders)
    <2>1. (R \cup P) \cup L \subseteq Holders
      BY <1>4
    <2> QED
      BY <1>6, <2>1, FS_Subset
  <1>11. Cardinality(R) + Cardinality(B) + Cardinality(L) <= MaxLiveGpuQueues
         /\ Cardinality(B) >= 0 /\ Cardinality(L) >= 0
    <2>1. /\ Cardinality(R) \in Nat /\ Cardinality(P) \in Nat /\ Cardinality(L) \in Nat
          /\ Cardinality(Holders) \in Nat /\ Cardinality((R \cup P) \cup L) \in Nat
      BY <1>2, <1>3, <1>6, <1>7, <1>9, FS_CardinalityType
    <2>2. MaxLiveGpuQueues \in Nat
      BY QueueResourcesAssumption
    <2> QED
      BY <1>3, <1>6, <1>9, <1>10, <2>1, <2>2
  <1>12. Len(retained) <= MaxLiveGpuQueues
    <2>1. /\ Cardinality(B) \in Nat /\ Cardinality(L) \in Nat
          /\ MaxLiveGpuQueues \in Nat
      BY <1>3, <1>7, FS_CardinalityType, QueueResourcesAssumption
    <2> QED
      BY <1>2, <1>11, <2>1
  <1>13. QuarantineFits
    BY <1>2, <1>11 DEF QuarantineFits, B, L
  <1> QED
    BY <1>2, <1>12, <1>13

--------------------------------------------------------------------------------
(***************************************************************************)
(* A fresh device has all partitions on the stack.                         *)
(***************************************************************************)
LEMMA Starts == Init => QInv
  <1> SUFFICES ASSUME Init PROVE QInv
    OBVIOUS
  <1> DEFINE N == MaxLiveGpuQueues * C
  <1>1. C \in Nat /\ C > 0 /\ MaxLiveGpuQueues \in Nat /\ N \in Nat
    BY QueueResourcesAssumption
  <1>2. N % C = 0
    <2>1. N = C * MaxLiveGpuQueues
      BY <1>1
    <2>2. (C * MaxLiveGpuQueues) % C = 0
      BY <1>1
    <2> QED
      BY <2>1, <2>2
  <1>3. freeIndices = [i \in 1 .. N |-> N - i] /\ Blocks = 0 .. N - 1
    BY DEF Init, Blocks
  <1>4. NoBase = -1 /\ Holders = {}
    BY DEF Init, Holders, NoBase
  <1> HIDE DEF N
  <1>5. \A i \in 1 .. N : N - i \in 0 .. N - 1
    BY <1>1
  <1>6. freeIndices \in Seq(Blocks) /\ DOMAIN freeIndices = 1 .. N /\ Len(freeIndices) = N
    <2>1. freeIndices \in [1 .. N -> Blocks]
      BY <1>3, <1>5
    <2>2. freeIndices \in Seq(Blocks)
      BY <1>1, <2>1, SeqDef
    <2>3. DOMAIN freeIndices = 1 .. N /\ Len(freeIndices) \in Nat
          /\ DOMAIN freeIndices = 1 .. Len(freeIndices)
      BY <2>1, <2>2, LenProperties
    <2>4. Len(freeIndices) = N
      BY <1>1, <2>3
    <2> QED
      BY <2>2, <2>3, <2>4
  <1>7. IsInjective(freeIndices)
    <2>1. \A i, j \in 1 .. N : N - i = N - j => i = j
      BY <1>1
    <2> QED
      BY <1>3, <2>1 DEF IsInjective
  <1>8. Tiled(freeIndices)
    <2>1. ASSUME NEW i \in 1 .. N, i % C = 0
          PROVE  \E b \in Blocks : b % C = 0
                    /\ {freeIndices[k] : k \in i - C + 1 .. i} = Partition(b)
      <3>1. i \in Nat /\ 0 % C = 0 /\ 0 < i
        BY <1>1
      <3>2. C <= i
        <4>1. 0 + C <= i
          BY <2>1, <3>1, Multiples
        <4> QED
          BY <1>1, <4>1
      <3>3. (N - i) % C = 0
        <4> DEFINE m == N \div C
                   k == i \div C
        <4>1. m \in Int /\ N = C * m
          BY <1>1, <1>2
        <4>2. k \in Int /\ i = C * k
          BY <1>1, <2>1
        <4> HIDE DEF m, k
        <4>3. N - i = C * (m - k)
          BY <1>1, <4>1, <4>2
        <4>4. \A n \in Int : (C * n) % C = 0
          BY <1>1
        <4> QED
          BY <4>1, <4>2, <4>3, <4>4
      <3>4. \A k \in i - C + 1 .. i : k \in 1 .. N /\ N - k \in (N - i) .. (N - i) + C - 1
        BY <1>1, <3>1, <3>2
      <3>5. \A x \in (N - i) .. (N - i) + C - 1 : N - x \in i - C + 1 .. i /\ N - (N - x) = x
        BY <1>1, <3>1, <3>2
      <3>6. {freeIndices[k] : k \in i - C + 1 .. i} = Partition(N - i)
        <4>1. \A k \in i - C + 1 .. i : freeIndices[k] \in (N - i) .. (N - i) + C - 1
          BY <1>3, <3>4
        <4>2. \A x \in (N - i) .. (N - i) + C - 1 :
                  N - x \in i - C + 1 .. i /\ freeIndices[N - x] = x
          BY <1>3, <3>4, <3>5
        <4> QED
          BY <4>1, <4>2 DEF Partition
      <3>7. N - i \in Blocks
        BY <1>3, <1>5
      <3> QED
        BY <3>3, <3>6, <3>7
    <2> QED
      BY <1>2, <1>6, <2>1 DEF Tiled
  <1>9. SlotsCovered
    <2>1. \A b \in 0 .. N - 1 : N - b \in 1 .. N /\ N - (N - b) = b
      BY <1>1
    <2>2. \A b \in 0 .. N - 1 : freeIndices[N - b] = b
      BY <1>3, <2>1
    <2> QED
      BY <1>3, <1>6, <2>1, <2>2 DEF SlotsCovered, ToSet
  <1>10. SlotsOK
    BY <1>4, <1>6, <1>7, <1>8, <1>9 DEF SlotsOK, StackTiled, LeasesApart, Init
  <1>11. ResourcesTypeOK
    BY <1>1, <1>6, NothingIn DEF ResourcesTypeOK, Init
  <1>12. LivesCounted
    BY FS_EmptySet DEF LivesCounted, Init
  <1>13. LeasesQuarantined
    BY <1>1, NothingIn DEF LeasesQuarantined, Init
  <1> QED
    BY <1>10, <1>11, <1>12, <1>13 DEF QInv

--------------------------------------------------------------------------------
(***************************************************************************)
(* Each step keeps the invariant.  First the queues' own steps, which      *)
(* leave the quarantine alone but for one.                                 *)
(***************************************************************************)
LEMMA SameQuarantine ==
    ASSUME QInv, retained' = retained, pending' = pending, next' = next,
           proved' = proved, device' = device \/ device' # "destroyed",
           \A q \in Queues : stage'[q] = "retained" <=> stage[q] = "retained"
    PROVE  LeasesQuarantined'
  <1>1. {q \in Queues : stage'[q] = "retained"} = {q \in Queues : stage[q] = "retained"}
    OBVIOUS
  <1> QED
    BY <1>1 DEF QInv, LeasesQuarantined

(* A step of one queue that keeps the rest of its device. *)
LEMMA OneStage ==
    ASSUME QInv, NEW q \in Queues, NEW s, Stage(q, s),
           s \in {"none", "slot", "live", "unwinding", "retained"}
    PROVE  /\ stage' \in [Queues -> {"none", "slot", "live", "unwinding", "retained"}]
           /\ stage'[q] = s /\ \A r \in Queues : r # q => stage'[r] = stage[r]
  BY DEF QInv, ResourcesTypeOK, Stage

(* Construction: the queue slot, the lease, and the two ways it fails. *)
LEMMA ReserveSlotKeeps ==
    ASSUME QInv, NEW q \in Queues, ReserveSlot(q) PROVE QInv'
  <1>1. /\ stage' \in [Queues -> {"none", "slot", "live", "unwinding", "retained"}]
        /\ stage'[q] = "slot" /\ \A r \in Queues : r # q => stage'[r] = stage[r]
    BY OneStage DEF ReserveSlot
  <1>2. stage[q] = "none" /\ q \notin slots
    BY DEF ReserveSlot, QInv, LivesCounted
  <1>3. SlotsOK'
    BY SlotsAlone DEF ReserveSlot, QInv
  <1>4. ResourcesTypeOK'
    <2>1. liveQueues' \in 0 .. MaxLiveGpuQueues
      BY QueueResourcesAssumption DEF ReserveSlot, QInv, ResourcesTypeOK
    <2> QED
      BY <1>1, <2>1 DEF ReserveSlot, QInv, ResourcesTypeOK, reclaimVars
  <1>5. LivesCounted'
    <2>1. /\ IsFiniteSet(slots \cup {q})
          /\ Cardinality(slots \cup {q}) = Cardinality(slots) + 1
      BY <1>2, FS_AddElement DEF QInv, LivesCounted
    <2>2. \A r \in Queues : base'[r] # NoBase <=> stage'[r] \in {"live", "retained"}
      BY <1>1, <1>2 DEF ReserveSlot, QInv, LivesCounted
    <2>3. /\ \A r \in Queues : stage'[r] = "none" => r \notin slots'
          /\ \A r \in Queues : stage'[r] \in {"slot", "live", "unwinding"} => r \in slots'
      BY <1>1 DEF ReserveSlot, QInv, LivesCounted
    <2> QED
      BY <2>1, <2>2, <2>3 DEF ReserveSlot, QInv, LivesCounted
  <1>6. LeasesQuarantined'
    BY <1>1, <1>2, SameQuarantine DEF ReserveSlot, reclaimVars
  <1> QED
    BY <1>3, <1>4, <1>5, <1>6 DEF QInv

(* The three ends of a reservation: the queue has its partition or not. *)
LEMMA SlotStageKeeps ==
    ASSUME QInv, NEW q \in Queues, SlotsOK', stage[q] \in {"slot", "live"},
           NEW s \in {"live", "unwinding"}, Stage(q, s),
           base'[q] # NoBase <=> s = "live",
           \A r \in Queues : r # q => base'[r] = base[r],
           UNCHANGED <<slotVars, retained, reclaimVars, device>>
    PROVE  QInv'
  <1>1. /\ stage' \in [Queues -> {"none", "slot", "live", "unwinding", "retained"}]
        /\ stage'[q] = s /\ \A r \in Queues : r # q => stage'[r] = stage[r]
    BY OneStage
  <1>2. ResourcesTypeOK'
    BY <1>1 DEF QInv, ResourcesTypeOK, slotVars, reclaimVars, SlotsOK
  <1>3. LivesCounted'
    <2>1. \A r \in Queues : base'[r] # NoBase <=> stage'[r] \in {"live", "retained"}
      BY <1>1 DEF QInv, LivesCounted
    <2>2. q \in slots
      BY DEF QInv, LivesCounted
    <2> QED
      BY <1>1, <2>1, <2>2 DEF QInv, LivesCounted, slotVars
  <1>4. LeasesQuarantined'
    BY <1>1, SameQuarantine DEF reclaimVars
  <1> QED
    BY <1>2, <1>3, <1>4 DEF QInv

(* Taking a partition moves its slots from the stack to the lease. *)
LEMMA ReserveKeeps ==
    ASSUME QInv, NEW q \in Queues, Reserve(q) PROVE QInv'
  <1>1. base[q] = NoBase /\ stage[q] = "slot"
    BY DEF Reserve, QInv, LivesCounted
  <1>2. SlotsOK' /\ base'[q] # NoBase
    BY <1>1, Take DEF Reserve, QInv
  <1>3. \A r \in Queues : r # q => base'[r] = base[r]
    BY DEF Reserve, QInv, SlotsOK
  <1> QED
    BY <1>1, <1>2, <1>3, SlotStageKeeps DEF Reserve

(* The C blocks that were taken go back sorted. *)
LEMMA ReserveFailsKeeps ==
    ASSUME QInv, NEW q \in Queues, ReserveFails(q) \/ ReserveExhausted(q) PROVE QInv'
  <1>1. base[q] = NoBase /\ stage[q] = "slot"
    BY DEF ReserveFails, ReserveExhausted, QInv, LivesCounted
  <1>2. SlotsOK'
    <2>1. CASE ReserveFails(q)
      BY <2>1, PutBack DEF ReserveFails, QInv
    <2>2. CASE ReserveExhausted(q)
      <3>1. freeIndices \in Seq(Blocks) /\ Tiled(freeIndices)
        BY DEF QInv, SlotsOK, StackTiled
      <3>2. ~(Len(freeIndices) >= C)
        <4>1. Len(freeIndices) \in Nat /\ C \in Nat
          BY <3>1, LenProperties, QueueResourcesAssumption
        <4> QED
          BY <2>2, <4>1 DEF ReserveExhausted
      <3>3. freeIndices = <<>>
        BY <3>1, <3>2, HasTop
      <3>4. freeIndices' = <<>>
        BY <2>2, <3>3 DEF ReserveExhausted, Reverse
      <3> QED
        BY <2>2, <3>3, <3>4, SlotsAlone DEF ReserveExhausted, QInv
    <2> QED
      BY <2>1, <2>2
  <1>3. base' = base /\ Stage(q, "unwinding")
    BY DEF ReserveFails, ReserveExhausted
  <1>4. UNCHANGED <<slotVars, retained, reclaimVars, device>>
    BY DEF ReserveFails, ReserveExhausted
  <1> QED
    BY <1>1, <1>2, <1>3, <1>4, SlotStageKeeps

(* A drained lease gives its partition back on top of the stack. *)
LEMMA DestroyDrainedKeeps ==
    ASSUME QInv, NEW q \in Queues, DestroyDrained(q) PROVE QInv'
  <1>1. q \in Holders /\ stage[q] = "live"
    BY DEF DestroyDrained, QInv, LivesCounted, Holders
  <1>2. SlotsOK'
    BY <1>1, GiveBack DEF DestroyDrained, QInv
  <1>3. base'[q] = NoBase /\ \A r \in Queues : r # q => base'[r] = base[r]
    BY DEF DestroyDrained, QInv, SlotsOK
  <1> QED
    BY <1>1, <1>2, <1>3, SlotStageKeeps DEF DestroyDrained

(* A lease whose drain is unproven joins the quarantine, which has room. *)
LEMMA RetainKeeps ==
    ASSUME QInv, NEW q \in Queues, Retain(q) PROVE QInv'
  <1>1. /\ stage' \in [Queues -> {"none", "slot", "live", "unwinding", "retained"}]
        /\ stage'[q] = "retained" /\ \A r \in Queues : r # q => stage'[r] = stage[r]
    BY OneStage DEF Retain
  <1>2. stage[q] = "live" /\ q \in slots
    BY DEF Retain, QInv, LivesCounted
  <1>3. q \notin ToSet(retained) /\ q \notin ToSet(pending)
    BY <1>2 DEF QInv, LeasesQuarantined
  <1>4. /\ retained' \in Seq(Queues) /\ IsInjective(retained')
        /\ ToSet(retained') = ToSet(retained) \cup {q}
    BY <1>3, AppendSet DEF Retain, QInv, LeasesQuarantined, ResourcesTypeOK
  <1>5. SlotsOK'
    BY SlotsAlone DEF Retain, QInv
  <1>6. ResourcesTypeOK'
    BY <1>1, <1>4 DEF Retain, QInv, ResourcesTypeOK, slotVars, reclaimVars
  <1>7. LivesCounted'
    BY <1>1, <1>2 DEF Retain, QInv, LivesCounted, slotVars
  <1>8. LeasesQuarantined'
    <2>1. {r \in Queues : stage'[r] = "retained"}
            = {r \in Queues : stage[r] = "retained"} \cup {q}
      BY <1>1, <1>2
    <2>2. q \notin proved
      BY <1>3 DEF QInv, LeasesQuarantined
    <2>3. \A i \in DOMAIN pending : pending[i] # q
      BY <1>3 DEF ToSet
    <2>4. device # "destroyed"
      BY <1>2 DEF QInv, LivesCounted
    <2>5. pending' = pending /\ next' = next /\ proved' = proved /\ device' = device
      BY DEF Retain, reclaimVars
    <2>6. ToSet(retained') \cup ToSet(pending') = {r \in Queues : stage'[r] = "retained"}
      BY <1>4, <2>1, <2>5 DEF QInv, LeasesQuarantined
    <2>7. \A i \in DOMAIN pending' :
              IF i < next' THEN pending'[i] \in proved' \cup ToSet(retained')
              ELSE pending'[i] \notin proved' \cup ToSet(retained')
      BY <1>4, <2>3, <2>5 DEF QInv, LeasesQuarantined
    <2> QED
      BY <1>4, <2>2, <2>4, <2>5, <2>6, <2>7 DEF QInv, LeasesQuarantined
  <1> QED
    BY <1>5, <1>6, <1>7, <1>8 DEF QInv

(* The queue stops counting; its lease may stay in the quarantine. *)
LEMMA ReleaseSlotKeeps ==
    ASSUME QInv, NEW q \in Queues, ReleaseSlot(q) PROVE QInv'
  <1> DEFINE s == IF stage[q] = "unwinding" THEN "none" ELSE "retained"
  <1>1. /\ stage' \in [Queues -> {"none", "slot", "live", "unwinding", "retained"}]
        /\ stage'[q] = s /\ \A r \in Queues : r # q => stage'[r] = stage[r]
    BY OneStage DEF ReleaseSlot
  <1>2. q \in slots /\ stage[q] \in {"unwinding", "retained"}
    BY DEF ReleaseSlot
  <1>3. SlotsOK'
    BY SlotsAlone DEF ReleaseSlot, QInv
  <1>4. /\ IsFiniteSet(slots \ {q}) /\ Cardinality(slots \ {q}) = Cardinality(slots) - 1
        /\ Cardinality(slots) \in Nat /\ Cardinality(slots) # 0
    <2>1. IsFiniteSet(slots)
      BY DEF QInv, LivesCounted
    <2>2. Cardinality(slots) # 0
      BY <1>2, <2>1, FS_EmptySet
    <2> QED
      BY <1>2, <2>1, <2>2, FS_RemoveElement, FS_CardinalityType
  <1>5. liveQueues' = Cardinality(slots) - 1 /\ slots' = slots \ {q}
    BY <1>4 DEF ReleaseSlot, QInv, LivesCounted
  <1>6. ResourcesTypeOK'
    <2>1. liveQueues' \in 0 .. MaxLiveGpuQueues
      <3>1. liveQueues = Cardinality(slots) /\ liveQueues \in 0 .. MaxLiveGpuQueues
        BY DEF QInv, LivesCounted, ResourcesTypeOK
      <3> QED
        BY <1>4, <1>5, <3>1, QueueResourcesAssumption
    <2> QED
      BY <1>1, <2>1 DEF ReleaseSlot, QInv, ResourcesTypeOK, reclaimVars
  <1>7. LivesCounted'
    <2>1. \A r \in Queues : base'[r] # NoBase <=> stage'[r] \in {"live", "retained"}
      BY <1>1, <1>2 DEF ReleaseSlot, QInv, LivesCounted
    <2>2. \A r \in Queues : stage'[r] = "none" => r \notin slots'
      BY <1>1, <1>2, <1>5 DEF QInv, LivesCounted
    <2>3. \A r \in Queues : stage'[r] \in {"slot", "live", "unwinding"} => r \in slots'
      BY <1>1, <1>2, <1>5 DEF QInv, LivesCounted
    <2>4. device' # "alive" => slots' = {}
      BY <1>5 DEF ReleaseSlot, QInv, LivesCounted
    <2> QED
      BY <1>4, <1>5, <2>1, <2>2, <2>3, <2>4 DEF LivesCounted
  <1>8. LeasesQuarantined'
    BY <1>1, <1>2, SameQuarantine DEF ReleaseSlot, reclaimVars
  <1> QED
    BY <1>3, <1>6, <1>7, <1>8 DEF QInv

(* Then the reclaiming thread and the device's destructor. *)
LEMMA BeginReclaimKeeps ==
    ASSUME QInv, BeginReclaim PROVE QInv'
  <1>1. SlotsOK'
    BY SlotsAlone DEF BeginReclaim, QInv
  <1>2. pending' = retained /\ retained' = <<>> /\ next' = 1 /\ proved' = proved
        /\ stage' = stage /\ next = 0 /\ retained # <<>>
    BY DEF BeginReclaim
  <1>3. pending = <<>> /\ proved = {} /\ ToSet(pending) = {}
    BY <1>2, NothingIn DEF QInv, LeasesQuarantined
  <1>4. ResourcesTypeOK'
    BY <1>2, NothingIn, QueueResourcesAssumption
       DEF BeginReclaim, QInv, ResourcesTypeOK, slotVars
  <1>5. LivesCounted'
    BY DEF BeginReclaim, QInv, LivesCounted, slotVars
  <1>6. LeasesQuarantined'
    <2>1. /\ IsInjective(retained') /\ IsInjective(pending')
          /\ ToSet(retained') = {} /\ ToSet(pending') = ToSet(retained)
      BY <1>2, NothingIn DEF QInv, LeasesQuarantined
    <2>2. ToSet(retained') \cup ToSet(pending') = {q \in Queues : stage'[q] = "retained"}
      BY <1>2, <1>3, <2>1 DEF QInv, LeasesQuarantined
    <2>3. \A i \in DOMAIN pending' : ~(i < next')
      <3>1. DOMAIN retained = 1 .. Len(retained) /\ Len(retained) \in Nat
        BY LenProperties DEF QInv, ResourcesTypeOK
      <3> QED
        BY <1>2, <3>1
    <2>4. Len(pending') <= MaxLiveGpuQueues
      BY <1>2, RoomKept
    <2>5. device' # "destroyed"
      BY DEF BeginReclaim
    <2> QED
      BY <1>2, <1>3, <2>1, <2>2, <2>3, <2>4, <2>5 DEF LeasesQuarantined
  <1> QED
    BY <1>1, <1>4, <1>5, <1>6 DEF QInv

(* A lease is proved, or goes back to the quarantine. *)
LEMMA ReclaimOneKeeps ==
    ASSUME QInv, NEW ok \in BOOLEAN, ReclaimOne(ok) PROVE QInv'
  <1> DEFINE q == pending[next]
  <1>1. SlotsOK'
    BY SlotsAlone DEF ReclaimOne, QInv
  <1>2. /\ next \in DOMAIN pending /\ q \in ToSet(pending) /\ q \in Queues
        /\ DOMAIN pending = 1 .. Len(pending) /\ Len(pending) \in Nat
        /\ next \in 1 .. Len(pending)
    <2>1. next \in DOMAIN pending /\ pending \in Seq(Queues)
      BY DEF ReclaimOne, QInv, ResourcesTypeOK
    <2>2. DOMAIN pending = 1 .. Len(pending) /\ Len(pending) \in Nat
      BY <2>1, LenProperties
    <2>3. q \in Queues
      BY <2>1, <2>2, ElementOfSeq
    <2> QED
      BY <2>1, <2>2, <2>3 DEF ToSet
  <1>3. q \notin proved /\ q \notin ToSet(retained)
    BY <1>2 DEF QInv, LeasesQuarantined
  <1>4. pending' = pending /\ next' = next + 1 /\ stage' = stage /\ device' = device
        /\ proved' = (IF ok THEN proved \cup {q} ELSE proved)
        /\ retained' = (IF ok THEN retained ELSE Append(retained, q))
    BY DEF ReclaimOne
  <1>5. /\ retained' \in Seq(Queues) /\ IsInjective(retained')
        /\ ToSet(retained') = IF ok THEN ToSet(retained) ELSE ToSet(retained) \cup {q}
    BY <1>2, <1>3, <1>4, AppendSet DEF QInv, LeasesQuarantined, ResourcesTypeOK
  <1>6. ResourcesTypeOK'
    <2>1. next' \in 0 .. MaxLiveGpuQueues + 1
      <3>1. Len(pending) <= MaxLiveGpuQueues /\ MaxLiveGpuQueues \in Nat
        BY QueueResourcesAssumption DEF QInv, LeasesQuarantined
      <3> QED
        BY <1>2, <1>4, <3>1
    <2>2. proved' \subseteq Queues
      BY <1>2, <1>4 DEF QInv, ResourcesTypeOK
    <2> QED
      BY <1>5, <2>1, <2>2 DEF ReclaimOne, QInv, ResourcesTypeOK, slotVars
  <1>7. LivesCounted'
    BY DEF ReclaimOne, QInv, LivesCounted, slotVars
  <1>8. LeasesQuarantined'
    <2>1. ToSet(retained') \cup ToSet(pending') = {r \in Queues : stage'[r] = "retained"}
      BY <1>2, <1>4, <1>5 DEF QInv, LeasesQuarantined
    <2>2. proved' \subseteq ToSet(pending') /\ proved' \cap ToSet(retained') = {}
      BY <1>2, <1>3, <1>4, <1>5 DEF QInv, LeasesQuarantined
    <2>3. proved' \cup ToSet(retained') = (proved \cup ToSet(retained)) \cup {q}
      BY <1>4, <1>5
    <2>4. ASSUME NEW i \in DOMAIN pending
          PROVE  IF i < next + 1 THEN pending[i] \in (proved \cup ToSet(retained)) \cup {q}
                 ELSE pending[i] \notin (proved \cup ToSet(retained)) \cup {q}
      <3>1. i \in Int /\ next \in Int
        BY <1>2
      <3>2. CASE i = next
        BY <3>1, <3>2
      <3>3. CASE i < next
        BY <3>1, <3>3 DEF QInv, LeasesQuarantined
      <3>4. CASE i > next
        <4>1. pending[i] # q
          BY <1>2, <3>1, <3>4 DEF QInv, LeasesQuarantined, IsInjective
        <4>2. pending[i] \notin proved \cup ToSet(retained)
          BY <3>1, <3>4 DEF QInv, LeasesQuarantined
        <4>3. ~(i < next + 1)
          BY <3>1, <3>4
        <4> QED
          BY <4>1, <4>2, <4>3
      <3> QED
        BY <3>1, <3>2, <3>3, <3>4
    <2>5. pending # <<>> /\ next' # 0
      <3>1. Len(pending) > 0
        BY <1>2
      <3> QED
        BY <1>2, <1>4, <3>1, NothingIn
    <2>6. device # "destroyed"
      BY <2>5 DEF QInv, LeasesQuarantined
    <2> QED
      BY <1>4, <1>5, <2>1, <2>2, <2>3, <2>4, <2>5, <2>6 DEF QInv, LeasesQuarantined
  <1> QED
    BY <1>1, <1>6, <1>7, <1>8 DEF QInv

(* The array's last element goes; a proved one returns its partition. *)
LEMMA DropPendingKeeps ==
    ASSUME QInv, DropPending PROVE QInv'
  <1> DEFINE q == Last(pending)
  <1>1. /\ pending # <<>> /\ next > Len(pending)
        /\ pending' = Front(pending) /\ proved' = proved \ {q} /\ retained' = retained
        /\ device' = device /\ next' = (IF Len(pending) = 1 THEN 0 ELSE next)
        /\ UNCHANGED slotVars
    BY DEF DropPending
  <1>2. /\ pending' \in Seq(Queues) /\ IsInjective(pending')
        /\ q \in ToSet(pending) /\ q \in Queues
        /\ ToSet(pending') = ToSet(pending) \ {q}
        /\ Len(pending) \in Nat /\ Len(pending') = Len(pending) - 1
        /\ \A i \in DOMAIN pending' : i \in DOMAIN pending /\ pending'[i] = pending[i]
    BY <1>1, FrontSet DEF QInv, LeasesQuarantined, ResourcesTypeOK
  <1>3. stage[q] = "retained" /\ q \in Holders
    BY <1>2 DEF QInv, LeasesQuarantined, LivesCounted, Holders
  <1>4. next \in Nat /\ Len(pending) > 0 /\ (pending' = <<>> <=> Len(pending) = 1)
    <2>1. Len(pending) # 0
      BY <1>1, EmptySeq DEF QInv, ResourcesTypeOK
    <2>2. pending' = <<>> <=> Len(pending') = 0
      BY <1>2, EmptySeq
    <2>3. next \in Nat
      BY QueueResourcesAssumption DEF QInv, ResourcesTypeOK
    <2> QED
      BY <1>2, <2>1, <2>2, <2>3
  <1>5. \A i \in DOMAIN pending : i < next
    <2>1. DOMAIN pending = 1 .. Len(pending)
      BY LenProperties DEF QInv, ResourcesTypeOK
    <2> QED
      BY <1>1, <1>2, <1>4, <2>1
  <1>6. next' \in 0 .. MaxLiveGpuQueues + 1 /\ (pending' = <<>> <=> next' = 0)
        /\ (pending' # <<>> => next' = next) /\ Len(pending') <= MaxLiveGpuQueues
    <2>1. next \in 0 .. MaxLiveGpuQueues + 1 /\ Len(pending) <= MaxLiveGpuQueues
          /\ MaxLiveGpuQueues \in Nat
      BY QueueResourcesAssumption DEF QInv, ResourcesTypeOK, LeasesQuarantined
    <2> QED
      BY <1>1, <1>2, <1>4, <2>1
  <1>7. CASE q \in proved
    <2> DEFINE s == IF q \in slots THEN "unwinding" ELSE "none"
    <2>1. /\ freeIndices' = Release(freeIndices, base[q])
          /\ base' = [base EXCEPT ![q] = NoBase] /\ Stage(q, s)
      BY <1>7 DEF DropPending
    <2>2. SlotsOK'
      BY <1>3, <2>1, GiveBack DEF QInv
    <2>3. /\ stage' \in [Queues -> {"none", "slot", "live", "unwinding", "retained"}]
          /\ stage'[q] = s /\ \A r \in Queues : r # q => stage'[r] = stage[r]
      BY <1>2, <2>1, OneStage
    <2>4. base'[q] = NoBase /\ \A r \in Queues : r # q => base'[r] = base[r]
      BY <1>2, <2>1 DEF QInv, SlotsOK
    <2>5. ResourcesTypeOK'
      BY <1>1, <1>2, <1>6, <2>2, <2>3 DEF QInv, ResourcesTypeOK, SlotsOK, slotVars
    <2>6. LivesCounted'
      <3>1. \A r \in Queues : base'[r] # NoBase <=> stage'[r] \in {"live", "retained"}
        BY <2>3, <2>4 DEF QInv, LivesCounted
      <3>2. /\ \A r \in Queues : stage'[r] = "none" => r \notin slots
            /\ \A r \in Queues : stage'[r] \in {"slot", "live", "unwinding"} => r \in slots
        BY <2>3 DEF QInv, LivesCounted
      <3> QED
        BY <1>1, <3>1, <3>2 DEF QInv, LivesCounted, slotVars
    <2>7. LeasesQuarantined'
      <3>1. q \notin ToSet(retained)
        BY <1>7 DEF QInv, LeasesQuarantined
      <3>2. {r \in Queues : stage'[r] = "retained"}
              = {r \in Queues : stage[r] = "retained"} \ {q}
        BY <2>3
      <3>3. ToSet(retained') \cup ToSet(pending') = {r \in Queues : stage'[r] = "retained"}
        BY <1>1, <1>2, <3>1, <3>2 DEF QInv, LeasesQuarantined
      <3>4. proved' \subseteq ToSet(pending') /\ proved' \cap ToSet(retained') = {}
        BY <1>1, <1>2 DEF QInv, LeasesQuarantined
      <3>5. \A i \in DOMAIN pending' :
                i < next' /\ pending'[i] \in proved' \cup ToSet(retained')
        <4>1. SUFFICES ASSUME NEW i \in DOMAIN pending'
                       PROVE  i < next' /\ pending'[i] \in proved' \cup ToSet(retained')
          OBVIOUS
        <4>2. pending' # <<>> /\ next' = next
          BY <1>6, <4>1, NothingIn
        <4>3. i < next /\ pending[i] \in proved \cup ToSet(retained)
          BY <1>2, <1>5, <4>1 DEF QInv, LeasesQuarantined
        <4>4. pending'[i] = pending[i] /\ pending'[i] \in ToSet(pending')
          BY <1>2, <4>1 DEF ToSet
        <4>5. pending[i] # q
          BY <1>2, <4>4
        <4> QED
          BY <1>1, <4>2, <4>3, <4>4, <4>5
      <3>6. device' = "destroyed" => retained' = <<>> /\ pending' = <<>>
        BY <1>1 DEF QInv, LeasesQuarantined
      <3> QED
        BY <1>1, <1>2, <1>6, <3>3, <3>4, <3>5, <3>6 DEF QInv, LeasesQuarantined
    <2> QED
      BY <2>2, <2>5, <2>6, <2>7 DEF QInv
  <1>8. CASE q \notin proved
    <2>1. UNCHANGED <<freeIndices, base, stage>>
      BY <1>8 DEF DropPending
    <2>2. SlotsOK'
      BY <2>1, SlotsAlone DEF QInv
    <2>3. ResourcesTypeOK'
      BY <1>1, <1>2, <1>6, <2>1 DEF QInv, ResourcesTypeOK, slotVars
    <2>4. LivesCounted'
      BY <1>1, <2>1 DEF QInv, LivesCounted, slotVars
    <2>5. LeasesQuarantined'
      <3>1. q \in ToSet(retained) /\ proved' = proved
        <4>1. PICK i \in DOMAIN pending : pending[i] = q
          BY <1>2 DEF ToSet
        <4>2. q \in proved \cup ToSet(retained)
          BY <1>5, <4>1 DEF QInv, LeasesQuarantined
        <4> QED
          BY <1>1, <1>8, <4>2
      <3>2. ToSet(retained') \cup ToSet(pending') = {r \in Queues : stage'[r] = "retained"}
        BY <1>1, <1>2, <2>1, <3>1 DEF QInv, LeasesQuarantined
      <3>3. proved' \subseteq ToSet(pending') /\ proved' \cap ToSet(retained') = {}
        BY <1>1, <1>2 DEF QInv, LeasesQuarantined
      <3>4. \A i \in DOMAIN pending' :
                i < next' /\ pending'[i] \in proved' \cup ToSet(retained')
        <4>1. SUFFICES ASSUME NEW i \in DOMAIN pending'
                       PROVE  i < next' /\ pending'[i] \in proved' \cup ToSet(retained')
          OBVIOUS
        <4>2. pending' # <<>> /\ next' = next
          BY <1>6, <4>1, NothingIn
        <4>3. i < next /\ pending[i] \in proved \cup ToSet(retained)
          BY <1>2, <1>5, <4>1 DEF QInv, LeasesQuarantined
        <4> QED
          BY <1>1, <1>2, <3>1, <4>1, <4>2, <4>3
      <3>5. device' = "destroyed" => retained' = <<>> /\ pending' = <<>>
        BY <1>1 DEF QInv, LeasesQuarantined
      <3> QED
        BY <1>1, <1>2, <1>6, <3>2, <3>3, <3>4, <3>5 DEF QInv, LeasesQuarantined
    <2> QED
      BY <2>2, <2>3, <2>4, <2>5 DEF QInv
  <1> QED
    BY <1>7, <1>8

(* The device's destructor begins when no queue counts. *)
LEMMA DestroyDeviceKeeps ==
    ASSUME QInv, DestroyDevice PROVE QInv'
  <1>1. SlotsOK'
    BY SlotsAlone DEF DestroyDevice, QInv
  <1>2. ResourcesTypeOK'
    BY DEF DestroyDevice, QInv, ResourcesTypeOK, slotVars, reclaimVars
  <1>3. LivesCounted'
    BY DEF DestroyDevice, QInv, LivesCounted, slotVars
  <1>4. LeasesQuarantined'
    BY SameQuarantine DEF DestroyDevice, reclaimVars
  <1> QED
    BY <1>1, <1>2, <1>3, <1>4 DEF QInv

(* A discarded lease returns its partition. *)
LEMMA DiscardOneKeeps ==
    ASSUME QInv, DiscardOne PROVE QInv'
  <1> DEFINE q == Head(retained)
  <1>1. /\ device = "discarding" /\ next = 0 /\ retained # <<>>
        /\ freeIndices' = Release(freeIndices, base[q])
        /\ base' = [base EXCEPT ![q] = NoBase] /\ Stage(q, "none")
        /\ retained' = Tail(retained) /\ UNCHANGED <<slotVars, reclaimVars, device>>
    BY DEF DiscardOne
  <1>2. /\ retained' \in Seq(Queues) /\ IsInjective(retained')
        /\ q \in ToSet(retained) /\ q \in Queues
        /\ ToSet(retained') = ToSet(retained) \ {q}
    BY <1>1, TailSet DEF QInv, LeasesQuarantined, ResourcesTypeOK
  <1>3. stage[q] = "retained" /\ q \in Holders
    BY <1>2 DEF QInv, LeasesQuarantined, LivesCounted, Holders
  <1>4. pending = <<>> /\ ToSet(pending) = {} /\ proved = {} /\ slots = {}
    BY <1>1, NothingIn DEF QInv, LeasesQuarantined, LivesCounted
  <1>5. SlotsOK'
    BY <1>1, <1>3, GiveBack DEF QInv
  <1>6. /\ stage' \in [Queues -> {"none", "slot", "live", "unwinding", "retained"}]
        /\ stage'[q] = "none" /\ \A r \in Queues : r # q => stage'[r] = stage[r]
    BY <1>1, <1>2, OneStage
  <1>7. base'[q] = NoBase /\ \A r \in Queues : r # q => base'[r] = base[r]
    BY <1>1, <1>2 DEF QInv, SlotsOK
  <1>8. ResourcesTypeOK'
    BY <1>1, <1>2, <1>5, <1>6 DEF QInv, ResourcesTypeOK, SlotsOK, slotVars, reclaimVars
  <1>9. LivesCounted'
    <2>1. \A r \in Queues : base'[r] # NoBase <=> stage'[r] \in {"live", "retained"}
      BY <1>6, <1>7 DEF QInv, LivesCounted
    <2>2. \A r \in Queues : stage'[r] \in {"slot", "live", "unwinding"} => r \in slots
      BY <1>6 DEF QInv, LivesCounted
    <2> QED
      BY <1>1, <1>4, <2>1, <2>2 DEF QInv, LivesCounted, slotVars
  <1>10. LeasesQuarantined'
    <2>1. {r \in Queues : stage'[r] = "retained"}
            = {r \in Queues : stage[r] = "retained"} \ {q}
      BY <1>6
    <2>2. ToSet(retained') \cup ToSet(pending) = {r \in Queues : stage'[r] = "retained"}
      BY <1>2, <1>4, <2>1 DEF QInv, LeasesQuarantined
    <2>3. pending' = pending /\ proved' = proved /\ next' = next /\ device' = device
      BY <1>1 DEF reclaimVars
    <2> QED
      BY <1>1, <1>2, <1>4, <2>2, <2>3, NothingIn DEF QInv, LeasesQuarantined
  <1> QED
    BY <1>5, <1>8, <1>9, <1>10 DEF QInv

(* The backing goes when the quarantine is empty. *)
LEMMA FreeBackingKeeps ==
    ASSUME QInv, FreeBacking PROVE QInv'
  <1>1. SlotsOK'
    BY SlotsAlone DEF FreeBacking, QInv
  <1>2. ResourcesTypeOK'
    BY DEF FreeBacking, QInv, ResourcesTypeOK, slotVars, reclaimVars
  <1>3. LivesCounted'
    BY DEF FreeBacking, QInv, LivesCounted, slotVars
  <1>4. LeasesQuarantined'
    BY DEF FreeBacking, QInv, LeasesQuarantined, reclaimVars
  <1> QED
    BY <1>1, <1>2, <1>3, <1>4 DEF QInv

(* Stuttering. *)
LEMMA StutterKeeps ==
    ASSUME QInv, UNCHANGED vars PROVE QInv'
  <1>1. SlotsOK'
    BY SlotsAlone DEF vars, QInv
  <1>2. ResourcesTypeOK'
    BY DEF vars, QInv, ResourcesTypeOK, slotVars, reclaimVars
  <1>3. LivesCounted' /\ LeasesQuarantined'
    BY DEF vars, QInv, LivesCounted, LeasesQuarantined, slotVars, reclaimVars
  <1> QED
    BY <1>1, <1>2, <1>3 DEF QInv

(* Every step of the device keeps the invariant. *)
LEMMA PartitionsInductive == QInv /\ [Next]_vars => QInv'
  <1> SUFFICES ASSUME QInv, [Next]_vars PROVE QInv'
    OBVIOUS
  <1>1. ASSUME NEW q \in Queues, QueueStep(q) PROVE QInv'
    BY <1>1, ReserveSlotKeeps, ReserveKeeps, ReserveFailsKeeps, DestroyDrainedKeeps,
       RetainKeeps, ReleaseSlotKeeps DEF QueueStep
  <1>2. CASE BeginReclaim
    BY <1>2, BeginReclaimKeeps
  <1>3. CASE DropPending
    BY <1>3, DropPendingKeeps
  <1>4. CASE \E ok \in BOOLEAN : ReclaimOne(ok)
    BY <1>4, ReclaimOneKeeps
  <1>5. CASE DestroyDevice
    BY <1>5, DestroyDeviceKeeps
  <1>6. CASE DiscardOne
    BY <1>6, DiscardOneKeeps
  <1>7. CASE FreeBacking
    BY <1>7, FreeBackingKeeps
  <1>8. CASE UNCHANGED vars
    BY <1>8, StutterKeeps
  <1> QED
    BY <1>1, <1>2, <1>3, <1>4, <1>5, <1>6, <1>7, <1>8 DEF Next

--------------------------------------------------------------------------------
(***************************************************************************)
(* What the invariant says of the slots.                                   *)
(***************************************************************************)
LEMMA EachSlotOnce == ASSUME QInv PROVE SlotsPartitioned
  <1>1. SUFFICES ASSUME NEW b \in Blocks
                 PROVE  Cardinality({i \in DOMAIN freeIndices : freeIndices[i] = b})
                          + Cardinality({q \in Holders : b \in Partition(base[q])}) = 1
    BY DEF SlotsPartitioned
  <1> DEFINE I == {i \in DOMAIN freeIndices : freeIndices[i] = b}
             H == {q \in Holders : b \in Partition(base[q])}
  <1>2. CASE b \in ToSet(freeIndices)
    <2>1. PICK i \in DOMAIN freeIndices : freeIndices[i] = b
      BY <1>2 DEF ToSet
    <2>2. I = {i}
      BY <2>1 DEF QInv, SlotsOK, StackTiled, IsInjective
    <2>3. H = {}
      BY <1>2 DEF QInv, SlotsOK, LeasesApart
    <2> HIDE DEF I, H
    <2>4. Cardinality(I) = 1 /\ Cardinality(H) = 0
      BY <2>2, <2>3, FS_Singleton, FS_EmptySet
    <2> QED
      BY <2>4 DEF I, H
  <1>3. CASE b \notin ToSet(freeIndices)
    <2>1. I = {}
      BY <1>3 DEF ToSet
    <2>2. PICK q \in Holders : b \in Partition(base[q])
      BY <1>3 DEF QInv, SlotsOK, SlotsCovered
    <2>3. H = {q}
      BY <2>2 DEF QInv, SlotsOK, LeasesApart
    <2> HIDE DEF I, H
    <2>4. Cardinality(I) = 0 /\ Cardinality(H) = 1
      BY <2>1, <2>3, FS_Singleton, FS_EmptySet
    <2> QED
      BY <2>4 DEF I, H
  <1> QED
    BY <1>2, <1>3

(* The blocks on top of the stack are an aligned partition. *)
LEMMA GeometryFound == ASSUME QInv PROVE GeometryKept
  <1>1. Len(freeIndices) % C = 0
    BY DEF QInv, SlotsOK, StackTiled, Tiled
  <1>2. ASSUME freeIndices # <<>> PROVE Geometry(ToSet(Top))
    <2>1. Len(freeIndices) >= C
      BY <1>2, HasTop DEF QInv, SlotsOK, StackTiled
    <2>2. PICK b \in Blocks : b % C = 0 /\ b \in Nat /\ ToSet(Top) = Partition(b)
      BY <2>1, OnTop DEF QInv
    <2>3. b \in ToSet(Top)
      BY <2>2, FirstOf
    <2> QED
      BY <2>2, <2>3 DEF Geometry
  <1> QED
    BY <1>1, <1>2 DEF GeometryKept

(* No lease is left when the backing is freed. *)
LEMMA NothingOutlives == ASSUME QInv PROVE NoLeaseOutlivesDevice
  <1>1. SUFFICES ASSUME device = "destroyed"
                 PROVE  Holders = {} /\ liveQueues = 0 /\ pending = <<>>
    BY DEF NoLeaseOutlivesDevice
  <1>2. slots = {} /\ retained = <<>> /\ pending = <<>>
    BY <1>1 DEF QInv, LivesCounted, LeasesQuarantined
  <1>3. liveQueues = 0
    BY <1>2, FS_EmptySet DEF QInv, LivesCounted
  <1>4. \A q \in Queues : stage[q] \notin {"live", "retained"}
    <2>1. \A q \in Queues : stage[q] # "retained"
      BY <1>2, NothingIn DEF QInv, LeasesQuarantined
    <2> QED
      BY <1>2, <2>1 DEF QInv, LivesCounted
  <1>5. Holders = {}
    BY <1>4 DEF QInv, LivesCounted, Holders
  <1> QED
    BY <1>2, <1>3, <1>5

--------------------------------------------------------------------------------
(***************************************************************************)
(* The device: its partitions move only by the steps of QueueResources.    *)
(***************************************************************************)

(* The invariant of the partitions holds in every state of the device. *)
THEOREM PartitionsInvariance == MemorySpec => []QInv
  <1>1. MemoryInit => QInv
    BY Starts DEF MemoryInit
  <1>2. [MemoryNext]_<<vars, dataVars, ringVars>> => [Next]_vars
    BY DEF MemoryNext
  <1>3. QInv /\ [MemoryNext]_<<vars, dataVars, ringVars>> => QInv'
    BY <1>2, PartitionsInductive
  <1> QED
    BY <1>1, <1>3, PTL DEF MemorySpec

(* On every GPU device, with any number of queues and slots, every metadata *)
(* slot is free once or in one lease, a queue's C slots are always an       *)
(* aligned partition, the quarantine never overflows and no lease outlives  *)
(* the backing (queue_resources.hpp, device.cpp).                           *)
THEOREM PartitionsAreKept == MemorySpec => []PartitionsKept
  <1>1. QInv => PartitionsKept
    BY EachSlotOnce, GeometryFound, RoomKept, NothingOutlives DEF QInv, PartitionsKept
  <1> QED
    BY <1>1, PartitionsInvariance, PTL

--------------------------------------------------------------------------------
(***************************************************************************)
(* The data arena.                                                         *)
(***************************************************************************)
Ranges == [offset : Nat, size : Nat \ {0}]
Past(b) == b.offset + b.size
Holds(s, c) == \E i \in DOMAIN s : c \in Data!Cells(s[i])

(* The blocks of a list follow each other, at least so many units apart. *)
Spaced(s, gap) == \A i, j \in DOMAIN s : i < j => Past(s[i]) + gap <= s[j].offset

FreeListed ==
    /\ dataFree \in Seq(Ranges) /\ Spaced(dataFree, 1)
    /\ \A c \in Nat : Holds(dataFree, c) => c \in Data!Arena

Allotted ==
    /\ dataAllocated \subseteq Ranges
    /\ \A b \in dataAllocated :
           /\ b.offset % DataAlignment = 0 /\ Data!Cells(b) \subseteq Data!Arena
           /\ \A c \in Data!Cells(b) : ~ Holds(dataFree, c)
    /\ \A a, b \in dataAllocated : a # b => Data!Cells(a) \cap Data!Cells(b) = {}

NothingLost ==
    \A c \in Data!Arena : Holds(dataFree, c) \/ \E b \in dataAllocated : c \in Data!Cells(b)

(* Free blocks are sorted and never touch, allocations are aligned, and     *)
(* between them every unit of the arena is held once.                       *)
ArenaInv == FreeListed /\ Allotted /\ NothingLost

(* A set of numbers has a least one. *)
LEMMA LeastOf ==
    ASSUME NEW T, T \subseteq Nat, T # {}
    PROVE  \E x \in T : \A y \in T : x <= y
  <1>1. IsWellFoundedOn(OpToRel(<, Nat), Nat)
    BY NatLessThanWellFounded
  <1>2. PICK x \in T : \A y \in T : ~ (<<y, x>> \in OpToRel(<, Nat))
    BY <1>1, WFMin, Zenon
  <1>3. \A y \in T : ~ (y < x)
    BY <1>2 DEF OpToRel
  <1> QED
    BY <1>3

(* align_up_addr yields the least multiple that is not below. *)
LEMMA AlignedUp ==
    ASSUME NEW a \in Nat
    PROVE  /\ Data!AlignUp(a) \in Nat /\ Data!AlignUp(a) >= a
           /\ Data!AlignUp(a) % DataAlignment = 0
           /\ \A x \in Nat : x >= a /\ x % DataAlignment = 0 => Data!AlignUp(a) <= x
  <1> DEFINE n == DataAlignment
             k == (a + n - 1) \div n
  <1>1. n \in Nat /\ n > 0
    BY ArenaAssumption
  <1> HIDE DEF n
  <1>2. /\ k \in Int /\ n * k <= a + n - 1 /\ a + n - 1 < n * k + n
    BY <1>1
  <1>3. Data!AlignUp(a) = n * k
    BY <1>1, <1>2 DEF Data!AlignUp, n
  <1>4. k \in Nat
    BY <1>1
  <1> HIDE DEF k
  <1>5. n * k \in Nat /\ n * k >= a
    BY <1>1, <1>2, <1>4
  <1>6. (n * k) % n = 0
    BY <1>1, <1>4
  <1>7. ASSUME NEW x \in Nat, x >= a, x % n = 0 PROVE n * k <= x
    <2> DEFINE m == x \div n
    <2>1. m \in Int /\ x = n * m
      BY <1>1, <1>7
    <2> HIDE DEF m
    <2>2. SUFFICES ASSUME x < n * k PROVE FALSE
      BY <1>1, <1>4
    <2>3. m < k
      <3>1. SUFFICES ASSUME k <= m PROVE FALSE
        BY <1>4, <2>1
      <3>2. n * k <= n * m
        BY <1>1, <1>4, <2>1, <3>1
      <3> QED
        BY <1>5, <2>1, <2>2, <3>2
    <2>4. n * (m + 1) <= n * k /\ n * (m + 1) = n * m + n
      BY <1>1, <1>4, <2>1, <2>3
    <2> QED
      BY <1>1, <1>2, <1>5, <1>7, <2>1, <2>4
  <1> QED
    BY <1>3, <1>5, <1>6, <1>7 DEF n

(* The units of a block, and a list with nothing in it. *)
LEMMA CellsOf ==
    ASSUME NEW b \in Ranges
    PROVE  /\ b.offset \in Nat /\ b.size \in Nat /\ b.size > 0
           /\ Past(b) \in Nat /\ b.offset < Past(b)
           /\ Data!Cells(b) \subseteq Nat /\ b.offset \in Data!Cells(b)
           /\ \A c \in Int : c \in Data!Cells(b) <=> b.offset <= c /\ c < Past(b)
  BY DEF Ranges, Past, Data!Cells

(* A block made of two numbers. *)
LEMMA BlockOf ==
    ASSUME NEW o \in Nat, NEW n \in Nat, n # 0
    PROVE  /\ Data!Block(o, n) \in Ranges /\ Data!Block(o, n).offset = o
           /\ Data!Block(o, n).size = n /\ Past(Data!Block(o, n)) = o + n
  BY DEF Data!Block, Ranges, Past

--------------------------------------------------------------------------------
(***************************************************************************)
(* Lists of blocks, put together and cut.                                  *)
(***************************************************************************)
LEMMA JoinedLists ==
    ASSUME NEW gap \in Nat, NEW s \in Seq(Ranges), NEW t \in Seq(Ranges),
           Spaced(s, gap), Spaced(t, gap),
           \A i \in DOMAIN s, j \in DOMAIN t : Past(s[i]) + gap <= t[j].offset
    PROVE  /\ s \o t \in Seq(Ranges) /\ Spaced(s \o t, gap)
           /\ \A c : Holds(s \o t, c) <=> Holds(s, c) \/ Holds(t, c)
           /\ \A i \in DOMAIN (s \o t) :
                  \/ \E j \in DOMAIN s : (s \o t)[i] = s[j]
                  \/ \E j \in DOMAIN t : (s \o t)[i] = t[j]
  <1> DEFINE u == s \o t
             m == Len(s)
             n == Len(t)
  <1>1. m \in Nat /\ n \in Nat /\ DOMAIN s = 1 .. m /\ DOMAIN t = 1 .. n
    BY LenProperties
  <1>2. /\ u \in Seq(Ranges) /\ DOMAIN u = 1 .. m + n
        /\ \A i \in 1 .. m + n : u[i] = IF i <= m THEN s[i] ELSE t[i - m]
    BY Joined
  <1> HIDE DEF u, m, n
  <1>3. \A i \in 1 .. m + n :
            \/ i \in 1 .. m /\ i <= m /\ u[i] = s[i]
            \/ i - m \in 1 .. n /\ i > m /\ u[i] = t[i - m]
    BY <1>1, <1>2
  <1>4. /\ \A i \in 1 .. m : i \in 1 .. m + n /\ u[i] = s[i]
        /\ \A i \in 1 .. n : m + i \in 1 .. m + n /\ u[m + i] = t[i]
    <2>1. \A i \in 1 .. n : m + i \in 1 .. m + n /\ ~ (m + i <= m) /\ (m + i) - m = i
      BY <1>1
    <2>2. \A i \in 1 .. m : i \in 1 .. m + n /\ i <= m
      BY <1>1
    <2> QED
      BY <1>2, <2>1, <2>2
  <1>5. Spaced(u, gap)
    <2>1. SUFFICES ASSUME NEW i \in 1 .. m + n, NEW j \in 1 .. m + n, i < j
                   PROVE  Past(u[i]) + gap <= u[j].offset
      BY <1>2 DEF Spaced
    <2>2. CASE i <= m /\ j <= m
      BY <1>1, <1>3, <2>1, <2>2 DEF Spaced
    <2>3. CASE i <= m /\ j > m
      BY <1>1, <1>3, <2>1, <2>3
    <2>4. CASE i > m /\ j > m
      <3>1. i - m \in 1 .. n /\ j - m \in 1 .. n /\ i - m < j - m
        BY <1>1, <2>1, <2>4
      <3>2. u[i] = t[i - m] /\ u[j] = t[j - m]
        BY <1>1, <1>3, <2>4
      <3> QED
        BY <1>1, <3>1, <3>2 DEF Spaced
    <2> QED
      BY <1>1, <2>1, <2>2, <2>3, <2>4
  <1>6. \A c : Holds(u, c) <=> Holds(s, c) \/ Holds(t, c)
    <2>1. ASSUME NEW c, Holds(u, c) PROVE Holds(s, c) \/ Holds(t, c)
      BY <1>1, <1>2, <1>3, <2>1 DEF Holds
    <2>2. ASSUME NEW c, Holds(s, c) PROVE Holds(u, c)
      BY <1>1, <1>2, <1>4, <2>2 DEF Holds
    <2>3. ASSUME NEW c, Holds(t, c) PROVE Holds(u, c)
      BY <1>1, <1>2, <1>4, <2>3 DEF Holds
    <2> QED
      BY <2>1, <2>2, <2>3
  <1>7. \A i \in 1 .. m + n : (\E j \in 1 .. m : u[i] = s[j]) \/ \E j \in 1 .. n : u[i] = t[j]
    BY <1>3
  <1> QED
    BY <1>1, <1>2, <1>5, <1>6, <1>7 DEF u

(* ... here with a gap of one. *)
LEMMA JoinedApart ==
    ASSUME NEW s \in Seq(Ranges), NEW t \in Seq(Ranges),
           Spaced(s, 1), Spaced(t, 1),
           \A i \in DOMAIN s, j \in DOMAIN t : Past(s[i]) + 1 <= t[j].offset
    PROVE  /\ s \o t \in Seq(Ranges) /\ Spaced(s \o t, 1)
           /\ \A c : Holds(s \o t, c) <=> Holds(s, c) \/ Holds(t, c)
           /\ \A i \in DOMAIN (s \o t) :
                  \/ \E j \in DOMAIN s : (s \o t)[i] = s[j]
                  \/ \E j \in DOMAIN t : (s \o t)[i] = t[j]
  BY JoinedLists

(* A list of one block. *)
LEMMA Single ==
    ASSUME NEW b \in Ranges
    PROVE  /\ <<b>> \in Seq(Ranges) /\ DOMAIN <<b>> = {1} /\ <<b>>[1] = b
           /\ \A gap : Spaced(<<b>>, gap)
           /\ \A c : Holds(<<b>>, c) <=> c \in Data!Cells(b)
  <1>1. <<b>> \in Seq(Ranges) /\ DOMAIN <<b>> = {1} /\ <<b>>[1] = b
    OBVIOUS
  <1> QED
    BY <1>1 DEF Spaced, Holds

(* A list of none. *)
LEMMA Nothing ==
    /\ <<>> \in Seq(Ranges) /\ DOMAIN <<>> = {}
    /\ \A gap : Spaced(<<>>, gap)
    /\ \A c : ~ Holds(<<>>, c)
  <1>1. <<>> \in Seq(Ranges) /\ DOMAIN <<>> = {}
    OBVIOUS
  <1> QED
    BY <1>1 DEF Spaced, Holds

(* A stretch of a list. *)
LEMMA Stretch ==
    ASSUME NEW gap \in Nat, NEW s \in Seq(Ranges), Spaced(s, gap),
           NEW m \in 1 .. Len(s) + 1, NEW n \in 0 .. Len(s)
    PROVE  /\ SubSeq(s, m, n) \in Seq(Ranges) /\ Spaced(SubSeq(s, m, n), gap)
           /\ \A i \in DOMAIN SubSeq(s, m, n) :
                  \E k \in DOMAIN s : m <= k /\ k <= n /\ SubSeq(s, m, n)[i] = s[k]
           /\ \A c : Holds(SubSeq(s, m, n), c) <=>
                  \E k \in DOMAIN s : m <= k /\ k <= n /\ c \in Data!Cells(s[k])
  <1> DEFINE u == SubSeq(s, m, n)
             l == Len(u)
  <1>1. Len(s) \in Nat /\ DOMAIN s = 1 .. Len(s)
    BY LenProperties
  <1>2. \A i \in m .. n : i \in 1 .. Len(s) /\ s[i] \in Ranges
    BY <1>1, ElementOfSeq
  <1>3. /\ u \in Seq(Ranges) /\ l = (IF m <= n THEN n - m + 1 ELSE 0)
        /\ \A i \in 1 .. n - m + 1 : u[i] = s[m + i - 1]
    BY <1>1, <1>2, SubSeqProperties
  <1>4. l \in Nat /\ DOMAIN u = 1 .. l
    BY <1>3, LenProperties
  <1> HIDE DEF u, l
  <1>5. \A i \in 1 .. l : /\ m + i - 1 \in DOMAIN s /\ m <= m + i - 1 /\ m + i - 1 <= n
                          /\ u[i] = s[m + i - 1]
    BY <1>1, <1>3, <1>4
  <1>6. \A k \in DOMAIN s : m <= k /\ k <= n => k - m + 1 \in 1 .. l /\ u[k - m + 1] = s[k]
    BY <1>1, <1>3, <1>4
  <1>7. Spaced(u, gap)
    <2>1. SUFFICES ASSUME NEW i \in 1 .. l, NEW j \in 1 .. l, i < j
                   PROVE  Past(u[i]) + gap <= u[j].offset
      BY <1>4 DEF Spaced
    <2>2. m + i - 1 < m + j - 1
      BY <1>1, <1>4, <2>1
    <2> QED
      BY <1>5, <2>2 DEF Spaced
  <1>8. \A c : Holds(u, c) <=> \E k \in DOMAIN s : m <= k /\ k <= n /\ c \in Data!Cells(s[k])
    BY <1>4, <1>5, <1>6 DEF Holds
  <1> QED
    BY <1>3, <1>4, <1>5, <1>7, <1>8 DEF u

(* A piece that may have no size. *)
LEMMA MaybeEmpty ==
    ASSUME NEW o \in Nat, NEW n \in Nat, NEW s, s = Data!NonEmpty(Data!Block(o, n))
    PROVE  /\ s \in Seq(Ranges) /\ \A gap : Spaced(s, gap)
           /\ \A i \in DOMAIN s : s[i].offset = o /\ Past(s[i]) = o + n
           /\ \A c \in Int : Holds(s, c) <=> o <= c /\ c < o + n
  <1>1. CASE n = 0
    <2>1. s = <<>>
      BY <1>1 DEF Data!NonEmpty, Data!Block
    <2>2. \A c \in Int : ~ (o <= c /\ c < o + n)
      BY <1>1
    <2>3. s \in Seq(Ranges) /\ DOMAIN s = {} /\ \A gap : Spaced(s, gap)
      BY <2>1, Nothing
    <2>4. \A c : ~ Holds(s, c)
      BY <2>1, Nothing
    <2> QED
      BY <2>2, <2>3, <2>4
  <1>2. CASE n # 0
    <2> DEFINE b == Data!Block(o, n)
    <2>1. s = <<b>>
      BY <1>2 DEF Data!NonEmpty, Data!Block
    <2>2. b \in Ranges /\ b.offset = o /\ Past(b) = o + n
      BY <1>2, BlockOf
    <2> HIDE DEF b
    <2>3. \A c \in Int : c \in Data!Cells(b) <=> o <= c /\ c < o + n
      BY <2>2, CellsOf
    <2>4. s \in Seq(Ranges) /\ DOMAIN s = {1} /\ s[1] = b /\ \A gap : Spaced(s, gap)
      BY <2>1, <2>2, Single
    <2>5. \A c : Holds(s, c) <=> c \in Data!Cells(b)
      BY <2>1, <2>2, Single
    <2> QED
      BY <2>2, <2>3, <2>4, <2>5
  <1> QED
    BY <1>1, <1>2

--------------------------------------------------------------------------------
(***************************************************************************)
(* insert_free_block: the list stays sorted.                               *)
(***************************************************************************)
LEMMA LowerBound ==
    ASSUME NEW s \in Seq(Ranges), Spaced(s, 1), NEW o \in Nat
    PROVE  /\ Data!lower_bound(s, o) \in 1 .. Len(s) + 1
           /\ \A j \in 1 .. Len(s) :
                  IF j < Data!lower_bound(s, o) THEN s[j].offset < o ELSE s[j].offset >= o
  <1> DEFINE T == {i \in 1 .. Len(s) : s[i].offset >= o}
             P(i) == /\ \A j \in 1 .. i - 1 : s[j].offset < o
                     /\ \A j \in i .. Len(s) : s[j].offset >= o
  <1>1. Len(s) \in Nat /\ DOMAIN s = 1 .. Len(s)
    BY LenProperties
  <1>2. \A i \in 1 .. Len(s) :
            /\ s[i] \in Ranges /\ s[i].offset \in Nat /\ s[i].offset < Past(s[i])
            /\ Past(s[i]) \in Nat
    BY ElementOfSeq, CellsOf
  <1>3. \A i, j \in 1 .. Len(s) : i < j => s[i].offset < s[j].offset
    <2>1. \A i, j \in 1 .. Len(s) : i < j => Past(s[i]) + 1 <= s[j].offset
      BY <1>1 DEF Spaced
    <2>2. ASSUME NEW i \in 1 .. Len(s), NEW j \in 1 .. Len(s), i < j
          PROVE  s[i].offset < s[j].offset
      <3>1. Past(s[i]) + 1 <= s[j].offset
        BY <2>1, <2>2
      <3> QED
        BY <1>2, <3>1
    <2> QED
      BY <2>2
  <1>4. \E i \in 1 .. Len(s) + 1 : P(i)
    <2>1. CASE T = {}
      <3>1. P(Len(s) + 1)
        BY <1>1, <1>2, <2>1
      <3> QED
        BY <1>1, <3>1
    <2>2. CASE T # {}
      <3>1. T \subseteq Nat
        BY <1>1
      <3>2. PICK i \in T : \A j \in T : i <= j
        BY <2>2, <3>1, LeastOf
      <3>3. \A j \in 1 .. i - 1 : j \in 1 .. Len(s) /\ j \notin T
        BY <1>1, <3>2
      <3>4. \A j \in i .. Len(s) : j = i \/ s[i].offset < s[j].offset
        BY <1>1, <1>3
      <3>5. i \in 1 .. Len(s) /\ s[i].offset >= o
        BY <3>2
      <3>6. \A j \in 1 .. i - 1 : s[j].offset < o
        BY <1>2, <3>3
      <3>7. \A j \in i .. Len(s) : s[j].offset >= o
        <4>1. TAKE j \in i .. Len(s)
        <4>2. j \in 1 .. Len(s)
          BY <1>1, <3>5
        <4>3. s[i].offset \in Nat /\ s[j].offset \in Nat
          BY <1>2, <3>5, <4>2
        <4> QED
          BY <3>4, <3>5, <4>3
      <3> QED
        BY <1>1, <3>5, <3>6, <3>7
    <2> QED
      BY <2>1, <2>2
  <1>5. Data!lower_bound(s, o) \in 1 .. Len(s) + 1 /\ P(Data!lower_bound(s, o))
    BY <1>4 DEF Data!lower_bound
  <1> DEFINE p == Data!lower_bound(s, o)
  <1> HIDE DEF p
  <1>6. p \in 1 .. Len(s) + 1 /\ P(p)
    BY <1>5 DEF p
  <1>7. \A j \in 1 .. Len(s) : IF j < p THEN s[j].offset < o ELSE s[j].offset >= o
    BY <1>1, <1>6
  <1> QED
    BY <1>6, <1>7 DEF p

(* A freed block put in its place overlaps none of its neighbours. *)
LEMMA Inserted ==
    ASSUME NEW s \in Seq(Ranges), Spaced(s, 1), NEW b \in Ranges,
           \A c \in Data!Cells(b) : ~ Holds(s, c),
           NEW t, t = Data!InsertFreeBlock(s, b)
    PROVE  /\ t \in Seq(Ranges) /\ Spaced(t, 0)
           /\ \A c : Holds(t, c) <=> Holds(s, c) \/ c \in Data!Cells(b)
  <1> DEFINE p == Data!lower_bound(s, b.offset)
             before == SubSeq(s, 1, p - 1)
             after == SubSeq(s, p, Len(s))
  <1>1. Len(s) \in Nat /\ DOMAIN s = 1 .. Len(s)
    BY LenProperties
  <1>2. /\ b.offset \in Nat /\ Past(b) \in Nat /\ b.offset < Past(b)
        /\ \A c \in Int : c \in Data!Cells(b) <=> b.offset <= c /\ c < Past(b)
    BY CellsOf
  <1>3. /\ p \in 1 .. Len(s) + 1
        /\ \A j \in 1 .. Len(s) : IF j < p THEN s[j].offset < b.offset ELSE s[j].offset >= b.offset
    BY <1>2, LowerBound
  <1>4. t = (before \o <<b>>) \o after
    BY DEF Data!InsertFreeBlock, Data!InsertAt
  <1> HIDE DEF p
  <1>5. \A j \in 1 .. Len(s) :
            /\ s[j] \in Ranges /\ s[j].offset \in Nat /\ Past(s[j]) \in Nat
            /\ s[j].offset < Past(s[j])
            /\ \A c \in Int : c \in Data!Cells(s[j]) <=> s[j].offset <= c /\ c < Past(s[j])
    BY ElementOfSeq, CellsOf
  <1>6. \A j \in 1 .. Len(s) : IF j < p THEN Past(s[j]) <= b.offset ELSE Past(b) <= s[j].offset
    <2>1. TAKE j \in 1 .. Len(s)
    <2>2. \A c \in Data!Cells(b) : c \notin Data!Cells(s[j])
      BY <1>1 DEF Holds
    <2>3. CASE j < p
      <3>1. s[j].offset < b.offset /\ b.offset \in Data!Cells(b)
        BY <1>2, <1>3, <2>3
      <3>2. b.offset \notin Data!Cells(s[j])
        BY <2>2, <3>1
      <3> QED
        BY <1>2, <1>5, <2>3, <3>1, <3>2
    <2>4. CASE ~ (j < p)
      <3>1. s[j].offset >= b.offset /\ s[j].offset \in Data!Cells(s[j])
        BY <1>3, <1>5, <2>4
      <3>2. s[j].offset \notin Data!Cells(b)
        BY <2>2, <3>1
      <3> QED
        BY <1>2, <1>5, <2>4, <3>1, <3>2
    <2> QED
      BY <2>3, <2>4
  <1>7. Spaced(s, 0)
    BY <1>1, <1>5 DEF Spaced
  <1>8. p - 1 \in 0 .. Len(s) /\ 1 \in 1 .. Len(s) + 1 /\ Len(s) \in 0 .. Len(s)
    BY <1>1, <1>3
  <1>9. /\ before \in Seq(Ranges) /\ Spaced(before, 0)
        /\ \A i \in DOMAIN before : \E k \in DOMAIN s : k <= p - 1 /\ before[i] = s[k]
        /\ \A c : Holds(before, c) <=> \E k \in DOMAIN s : 1 <= k /\ k <= p - 1 /\ c \in Data!Cells(s[k])
    BY <1>7, <1>8, Stretch
  <1>10. /\ after \in Seq(Ranges) /\ Spaced(after, 0)
         /\ \A i \in DOMAIN after : \E k \in DOMAIN s : p <= k /\ after[i] = s[k]
         /\ \A c : Holds(after, c) <=> \E k \in DOMAIN s : p <= k /\ k <= Len(s) /\ c \in Data!Cells(s[k])
    BY <1>3, <1>7, <1>8, Stretch
  <1> HIDE DEF before, after
  <1> DEFINE start == before \o <<b>>
  <1>11. /\ <<b>> \in Seq(Ranges) /\ DOMAIN <<b>> = {1} /\ <<b>>[1] = b
         /\ Spaced(<<b>>, 0) /\ \A c : Holds(<<b>>, c) <=> c \in Data!Cells(b)
    BY Single
  <1>12. \A i \in DOMAIN before : Past(before[i]) + 0 <= b.offset
    BY <1>1, <1>2, <1>3, <1>5, <1>6, <1>9
  <1>13. /\ start \in Seq(Ranges) /\ Spaced(start, 0)
         /\ \A c : Holds(start, c) <=> Holds(before, c) \/ c \in Data!Cells(b)
         /\ \A i \in DOMAIN start : (\E j \in DOMAIN before : start[i] = before[j]) \/ start[i] = b
    <2>1. \A i \in DOMAIN before, j \in DOMAIN <<b>> : Past(before[i]) + 0 <= <<b>>[j].offset
      BY <1>11, <1>12
    <2>2. /\ start \in Seq(Ranges) /\ Spaced(start, 0)
          /\ \A c : Holds(start, c) <=> Holds(before, c) \/ Holds(<<b>>, c)
          /\ \A i \in DOMAIN start :
                 (\E j \in DOMAIN before : start[i] = before[j]) \/ \E j \in DOMAIN <<b>> : start[i] = <<b>>[j]
      BY <1>9, <1>11, <2>1, JoinedLists
    <2> QED
      BY <1>11, <2>2
  <1> HIDE DEF start
  <1>14. \A i \in DOMAIN start, j \in DOMAIN after : Past(start[i]) + 0 <= after[j].offset
    <2>1. TAKE i \in DOMAIN start, j \in DOMAIN after
    <2>2. PICK k \in DOMAIN s : p <= k /\ after[j] = s[k]
      BY <1>10
    <2>3. Past(b) <= after[j].offset
      BY <1>1, <1>3, <1>6, <2>2
    <2>4. CASE start[i] = b
      BY <1>2, <2>3, <2>4
    <2>5. CASE \E l \in DOMAIN before : start[i] = before[l]
      <3>1. Past(start[i]) <= b.offset /\ Past(start[i]) \in Nat
        BY <1>1, <1>5, <1>9, <1>12, <2>5
      <3> QED
        BY <1>1, <1>2, <1>5, <2>2, <2>3, <3>1
    <2> QED
      BY <1>13, <2>4, <2>5
  <1>15. /\ t \in Seq(Ranges) /\ Spaced(t, 0)
         /\ \A c : Holds(t, c) <=> Holds(start, c) \/ Holds(after, c)
    <2>1. t = start \o after
      BY <1>4 DEF start
    <2> QED
      BY <1>10, <1>13, <1>14, <2>1, JoinedLists
  <1>16. \A c : Holds(s, c) <=> Holds(before, c) \/ Holds(after, c)
    <2>1. \A k \in DOMAIN s : (1 <= k /\ k <= p - 1) \/ (p <= k /\ k <= Len(s))
      BY <1>1, <1>3
    <2> QED
      BY <1>9, <1>10, <2>1 DEF Holds
  <1> QED
    BY <1>13, <1>15, <1>16

--------------------------------------------------------------------------------
(***************************************************************************)
(* coalesce: the list's neighbours no longer touch.                        *)
(***************************************************************************)
(* One block put after a list it does not overlap. *)
LEMMA Follows ==
    ASSUME NEW u \in Seq(Ranges), Spaced(u, 1), NEW b \in Ranges,
           \A i \in DOMAIN u : Past(u[i]) + 1 <= b.offset,
           NEW t, t = Append(u, b)
    PROVE  /\ t \in Seq(Ranges) /\ Spaced(t, 1) /\ t # <<>>
           /\ Past(t[Len(t)]) = Past(b)
           /\ \A c : Holds(t, c) <=> Holds(u, c) \/ c \in Data!Cells(b)
  <1>1. t = u \o <<b>>
    BY AppendIsConcat
  <1>2. /\ <<b>> \in Seq(Ranges) /\ DOMAIN <<b>> = {1} /\ <<b>>[1] = b
        /\ Spaced(<<b>>, 1) /\ \A c : Holds(<<b>>, c) <=> c \in Data!Cells(b)
    BY Single
  <1>3. \A i \in DOMAIN u, j \in DOMAIN <<b>> : Past(u[i]) + 1 <= <<b>>[j].offset
    BY <1>2
  <1>4. /\ t \in Seq(Ranges) /\ Spaced(t, 1)
        /\ \A c : Holds(t, c) <=> Holds(u, c) \/ Holds(<<b>>, c)
    <2>1. /\ u \o <<b>> \in Seq(Ranges) /\ Spaced(u \o <<b>>, 1)
          /\ \A c : Holds(u \o <<b>>, c) <=> Holds(u, c) \/ Holds(<<b>>, c)
      BY <1>2, <1>3, JoinedLists, Zenon
    <2> QED
      BY <1>1, <2>1
  <1>5. Len(t) = Len(u) + 1 /\ t[Len(u) + 1] = b /\ t # <<>>
    BY AppendProperties
  <1> QED
    BY <1>2, <1>4, <1>5

(* A block is merged into the one it touches, or follows it. *)
LEMMA MergedOn ==
    ASSUME NEW u \in Seq(Ranges), Spaced(u, 1), NEW b \in Ranges,
           u # <<>> => Past(u[Len(u)]) <= b.offset,
           NEW t, t = Data!Merge(u, b)
    PROVE  /\ t \in Seq(Ranges) /\ Spaced(t, 1) /\ t # <<>>
           /\ Past(t[Len(t)]) = Past(b)
           /\ \A c \in Int : Holds(t, c) <=> Holds(u, c) \/ c \in Data!Cells(b)
  <1> DEFINE n == Len(u)
             last == u[n]
             front == SubSeq(u, 1, n - 1)
  <1>1. n \in Nat /\ DOMAIN u = 1 .. n /\ (u # <<>> <=> n > 0)
    BY LenProperties, EmptySeq
  <1>2. \A j \in 1 .. n :
            /\ u[j] \in Ranges /\ u[j].offset \in Nat /\ Past(u[j]) \in Nat
            /\ u[j].offset < Past(u[j])
    BY ElementOfSeq, CellsOf
  <1>3. /\ b.offset \in Nat /\ b.size \in Nat /\ b.size > 0 /\ Past(b) \in Nat
        /\ Past(b) = b.offset + b.size
        /\ \A c \in Int : c \in Data!Cells(b) <=> b.offset <= c /\ c < Past(b)
    BY CellsOf DEF Past
  <1>4. CASE u # <<>> /\ Past(last) = b.offset
    <2> DEFINE x == Data!Block(last.offset, last.size + b.size)
    <2>1. n \in 1 .. n /\ last \in Ranges /\ last.offset \in Nat /\ last.size \in Nat /\ last.size > 0
          /\ Past(last) = last.offset + last.size
          /\ \A c \in Int : c \in Data!Cells(last) <=> last.offset <= c /\ c < Past(last)
      BY <1>1, <1>2, <1>4, CellsOf DEF Past
    <2>2. t = Append(front, x)
      BY <1>4 DEF Data!Merge, Data!Last, Data!Front, Past
    <2> HIDE DEF last
    <2>3. /\ x \in Ranges /\ x.offset = last.offset
          /\ Past(x) = last.offset + (last.size + b.size)
      <3>1. last.size + b.size \in Nat /\ last.size + b.size # 0
        BY <1>3, <2>1
      <3> QED
        BY <2>1, <3>1, BlockOf
    <2>4. Past(x) = Past(b) /\ Past(last) = b.offset
      BY <1>3, <1>4, <2>1, <2>3
    <2> HIDE DEF x
    <2>5. \A c \in Int : c \in Data!Cells(x) <=> last.offset <= c /\ c < Past(x)
      BY <2>3, CellsOf
    <2>6. \A c \in Int : c \in Data!Cells(x) <=> c \in Data!Cells(last) \/ c \in Data!Cells(b)
      BY <1>3, <2>1, <2>3, <2>4, <2>5
    <2>7. /\ front \in Seq(Ranges) /\ Spaced(front, 1)
          /\ \A i \in DOMAIN front : \E k \in DOMAIN u : k <= n - 1 /\ front[i] = u[k]
          /\ \A c : Holds(front, c) <=> \E k \in DOMAIN u : 1 <= k /\ k <= n - 1 /\ c \in Data!Cells(u[k])
      <3>1. n - 1 \in 0 .. n /\ 1 \in 1 .. n + 1
        BY <1>1, <2>1
      <3> QED
        BY <3>1, Stretch
    <2> HIDE DEF front
    <2>8. \A i \in DOMAIN front : Past(front[i]) + 1 <= x.offset
      <3>1. TAKE i \in DOMAIN front
      <3>2. PICK k \in DOMAIN u : k <= n - 1 /\ front[i] = u[k]
        BY <2>7
      <3>3. k < n /\ n \in DOMAIN u
        BY <1>1, <2>1, <3>2
      <3>4. Past(u[k]) + 1 <= u[n].offset
        BY <3>2, <3>3 DEF Spaced
      <3> QED
        BY <2>3, <3>2, <3>4 DEF last
    <2>9. \A c : Holds(u, c) <=> Holds(front, c) \/ c \in Data!Cells(last)
      <3>1. \A k \in DOMAIN u : 1 <= k /\ (k <= n - 1 \/ k = n)
        BY <1>1
      <3>2. n \in DOMAIN u
        BY <1>1, <2>1
      <3> QED
        BY <2>7, <3>1, <3>2 DEF Holds, last
    <2>10. /\ t \in Seq(Ranges) /\ Spaced(t, 1) /\ t # <<>>
           /\ Past(t[Len(t)]) = Past(x)
           /\ \A c : Holds(t, c) <=> Holds(front, c) \/ c \in Data!Cells(x)
      BY <2>2, <2>3, <2>7, <2>8, Follows
    <2> QED
      BY <2>4, <2>6, <2>9, <2>10
  <1>5. CASE ~ (u # <<>> /\ Past(last) = b.offset)
    <2>1. t = Append(u, b)
      BY <1>5 DEF Data!Merge, Data!Last, Past
    <2>2. \A i \in DOMAIN u : Past(u[i]) + 1 <= b.offset
      <3>1. TAKE i \in DOMAIN u
      <3>2. n \in 1 .. n /\ i \in 1 .. n /\ u # <<>>
        BY <1>1
      <3>3. Past(last) + 1 <= b.offset /\ Past(last) \in Nat /\ last.offset < Past(last)
            /\ last.offset \in Nat
        BY <1>2, <1>3, <1>5, <3>2
      <3>4. CASE i = n
        BY <3>3, <3>4
      <3>5. CASE i # n
        <4>1. i < n
          BY <1>1, <3>2, <3>5
        <4>2. Past(u[i]) + 1 <= last.offset
          BY <1>1, <3>2, <4>1 DEF Spaced
        <4>3. Past(u[i]) \in Nat
          BY <1>2, <3>2
        <4> QED
          BY <1>3, <3>3, <4>2, <4>3
      <3> QED
        BY <3>4, <3>5
    <2> QED
      BY <2>1, <2>2, Follows
  <1> QED
    BY <1>4, <1>5

(* The recursion is defined for every list. *)
LEMMA MergedUp ==
    ASSUME NEW s, Len(s) \in Nat
    PROVE  \E f : /\ f = [i \in 0 .. Len(s) |->
                            IF i = 0 THEN <<>> ELSE Data!Merge(f[i - 1], s[i])]
                  /\ Data!Coalesce(s) = f[Len(s)]
  <1> DEFINE Unfolds(g, k) ==
                 g = [i \in 0 .. k |-> IF i = 0 THEN <<>> ELSE Data!Merge(g[i - 1], s[i])]
             T == {k \in Nat : ~ \E g : Unfolds(g, k)}
  <1>1. T = {}
    <2>1. SUFFICES ASSUME T # {} PROVE FALSE
      OBVIOUS
    <2>2. PICK k \in T : \A l \in T : k <= l
      <3>1. T \subseteq Nat
        OBVIOUS
      <3> HIDE DEF T
      <3> QED
        BY <2>1, <3>1, LeastOf
    <2>3. CASE k = 0
      <3> DEFINE g == [i \in 0 .. 0 |-> <<>>]
      <3>1. Unfolds(g, 0)
        OBVIOUS
      <3> QED
        BY <2>2, <2>3, <3>1
    <2>4. CASE k # 0
      <3>1. k \in Nat /\ k - 1 \in Nat /\ k - 1 \notin T
        BY <2>2, <2>4
      <3>2. PICK g : Unfolds(g, k - 1)
        BY <3>1
      <3> DEFINE h == [i \in 0 .. k |-> IF i = k THEN Data!Merge(g[k - 1], s[k]) ELSE g[i]]
      <3>3. \A i \in 0 .. k - 1 :
                g[i] = IF i = 0 THEN <<>> ELSE Data!Merge(g[i - 1], s[i])
        BY <3>2
      <3>4. \A i \in 0 .. k : h[i] = IF i = 0 THEN <<>> ELSE Data!Merge(h[i - 1], s[i])
        <4>1. TAKE i \in 0 .. k
        <4>2. CASE i = k
          <5>1. h[k] = Data!Merge(g[k - 1], s[k]) /\ h[k - 1] = g[k - 1]
            BY <3>1
          <5> QED
            BY <2>4, <4>2, <5>1
        <4>3. CASE i # k
          <5>1. i \in 0 .. k - 1 /\ h[i] = g[i]
            BY <3>1, <4>3
          <5>2. i # 0 => h[i - 1] = g[i - 1]
            BY <3>1, <5>1
          <5> QED
            BY <3>3, <5>1, <5>2
        <4> QED
          BY <4>2, <4>3
      <3>5. h = [i \in 0 .. k |-> IF i = 0 THEN <<>> ELSE Data!Merge(h[i - 1], s[i])]
        <4>1. h = [i \in 0 .. k |-> h[i]]
          OBVIOUS
        <4> HIDE DEF h
        <4> QED
          BY <3>4, <4>1
      <3> QED
        BY <2>2, <3>5
    <2> QED
      BY <2>3, <2>4
  <1> DEFINE f == CHOOSE g : Unfolds(g, Len(s))
  <1>2. \E g : Unfolds(g, Len(s))
    BY <1>1
  <1>3. Unfolds(f, Len(s))
    BY <1>2
  <1>4. Data!Coalesce(s) = f[Len(s)]
    BY DEF Data!Coalesce
  <1> HIDE DEF f
  <1> QED
    BY <1>3, <1>4

(* Sorted blocks that do not overlap come out apart, with the same units. *)
LEMMA Coalesced ==
    ASSUME NEW s \in Seq(Ranges), Spaced(s, 0), NEW t, t = Data!Coalesce(s)
    PROVE  /\ t \in Seq(Ranges) /\ Spaced(t, 1)
           /\ \A c \in Int : Holds(t, c) <=> Holds(s, c)
  <1> DEFINE n == Len(s)
  <1>1. n \in Nat /\ DOMAIN s = 1 .. n
    BY LenProperties
  <1>2. PICK f : /\ f = [i \in 0 .. n |-> IF i = 0 THEN <<>> ELSE Data!Merge(f[i - 1], s[i])]
                 /\ t = f[n]
    BY <1>1, MergedUp
  <1>3. f[0] = <<>> /\ \A i \in 1 .. n : f[i] = Data!Merge(f[i - 1], s[i])
    <2>1. \A i \in 0 .. n : f[i] = IF i = 0 THEN <<>> ELSE Data!Merge(f[i - 1], s[i])
      BY <1>2
    <2> QED
      BY <1>1, <2>1
  <1> DEFINE Done(k) ==
                 /\ f[k] \in Seq(Ranges) /\ Spaced(f[k], 1)
                 /\ f[k] = <<>> <=> k = 0
                 /\ k # 0 => Past(f[k][Len(f[k])]) = Past(s[k])
                 /\ \A c \in Int : Holds(f[k], c) <=> \E j \in 1 .. k : c \in Data!Cells(s[j])
             T == {k \in 0 .. n : ~ Done(k)}
  <1> HIDE DEF n
  <1>4. Done(0)
    BY <1>3, Nothing
  <1>5. ASSUME NEW k \in 1 .. n, Done(k - 1) PROVE Done(k)
    <2> DEFINE u == f[k - 1]
               b == s[k]
    <2>1. b \in Ranges /\ b.offset \in Nat
      BY <1>1, <1>5, ElementOfSeq, CellsOf DEF n
    <2>2. u \in Seq(Ranges) /\ Spaced(u, 1) /\ (u = <<>> <=> k - 1 = 0)
          /\ (k - 1 # 0 => Past(u[Len(u)]) = Past(s[k - 1]))
          /\ \A c \in Int : Holds(u, c) <=> \E j \in 1 .. k - 1 : c \in Data!Cells(s[j])
      BY <1>5
    <2>3. f[k] = Data!Merge(u, b)
      BY <1>3
    <2>4. u # <<>> => Past(u[Len(u)]) <= b.offset
      <3>1. SUFFICES ASSUME u # <<>> PROVE Past(u[Len(u)]) <= b.offset
        OBVIOUS
      <3>2. k - 1 \in 1 .. n /\ k \in 1 .. n /\ k - 1 < k
        BY <1>1, <2>2, <3>1
      <3>3. Past(s[k - 1]) + 0 <= b.offset
        BY <1>1, <3>2 DEF Spaced
      <3>4. Past(s[k - 1]) \in Nat
        BY <1>1, <3>2, ElementOfSeq, CellsOf DEF n
      <3> QED
        BY <2>1, <2>2, <3>1, <3>3, <3>4
    <2> HIDE DEF u, b
    <2>5. /\ f[k] \in Seq(Ranges) /\ Spaced(f[k], 1) /\ f[k] # <<>>
          /\ Past(f[k][Len(f[k])]) = Past(b)
          /\ \A c \in Int : Holds(f[k], c) <=> Holds(u, c) \/ c \in Data!Cells(b)
      BY <2>1, <2>2, <2>3, <2>4, MergedOn
    <2>6. \A j : j \in 1 .. k <=> j \in 1 .. k - 1 \/ j = k
      BY <1>1, <1>5
    <2>7. \A c \in Int : Holds(f[k], c) <=> \E j \in 1 .. k : c \in Data!Cells(s[j])
      BY <2>2, <2>5, <2>6 DEF b
    <2>8. k # 0
      BY <1>1, <1>5
    <2> QED
      BY <2>5, <2>7, <2>8 DEF b
  <1>6. T = {}
    <2>1. SUFFICES ASSUME T # {} PROVE FALSE
      OBVIOUS
    <2>2. PICK k \in T : \A l \in T : k <= l
      <3>1. T \subseteq Nat
        BY <1>1
      <3> HIDE DEF T
      <3> QED
        BY <2>1, <3>1, LeastOf
    <2>3. k \in 0 .. n /\ ~ Done(k)
      OBVIOUS
    <2> HIDE DEF Done
    <2>4. k \in 1 .. n
      BY <1>1, <1>4, <2>3
    <2>5. k - 1 \in 0 .. n /\ ~ (k <= k - 1)
      BY <1>1, <2>4
    <2>6. Done(k - 1)
      BY <2>2, <2>5
    <2> QED
      BY <1>5, <2>3, <2>4, <2>6
  <1>7. Done(n)
    <2> HIDE DEF Done
    <2> QED
      BY <1>1, <1>6
  <1>8. \A c : Holds(s, c) <=> \E j \in 1 .. n : c \in Data!Cells(s[j])
    BY <1>1 DEF Holds
  <1> QED
    BY <1>2, <1>7, <1>8

--------------------------------------------------------------------------------
(***************************************************************************)
(* Each call keeps the invariant.                                          *)
(***************************************************************************)
(* The list of a fresh arena holds all of it. *)
LEMMA ResetHolds ==
    ASSUME NEW s, s = Data!Initial
    PROVE  /\ s \in Seq(Ranges) /\ Spaced(s, 1)
           /\ \A c \in Int : Holds(s, c) <=> c \in Data!Arena
  <1>1. 0 \in Nat /\ DataCapacity \in Nat
    BY ArenaAssumption
  <1>2. s = Data!NonEmpty(Data!Block(0, DataCapacity))
    BY DEF Data!Initial
  <1>3. /\ s \in Seq(Ranges) /\ Spaced(s, 1)
        /\ \A c \in Int : Holds(s, c) <=> 0 <= c /\ c < 0 + DataCapacity
    BY <1>1, <1>2, MaybeEmpty
  <1> QED
    BY <1>1, <1>3 DEF Data!Arena

(* A fresh arena. *)
LEMMA ArenaStarts == Data!Init => ArenaInv
  <1>1. SUFFICES ASSUME Data!Init PROVE ArenaInv
    OBVIOUS
  <1>2. /\ dataFree \in Seq(Ranges) /\ Spaced(dataFree, 1)
        /\ \A c \in Int : Holds(dataFree, c) <=> c \in Data!Arena
    BY <1>1, ResetHolds DEF Data!Init
  <1>3. Data!Arena \subseteq Nat /\ Nat \subseteq Int
    BY ArenaAssumption DEF Data!Arena
  <1>4. dataAllocated = {}
    BY <1>1 DEF Data!Init
  <1> QED
    BY <1>2, <1>3, <1>4 DEF ArenaInv, FreeListed, Allotted, NothingLost

(* reset(): the same state again. *)
LEMMA ResetKeeps == ASSUME Data!Reset PROVE ArenaInv'
  <1>1. /\ dataFree' \in Seq(Ranges) /\ Spaced(dataFree', 1)
        /\ \A c \in Int : Holds(dataFree', c) <=> c \in Data!Arena
    BY ResetHolds DEF Data!Reset
  <1>2. Data!Arena \subseteq Nat /\ Nat \subseteq Int
    BY ArenaAssumption DEF Data!Arena
  <1>3. dataAllocated' = {}
    BY DEF Data!Reset
  <1> QED
    BY <1>1, <1>2, <1>3 DEF ArenaInv, FreeListed, Allotted, NothingLost, Spaced, Holds

(* free(): the units of the allocation go back to the list. *)
LEMMA FreeKeeps ==
    ASSUME ArenaInv, NEW b \in dataAllocated, Data!Free(b)
    PROVE  ArenaInv'
  <1> DEFINE t == Data!InsertFreeBlock(dataFree, b)
             u == Data!Coalesce(t)
  <1>1. /\ dataFree \in Seq(Ranges) /\ Spaced(dataFree, 1)
        /\ \A c \in Nat : Holds(dataFree, c) => c \in Data!Arena
    BY DEF ArenaInv, FreeListed
  <1>2. /\ dataAllocated \subseteq Ranges /\ b \in Ranges
        /\ \A a \in dataAllocated :
               /\ a.offset % DataAlignment = 0 /\ Data!Cells(a) \subseteq Data!Arena
               /\ \A c \in Data!Cells(a) : ~ Holds(dataFree, c)
        /\ \A a, d \in dataAllocated : a # d => Data!Cells(a) \cap Data!Cells(d) = {}
    BY DEF ArenaInv, Allotted
  <1>3. dataFree' = u /\ dataAllocated' = dataAllocated \ {b}
    BY DEF Data!Free
  <1>4. Data!Arena \subseteq Nat /\ Nat \subseteq Int /\ Data!Arena \subseteq Int
    BY ArenaAssumption DEF Data!Arena
  <1>5. /\ t \in Seq(Ranges) /\ Spaced(t, 0)
        /\ \A c : Holds(t, c) <=> Holds(dataFree, c) \/ c \in Data!Cells(b)
    BY <1>1, <1>2, Inserted
  <1> HIDE DEF t
  <1>6. /\ u \in Seq(Ranges) /\ Spaced(u, 1)
        /\ \A c \in Int : Holds(u, c) <=> Holds(t, c)
    BY <1>5, Coalesced
  <1> HIDE DEF u
  <1>7. \A c \in Int : Holds(u, c) <=> Holds(dataFree, c) \/ c \in Data!Cells(b)
    BY <1>5, <1>6
  <1>8. \A c : Holds(dataFree, c)' <=> Holds(u, c)
    BY <1>3 DEF Holds
  <1>9. FreeListed'
    <2>1. Spaced(dataFree, 1)'
      BY <1>3, <1>6 DEF Spaced
    <2>2. \A c \in Nat : Holds(u, c) => c \in Data!Arena
      BY <1>1, <1>2, <1>4, <1>7
    <2> QED
      BY <1>3, <1>6, <1>8, <2>1, <2>2 DEF FreeListed
  <1>10. Allotted'
    <2>1. \A a \in dataAllocated \ {b} : \A c \in Data!Cells(a) : ~ Holds(u, c)
      BY <1>2, <1>4, <1>7
    <2> QED
      BY <1>2, <1>3, <1>8, <2>1 DEF Allotted
  <1>11. NothingLost'
    BY <1>3, <1>4, <1>7, <1>8 DEF ArenaInv, NothingLost
  <1> QED
    BY <1>9, <1>10, <1>11 DEF ArenaInv

(* A block split around an allocation, between its neighbours. *)
Parted(s, i, addr, end) ==
    SubSeq(s, 1, i - 1)
    \o Data!NonEmpty(Data!Block(s[i].offset, addr - s[i].offset))
    \o Data!NonEmpty(Data!Block(end, s[i].offset + s[i].size - end))
    \o SubSeq(s, i + 1, Len(s))

(* It holds what the list held, but for the allocation. *)
LEMMA Split ==
    ASSUME NEW s \in Seq(Ranges), Spaced(s, 1), NEW i \in DOMAIN s,
           NEW addr \in Nat, NEW end \in Nat,
           s[i].offset <= addr, addr < end, end <= Past(s[i]),
           NEW t, t = Parted(s, i, addr, end)
    PROVE  /\ t \in Seq(Ranges) /\ Spaced(t, 1)
           /\ \A c \in Int : Holds(t, c) <=> Holds(s, c) /\ ~ (addr <= c /\ c < end)
  <1> DEFINE before == SubSeq(s, 1, i - 1)
             after == SubSeq(s, i + 1, Len(s))
             o == s[i].offset
             e == Past(s[i])
  <1>p. PICK p : p = Data!NonEmpty(Data!Block(o, addr - o))
    OBVIOUS
  <1>q. PICK q : q = Data!NonEmpty(Data!Block(end, s[i].offset + s[i].size - end))
    OBVIOUS
  <1> DEFINE bp == before \o p
             bpq == bp \o q
  <1>1. Len(s) \in Nat /\ DOMAIN s = 1 .. Len(s) /\ i \in 1 .. Len(s)
    BY LenProperties
  <1>2. \A j \in 1 .. Len(s) :
            /\ s[j] \in Ranges /\ s[j].offset \in Nat /\ Past(s[j]) \in Nat
            /\ s[j].offset < Past(s[j])
            /\ \A c \in Int : c \in Data!Cells(s[j]) <=> s[j].offset <= c /\ c < Past(s[j])
    BY ElementOfSeq, CellsOf
  <1>3. /\ o \in Nat /\ e \in Nat /\ o <= addr /\ addr < end /\ end <= e
        /\ \A c \in Int : c \in Data!Cells(s[i]) <=> o <= c /\ c < e
    BY <1>1, <1>2
  <1>4. /\ \A j \in 1 .. Len(s) : j < i => Past(s[j]) + 1 <= o
        /\ \A j \in 1 .. Len(s) : i < j => e + 1 <= s[j].offset
    BY <1>1 DEF Spaced
  <1>5. /\ before \in Seq(Ranges) /\ Spaced(before, 1)
        /\ \A j \in DOMAIN before : \E k \in DOMAIN s : k <= i - 1 /\ before[j] = s[k]
        /\ \A c : Holds(before, c) <=> \E k \in DOMAIN s : 1 <= k /\ k <= i - 1 /\ c \in Data!Cells(s[k])
    <2>1. i - 1 \in 0 .. Len(s) /\ 1 \in 1 .. Len(s) + 1 /\ 1 \in Nat
      BY <1>1
    <2> QED
      BY <2>1, Stretch
  <1>6. /\ after \in Seq(Ranges) /\ Spaced(after, 1)
        /\ \A j \in DOMAIN after : \E k \in DOMAIN s : i + 1 <= k /\ after[j] = s[k]
        /\ \A c : Holds(after, c) <=> \E k \in DOMAIN s : i + 1 <= k /\ k <= Len(s) /\ c \in Data!Cells(s[k])
    <2>1. i + 1 \in 1 .. Len(s) + 1 /\ Len(s) \in 0 .. Len(s) /\ 1 \in Nat
      BY <1>1
    <2> QED
      BY <2>1, Stretch
  <1>t. t = bpq \o after
    <2>1. p = Data!NonEmpty(Data!Block(s[i].offset, addr - s[i].offset))
      BY <1>p
    <2> QED
      BY <1>q, <2>1 DEF Parted
  <1>10. \A j \in DOMAIN before : Past(before[j]) \in Nat /\ Past(before[j]) + 1 <= o
    <2>1. TAKE j \in DOMAIN before
    <2>2. PICK k \in DOMAIN s : k <= i - 1 /\ before[j] = s[k]
      BY <1>5
    <2>3. k \in 1 .. Len(s) /\ k < i
      BY <1>1, <2>2
    <2> QED
      BY <1>2, <1>4, <2>2, <2>3
  <1>11. \A j \in DOMAIN after : after[j].offset \in Nat /\ e + 1 <= after[j].offset
    <2>1. TAKE j \in DOMAIN after
    <2>2. PICK k \in DOMAIN s : i + 1 <= k /\ after[j] = s[k]
      BY <1>6
    <2>3. k \in 1 .. Len(s) /\ i < k
      BY <1>1, <2>2
    <2> QED
      BY <1>2, <1>4, <2>2, <2>3
  <1>12. \A c \in Int :
            Holds(s, c) <=> Holds(before, c) \/ Holds(after, c) \/ (o <= c /\ c < e)
    <2>1. \A k \in DOMAIN s : (1 <= k /\ k <= i - 1) \/ k = i \/ (i + 1 <= k /\ k <= Len(s))
      BY <1>1
    <2> QED
      BY <1>1, <1>3, <1>5, <1>6, <2>1 DEF Holds
  <1>13. \A c \in Int :
            (Holds(before, c) => c < o) /\ (Holds(after, c) => c >= e)
    <2>1. ASSUME NEW c \in Int, NEW k \in DOMAIN s, k <= i - 1, c \in Data!Cells(s[k])
          PROVE  c < o
      <3>1. k \in 1 .. Len(s) /\ k < i
        BY <1>1, <2>1
      <3>2. c < Past(s[k]) /\ Past(s[k]) + 1 <= o /\ Past(s[k]) \in Nat
        BY <1>2, <1>4, <2>1, <3>1
      <3> QED
        BY <1>3, <3>2
    <2>2. ASSUME NEW c \in Int, NEW k \in DOMAIN s, i + 1 <= k, c \in Data!Cells(s[k])
          PROVE  c >= e
      <3>1. k \in 1 .. Len(s) /\ i < k
        BY <1>1, <2>2
      <3>2. s[k].offset <= c /\ e + 1 <= s[k].offset /\ s[k].offset \in Nat
        BY <1>2, <1>4, <2>2, <3>1
      <3> QED
        BY <1>3, <3>2
    <2> QED
      BY <1>5, <1>6, <2>1, <2>2
  <1> HIDE DEF before, after, o, e
  <1>7. /\ p \in Seq(Ranges) /\ Spaced(p, 1)
        /\ \A j \in DOMAIN p : p[j].offset = o /\ Past(p[j]) = addr
        /\ \A c \in Int : Holds(p, c) <=> o <= c /\ c < addr
    <2> DEFINE m == addr - o
    <2>1. m \in Nat /\ o + m = addr /\ p = Data!NonEmpty(Data!Block(o, m))
      BY <1>p, <1>3
    <2> HIDE DEF m
    <2>2. /\ p \in Seq(Ranges) /\ \A gap : Spaced(p, gap)
          /\ \A j \in DOMAIN p : p[j].offset = o /\ Past(p[j]) = o + m
          /\ \A c \in Int : Holds(p, c) <=> o <= c /\ c < o + m
      BY <1>3, <2>1, MaybeEmpty
    <2> QED
      BY <2>1, <2>2
  <1>8. /\ q \in Seq(Ranges) /\ Spaced(q, 1)
        /\ \A j \in DOMAIN q : q[j].offset = end /\ Past(q[j]) = e
        /\ \A c \in Int : Holds(q, c) <=> end <= c /\ c < e
    <2> DEFINE m == s[i].offset + s[i].size - end
    <2>1. q = Data!NonEmpty(Data!Block(end, m))
      BY <1>q
    <2>2. m \in Nat /\ end + m = e
      <3>1. s[i].offset \in Nat /\ s[i].size \in Nat /\ e = s[i].offset + s[i].size
        BY <1>1, <1>2, CellsOf DEF Past, e
      <3> QED
        BY <1>3, <3>1
    <2> HIDE DEF m
    <2>3. /\ q \in Seq(Ranges) /\ \A gap : Spaced(q, gap)
          /\ \A j \in DOMAIN q : q[j].offset = end /\ Past(q[j]) = end + m
          /\ \A c \in Int : Holds(q, c) <=> end <= c /\ c < end + m
      BY <1>3, <2>2, <2>1, MaybeEmpty
    <2> QED
      BY <2>2, <2>3
  <1>14. /\ bp \in Seq(Ranges) /\ Spaced(bp, 1)
         /\ \A c : Holds(bp, c) <=> Holds(before, c) \/ Holds(p, c)
         /\ \A j \in DOMAIN bp :
                \/ \E k \in DOMAIN before : bp[j] = before[k]
                \/ \E k \in DOMAIN p : bp[j] = p[k]
    <2>1. \A j \in DOMAIN before, k \in DOMAIN p : Past(before[j]) + 1 <= p[k].offset
      BY <1>7, <1>10
    <2>2. /\ before \in Seq(Ranges) /\ Spaced(before, 1)
          /\ p \in Seq(Ranges) /\ Spaced(p, 1) /\ 1 \in Nat
      BY <1>5, <1>7
    <2> QED
      BY <2>1, <2>2, JoinedApart
  <1> HIDE DEF bp
  <1>15. \A j \in DOMAIN bp : Past(bp[j]) \in Nat /\ Past(bp[j]) + 1 <= end
    <2>1. TAKE j \in DOMAIN bp
    <2>2. CASE \E k \in DOMAIN before : bp[j] = before[k]
      BY <1>3, <1>10, <2>2
    <2>3. CASE \E k \in DOMAIN p : bp[j] = p[k]
      BY <1>3, <1>7, <2>3
    <2> QED
      BY <1>14, <2>2, <2>3
  <1>16. /\ bpq \in Seq(Ranges) /\ Spaced(bpq, 1)
         /\ \A c : Holds(bpq, c) <=> Holds(bp, c) \/ Holds(q, c)
         /\ \A j \in DOMAIN bpq :
                \/ \E k \in DOMAIN bp : bpq[j] = bp[k]
                \/ \E k \in DOMAIN q : bpq[j] = q[k]
    <2>1. \A j \in DOMAIN bp, k \in DOMAIN q : Past(bp[j]) + 1 <= q[k].offset
      BY <1>8, <1>15
    <2>2. /\ bp \in Seq(Ranges) /\ Spaced(bp, 1)
          /\ q \in Seq(Ranges) /\ Spaced(q, 1) /\ 1 \in Nat
      BY <1>8, <1>14
    <2> QED
      BY <2>1, <2>2, JoinedApart
  <1> HIDE DEF bpq
  <1>17. \A j \in DOMAIN bpq : Past(bpq[j]) \in Nat /\ Past(bpq[j]) <= e
    <2>1. TAKE j \in DOMAIN bpq
    <2>2. CASE \E k \in DOMAIN bp : bpq[j] = bp[k]
      BY <1>3, <1>15, <2>2
    <2>3. CASE \E k \in DOMAIN q : bpq[j] = q[k]
      BY <1>3, <1>8, <2>3
    <2> QED
      BY <1>16, <2>2, <2>3
  <1>18. /\ t \in Seq(Ranges) /\ Spaced(t, 1)
         /\ \A c : Holds(t, c) <=> Holds(bpq, c) \/ Holds(after, c)
    <2>1. \A j \in DOMAIN bpq, k \in DOMAIN after : Past(bpq[j]) + 1 <= after[k].offset
      <3>1. TAKE j \in DOMAIN bpq, k \in DOMAIN after
      <3>2. Past(bpq[j]) \in Nat /\ Past(bpq[j]) <= e /\ after[k].offset \in Nat
            /\ e + 1 <= after[k].offset
        BY <1>11, <1>17
      <3> QED
        BY <1>3, <3>2
    <2>2. /\ bpq \o after \in Seq(Ranges) /\ Spaced(bpq \o after, 1)
          /\ \A c : Holds(bpq \o after, c) <=> Holds(bpq, c) \/ Holds(after, c)
      BY <1>6, <1>16, <2>1, JoinedApart
    <2> QED
      BY <1>t, <2>2
  <1>19. ASSUME NEW c \in Int
         PROVE  Holds(t, c) <=> Holds(s, c) /\ ~ (addr <= c /\ c < end)
    <2>1. Holds(t, c) <=> \/ Holds(before, c) \/ Holds(after, c)
                          \/ (o <= c /\ c < addr) \/ (end <= c /\ c < e)
      BY <1>7, <1>8, <1>14, <1>16, <1>18
    <2>2. Holds(s, c) <=> Holds(before, c) \/ Holds(after, c) \/ (o <= c /\ c < e)
      BY <1>12
    <2>3. (Holds(before, c) => c < o) /\ (Holds(after, c) => c >= e)
      BY <1>13
    <2> QED
      BY <1>3, <2>1, <2>2, <2>3
  <1> QED
    BY <1>18, <1>19

(* The block that alloc chooses holds what it hands out. *)
LEMMA Chosen ==
    ASSUME FreeListed, NEW sz \in DataSizes, NEW i \in DOMAIN dataFree,
           Data!Fits(dataFree[i], sz),
           NEW addr, addr = Data!AlignUp(dataFree[i].offset)
    PROVE  /\ addr \in Nat /\ addr % DataAlignment = 0 /\ addr + sz \in Nat
           /\ dataFree[i].offset <= addr /\ addr < addr + sz
           /\ addr + sz <= Past(dataFree[i])
           /\ \A c \in Int : addr <= c /\ c < addr + sz => c \in Data!Cells(dataFree[i])
  <1>1. dataFree[i] \in Ranges
    BY ElementOfSeq, LenProperties DEF FreeListed
  <1>2. sz \in Nat /\ sz > 0
    BY ArenaAssumption
  <1>3. /\ dataFree[i].offset \in Nat /\ dataFree[i].size \in Nat
        /\ \A c \in Int : c \in Data!Cells(dataFree[i])
               <=> dataFree[i].offset <= c /\ c < Past(dataFree[i])
    BY <1>1, CellsOf
  <1>4. addr \in Nat /\ addr >= dataFree[i].offset /\ addr % DataAlignment = 0
    BY <1>3, AlignedUp
  <1>5. (addr - dataFree[i].offset) + sz <= dataFree[i].size
    BY DEF Data!Fits, Data!Padding
  <1>6. Past(dataFree[i]) = dataFree[i].offset + dataFree[i].size
    BY DEF Past
  <1> QED
    BY <1>2, <1>3, <1>4, <1>5, <1>6

(* alloc(): what is handed out leaves the list. *)
LEMMA AllocKeeps ==
    ASSUME ArenaInv, NEW sz \in DataSizes, Data!Alloc(sz)
    PROVE  ArenaInv'
  <1> DEFINE Addr(i) == Data!AlignUp(dataFree[i].offset)
  <1>1. PICK i \in Data!BestFit(sz) :
            /\ dataFree' = Parted(dataFree, i, Addr(i), Addr(i) + sz)
            /\ dataAllocated' = dataAllocated \cup {Data!Block(Addr(i), sz)}
    BY DEF Data!Alloc, Parted
  <1> DEFINE addr == Addr(i)
             b == Data!Block(addr, sz)
             t == dataFree'
  <1>2. i \in DOMAIN dataFree /\ Data!Fits(dataFree[i], sz)
    BY DEF Data!BestFit
  <1>3. /\ dataFree \in Seq(Ranges) /\ Spaced(dataFree, 1)
        /\ \A c \in Nat : Holds(dataFree, c) => c \in Data!Arena
    BY DEF ArenaInv, FreeListed
  <1>4. /\ addr \in Nat /\ addr % DataAlignment = 0 /\ addr + sz \in Nat
        /\ dataFree[i].offset <= addr /\ addr < addr + sz
        /\ addr + sz <= Past(dataFree[i])
        /\ \A c \in Int : addr <= c /\ c < addr + sz => c \in Data!Cells(dataFree[i])
    BY <1>2, Chosen DEF ArenaInv
  <1>5. sz \in Nat /\ sz # 0
    BY ArenaAssumption
  <1>6. /\ b \in Ranges /\ b.offset = addr
        /\ \A c \in Int : c \in Data!Cells(b) <=> addr <= c /\ c < addr + sz
    <2>1. b \in Ranges /\ b.offset = addr /\ Past(b) = addr + sz
      BY <1>4, <1>5, BlockOf
    <2> QED
      BY <2>1, CellsOf
  <1>7. dataFree' = t /\ dataAllocated' = dataAllocated \cup {b}
    BY <1>1
  <1>8. /\ t \in Seq(Ranges) /\ Spaced(t, 1)
        /\ \A c \in Int : Holds(t, c) <=> Holds(dataFree, c) /\ ~ (addr <= c /\ c < addr + sz)
    <2>1. t = Parted(dataFree, i, addr, addr + sz)
      BY <1>1
    <2> HIDE DEF addr, t
    <2> QED
      BY <1>2, <1>3, <1>4, <2>1, Split
  <1> HIDE DEF b, addr, t
  <1>9. Data!Arena \subseteq Nat /\ Nat \subseteq Int /\ Data!Arena \subseteq Int
        /\ Data!Cells(b) \subseteq Int
    BY <1>6, CellsOf, ArenaAssumption DEF Data!Arena
  <1>10. \A c \in Int : Holds(t, c) <=> Holds(dataFree, c) /\ c \notin Data!Cells(b)
    BY <1>6, <1>8
  <1>11. \A c \in Data!Cells(b) : Holds(dataFree, c) /\ c \in Nat
    BY <1>2, <1>4, <1>6, <1>9, CellsOf DEF Holds
  <1>12. \A c : Holds(dataFree, c)' <=> Holds(t, c)
    BY <1>7 DEF Holds
  <1>13. FreeListed'
    <2>1. Spaced(dataFree, 1)'
      BY <1>7, <1>8 DEF Spaced
    <2>2. \A c \in Nat : Holds(t, c) => c \in Data!Arena
      BY <1>3, <1>9, <1>10
    <2> QED
      BY <1>7, <1>8, <1>12, <2>1, <2>2 DEF FreeListed
  <1>14. /\ dataAllocated \subseteq Ranges
         /\ \A a \in dataAllocated :
                /\ a.offset % DataAlignment = 0 /\ Data!Cells(a) \subseteq Data!Arena
                /\ \A c \in Data!Cells(a) : ~ Holds(dataFree, c)
         /\ \A a, d \in dataAllocated : a # d => Data!Cells(a) \cap Data!Cells(d) = {}
    BY DEF ArenaInv, Allotted
  <1>15. Allotted'
    <2>1. \A a \in dataAllocated : /\ Data!Cells(a) \cap Data!Cells(b) = {}
                                   /\ \A c \in Data!Cells(a) : ~ Holds(t, c)
      BY <1>9, <1>10, <1>11, <1>14
    <2>2. /\ b.offset % DataAlignment = 0 /\ Data!Cells(b) \subseteq Data!Arena
          /\ \A c \in Data!Cells(b) : ~ Holds(t, c)
      BY <1>3, <1>4, <1>6, <1>9, <1>10, <1>11
    <2> QED
      BY <1>6, <1>7, <1>12, <1>14, <2>1, <2>2 DEF Allotted
  <1>16. NothingLost'
    BY <1>7, <1>9, <1>10, <1>12 DEF ArenaInv, NothingLost
  <1> QED
    BY <1>13, <1>15, <1>16 DEF ArenaInv

(* Every call keeps it. *)
LEMMA ArenaInductive == ArenaInv /\ [Data!Next]_dataVars => ArenaInv'
  <1> SUFFICES ASSUME ArenaInv, [Data!Next]_dataVars PROVE ArenaInv'
    OBVIOUS
  <1>1. CASE \E sz \in DataSizes : Data!Alloc(sz)
    BY <1>1, AllocKeeps
  <1>2. CASE \E b \in dataAllocated : Data!Free(b)
    BY <1>2, FreeKeeps
  <1>3. CASE Data!Reset
    BY <1>3, ResetKeeps
  <1>4. CASE UNCHANGED dataVars
    BY <1>4 DEF ArenaInv, FreeListed, Allotted, NothingLost, dataVars, Spaced, Holds
  <1> QED
    BY <1>1, <1>2, <1>3, <1>4 DEF Data!Next

--------------------------------------------------------------------------------
(***************************************************************************)
(* What the invariant says of the arena.                                   *)
(***************************************************************************)
LEMMA ArenaTyped == ASSUME ArenaInv PROVE Data!AllocatorTypeOK
  <1>1. \A b \in dataAllocated :
            b.offset % DataAlignment = 0 /\ b.size > 0 /\ Data!Cells(b) \subseteq Data!Arena
    BY CellsOf DEF ArenaInv, Allotted
  <1>2. \A i \in DOMAIN dataFree :
            dataFree[i].size > 0 /\ Data!Cells(dataFree[i]) \subseteq Data!Arena
    <2>1. TAKE i \in DOMAIN dataFree
    <2>2. dataFree[i] \in Ranges
      BY ElementOfSeq, LenProperties DEF ArenaInv, FreeListed
    <2>3. \A c \in Data!Cells(dataFree[i]) : c \in Nat /\ Holds(dataFree, c)
      BY <2>2, CellsOf DEF Holds
    <2> QED
      BY <2>2, <2>3, CellsOf DEF ArenaInv, FreeListed
  <1> QED
    BY <1>1, <1>2 DEF Data!AllocatorTypeOK, Data!ToSet

(* Two free blocks never hold the same unit. *)
LEMMA OneFreeBlock ==
    ASSUME FreeListed, NEW c, NEW i \in DOMAIN dataFree, NEW j \in DOMAIN dataFree,
           c \in Data!Cells(dataFree[i]), c \in Data!Cells(dataFree[j])
    PROVE  i = j
  <1>1. i \in Nat /\ j \in Nat /\ dataFree[i] \in Ranges /\ dataFree[j] \in Ranges
    BY ElementOfSeq, LenProperties DEF FreeListed
  <1>2. c \in Int
    BY <1>1, CellsOf
  <1>3. /\ dataFree[i].offset \in Nat /\ Past(dataFree[i]) \in Nat
        /\ dataFree[j].offset \in Nat /\ Past(dataFree[j]) \in Nat
        /\ dataFree[i].offset <= c /\ c < Past(dataFree[i])
        /\ dataFree[j].offset <= c /\ c < Past(dataFree[j])
    BY <1>1, <1>2, CellsOf
  <1>4. /\ i < j => Past(dataFree[i]) + 1 <= dataFree[j].offset
        /\ j < i => Past(dataFree[j]) + 1 <= dataFree[i].offset
    BY DEF FreeListed, Spaced
  <1> QED
    BY <1>1, <1>2, <1>3, <1>4

(* Every unit is in one allocation or in one free block. *)
LEMMA EachCellOnce == ASSUME ArenaInv PROVE Data!EveryCellOnce
  <1>0. \A S : Data!Cardinality(S) = Cardinality(S)
    BY DEF Data!Cardinality, Cardinality
  <1>1. SUFFICES ASSUME NEW c \in Data!Arena
                 PROVE  Cardinality({b \in dataAllocated : c \in Data!Cells(b)})
                          + Cardinality({i \in DOMAIN dataFree : c \in Data!Cells(dataFree[i])}) = 1
    BY <1>0 DEF Data!EveryCellOnce
  <1> DEFINE A == {b \in dataAllocated : c \in Data!Cells(b)}
             F == {i \in DOMAIN dataFree : c \in Data!Cells(dataFree[i])}
  <1>2. CASE Holds(dataFree, c)
    <2>1. PICK i \in DOMAIN dataFree : c \in Data!Cells(dataFree[i])
      BY <1>2 DEF Holds
    <2>2. F = {i}
      BY <2>1, OneFreeBlock DEF ArenaInv
    <2>3. A = {}
      BY <1>2 DEF ArenaInv, Allotted
    <2> HIDE DEF A, F
    <2>4. Cardinality(A) = 0 /\ Cardinality(F) = 1
      BY <2>2, <2>3, FS_Singleton, FS_EmptySet
    <2> QED
      BY <2>4 DEF A, F
  <1>3. CASE ~ Holds(dataFree, c)
    <2>1. F = {}
      BY <1>3 DEF Holds
    <2>2. PICK b \in dataAllocated : c \in Data!Cells(b)
      BY <1>3 DEF ArenaInv, NothingLost
    <2>3. A = {b}
      BY <2>2 DEF ArenaInv, Allotted
    <2> HIDE DEF A, F
    <2>4. Cardinality(A) = 1 /\ Cardinality(F) = 0
      BY <2>1, <2>3, FS_Singleton, FS_EmptySet
    <2> QED
      BY <2>4 DEF A, F
  <1> QED
    BY <1>2, <1>3

(* If a block fits, one of those that waste least is the first. *)
LEMMA BestOfFitting ==
    ASSUME FreeListed, NEW sz \in DataSizes,
           NEW i \in DOMAIN dataFree, Data!Fits(dataFree[i], sz)
    PROVE  Data!BestFit(sz) # {}
  <1> DEFINE fitting == {k \in DOMAIN dataFree : Data!Fits(dataFree[k], sz)}
             W(k) == Data!Waste(dataFree[k], sz)
             wastes == {W(k) : k \in fitting}
  <1>1. \A k \in fitting : k \in Nat /\ W(k) \in Nat
    <2>1. TAKE k \in fitting
    <2>2. k \in Nat /\ dataFree[k] \in Ranges
      BY ElementOfSeq, LenProperties DEF FreeListed
    <2>3. dataFree[k].offset \in Nat /\ dataFree[k].size \in Nat
      BY <2>2, CellsOf
    <2>4. Data!AlignUp(dataFree[k].offset) \in Nat
      BY <2>3, AlignedUp
    <2>5. sz \in Nat
      BY ArenaAssumption
    <2> QED
      BY <2>2, <2>3, <2>4, <2>5 DEF Data!Fits, Data!Waste, Data!Padding
  <1> HIDE DEF W
  <1>2. PICK w \in wastes : \A v \in wastes : w <= v
    <2>1. wastes \subseteq Nat /\ wastes # {}
      BY <1>1
    <2> HIDE DEF wastes
    <2> QED
      BY <2>1, LeastOf
  <1> DEFINE T == {k \in fitting : W(k) = w}
  <1>3. PICK k \in T : \A l \in T : k <= l
    <2>1. T \subseteq Nat /\ T # {}
      BY <1>1, <1>2
    <2> HIDE DEF T
    <2> QED
      BY <2>1, LeastOf
  <1>4. k \in fitting /\ W(k) = w
    OBVIOUS
  <1>5. \A j \in fitting : W(k) < W(j) \/ (W(k) = W(j) /\ k <= j)
    <2>1. TAKE j \in fitting
    <2>2. W(j) \in wastes /\ w <= W(j)
      BY <1>2
    <2>3. CASE W(j) = w
      <3>1. j \in T
        BY <2>3
      <3> QED
        BY <1>3, <1>4, <2>3, <3>1
    <2>4. CASE W(j) # w
      <3>1. W(j) \in Nat /\ W(k) \in Nat /\ W(k) = w
        BY <1>1, <1>4
      <3> QED
        BY <2>2, <2>4, <3>1
    <2> QED
      BY <2>3, <2>4
  <1>6. k \in Data!BestFit(sz)
    BY <1>4, <1>5 DEF Data!BestFit, W
  <1> QED
    BY <1>6

(* A gap between the allocations lies in one free block, as these never     *)
(* touch.                                                                   *)
LEMMA GapInOneBlock ==
    ASSUME ArenaInv, NEW a \in Nat, NEW sz \in Nat \ {0}, a + sz <= DataCapacity,
           \A b \in dataAllocated : Data!Cells(b) \cap (a .. a + sz - 1) = {}
    PROVE  \E i \in DOMAIN dataFree :
               dataFree[i].offset <= a /\ a + sz <= Past(dataFree[i])
  <1>1. \A c \in a .. a + sz - 1 : c \in Data!Arena
    BY ArenaAssumption DEF Data!Arena
  <1>2. \A c \in a .. a + sz - 1 : \E i \in DOMAIN dataFree : c \in Data!Cells(dataFree[i])
    BY <1>1 DEF ArenaInv, NothingLost, Holds
  <1>3. a \in a .. a + sz - 1
    OBVIOUS
  <1>4. PICK i \in DOMAIN dataFree : a \in Data!Cells(dataFree[i])
    BY <1>2, <1>3
  <1>5. \A j \in DOMAIN dataFree :
            /\ j \in Nat /\ dataFree[j].offset \in Nat /\ Past(dataFree[j]) \in Nat
            /\ \A c \in Int : c \in Data!Cells(dataFree[j])
                   <=> dataFree[j].offset <= c /\ c < Past(dataFree[j])
    <2>1. \A j \in DOMAIN dataFree : j \in Nat /\ dataFree[j] \in Ranges
      BY ElementOfSeq, LenProperties DEF ArenaInv, FreeListed
    <2> QED
      BY <2>1, CellsOf
  <1>6. dataFree[i].offset <= a /\ a < Past(dataFree[i])
    BY <1>4, <1>5
  <1>7. ASSUME Past(dataFree[i]) < a + sz PROVE FALSE
    <2> DEFINE e == Past(dataFree[i])
    <2>1. e \in a .. a + sz - 1 /\ e \in Int
      BY <1>5, <1>6, <1>7
    <2>2. PICK j \in DOMAIN dataFree : e \in Data!Cells(dataFree[j])
      BY <1>2, <2>1
    <2>3. dataFree[j].offset <= e /\ e < Past(dataFree[j])
      BY <1>5, <2>1, <2>2
    <2>4. j # i
      BY <1>5, <2>3
    <2>5. /\ i < j => Past(dataFree[i]) + 1 <= dataFree[j].offset
          /\ j < i => Past(dataFree[j]) + 1 <= dataFree[i].offset
      BY DEF ArenaInv, FreeListed, Spaced
    <2> QED
      BY <1>5, <1>6, <2>3, <2>4, <2>5
  <1> QED
    BY <1>5, <1>6, <1>7

(* alloc() fails only when no aligned gap is long enough. *)
LEMMA Exhausted == ASSUME ArenaInv PROVE Data!ExhaustionIsReal
  <1>1. SUFFICES ASSUME NEW sz \in DataSizes
                 PROVE  Data!BestFit(sz) = {} <=>
                          ~ \E a \in Data!Arena :
                              /\ a % DataAlignment = 0 /\ a + sz <= DataCapacity
                              /\ \A b \in dataAllocated :
                                     Data!Cells(b) \cap (a .. a + sz - 1) = {}
    BY DEF Data!ExhaustionIsReal
  <1>2. sz \in Nat \ {0} /\ DataCapacity \in Nat
    BY ArenaAssumption
  <1>3. \A i \in DOMAIN dataFree :
            /\ dataFree[i] \in Ranges /\ dataFree[i].offset \in Nat
            /\ dataFree[i].size \in Nat
            /\ \A c \in Data!Cells(dataFree[i]) : c \in Data!Arena /\ Holds(dataFree, c)
    <2>1. \A i \in DOMAIN dataFree : dataFree[i] \in Ranges
      BY ElementOfSeq, LenProperties DEF ArenaInv, FreeListed
    <2>2. \A i \in DOMAIN dataFree : \A c \in Data!Cells(dataFree[i]) :
              c \in Nat /\ Holds(dataFree, c)
      BY <2>1, CellsOf DEF Holds
    <2> QED
      BY <2>1, <2>2, CellsOf DEF ArenaInv, FreeListed
  <1>4. ASSUME Data!BestFit(sz) # {}
        PROVE  \E a \in Data!Arena :
                   /\ a % DataAlignment = 0 /\ a + sz <= DataCapacity
                   /\ \A b \in dataAllocated : Data!Cells(b) \cap (a .. a + sz - 1) = {}
    <2>1. PICK i \in DOMAIN dataFree : Data!Fits(dataFree[i], sz)
      BY <1>4 DEF Data!BestFit
    <2> DEFINE a == Data!AlignUp(dataFree[i].offset)
    <2>2. /\ a \in Nat /\ a % DataAlignment = 0 /\ a + sz \in Nat
          /\ \A c \in Int : a <= c /\ c < a + sz => c \in Data!Cells(dataFree[i])
      BY <2>1, Chosen DEF ArenaInv
    <2> HIDE DEF a
    <2>3. \A c \in a .. a + sz - 1 : c \in Data!Arena /\ Holds(dataFree, c)
      BY <1>2, <1>3, <2>2
    <2>4. a \in a .. a + sz - 1 /\ a + sz - 1 \in a .. a + sz - 1
      BY <1>2, <2>2
    <2>5. a \in Data!Arena /\ a + sz - 1 \in Data!Arena
      BY <2>3, <2>4
    <2>6. a + sz <= DataCapacity
      BY <1>2, <2>2, <2>5 DEF Data!Arena
    <2>7. \A b \in dataAllocated : Data!Cells(b) \cap (a .. a + sz - 1) = {}
      BY <2>3 DEF ArenaInv, Allotted
    <2> QED
      BY <2>2, <2>5, <2>6, <2>7
  <1>5. ASSUME NEW a \in Data!Arena, a % DataAlignment = 0, a + sz <= DataCapacity,
               \A b \in dataAllocated : Data!Cells(b) \cap (a .. a + sz - 1) = {}
        PROVE  Data!BestFit(sz) # {}
    <2>1. a \in Nat
      BY <1>2 DEF Data!Arena
    <2>2. PICK i \in DOMAIN dataFree :
              dataFree[i].offset <= a /\ a + sz <= Past(dataFree[i])
      BY <1>2, <1>5, <2>1, GapInOneBlock
    <2>3. Data!AlignUp(dataFree[i].offset) \in Nat /\ Data!AlignUp(dataFree[i].offset) <= a
      BY <1>3, <1>5, <2>1, <2>2, AlignedUp
    <2>4. Past(dataFree[i]) = dataFree[i].offset + dataFree[i].size
      BY DEF Past
    <2>5. Data!Fits(dataFree[i], sz)
      BY <1>2, <1>3, <2>1, <2>2, <2>3, <2>4 DEF Data!Fits, Data!Padding
    <2> QED
      BY <2>5, BestOfFitting DEF ArenaInv
  <1> QED
    BY <1>4, <1>5

--------------------------------------------------------------------------------
(* The invariant of the arena holds in every state of the device. *)
THEOREM ArenaInvariance == MemorySpec => []ArenaInv
  <1>1. MemoryInit => ArenaInv
    BY ArenaStarts DEF MemoryInit
  <1>2. [MemoryNext]_<<vars, dataVars, ringVars>> => [Data!Next]_dataVars
    BY DEF MemoryNext
  <1>3. ArenaInv /\ [MemoryNext]_<<vars, dataVars, ringVars>> => ArenaInv'
    BY <1>2, ArenaInductive
  <1> QED
    BY <1>1, <1>3, PTL DEF MemorySpec

(* For every capacity, alignment and set of sizes, after any history of     *)
(* alloc, free and reset the allocations are aligned and in the arena, each *)
(* unit of it is in one allocation or one free block, and alloc() throws    *)
(* bad_alloc only if no aligned gap is long enough (alloc.cpp).             *)
THEOREM ArenaIsExact == MemorySpec => []ArenaExact
  <1>1. ArenaInv => ArenaExact
    BY ArenaTyped, EachCellOnce, Exhausted DEF ArenaExact
  <1> QED
    BY <1>1, ArenaInvariance, PTL
================================================================================
