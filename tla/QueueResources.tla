---------------------------- MODULE QueueResources ----------------------------
(***************************************************************************)
(* The fixed geometry every GPU device hands out to its queues: at most    *)
(* MaxLiveGpuQueues queues, each with one aligned partition of C metadata  *)
(* slots taken one by one from a LIFO allocator, and the quarantine of     *)
(* partitions whose queue could not prove its stream drained               *)
(* (src/src/shared/queue_resources.hpp, FixedSizeAllocator of alloc.cpp,   *)
(* src/src/cuda/device.cpp, the queue slots of src/src/device_ops.cpp).    *)
(*                                                                         *)
(* A step is one section of queue_registry_mutex_, bookkeeping_mutex_ or   *)
(* retained_mutex_.  Threads create and destroy queues at any time; one    *)
(* thread at a time reclaims.                                              *)
(***************************************************************************)
EXTENDS Integers, SequencesExt

CONSTANTS
    Queues,             \* queue objects that may be created
    MaxLiveGpuQueues,   \* kMaxLiveGpuQueues, and the literal 4 of Device
    C                   \* queue_slot_count_

ASSUME QueueResourcesAssumption ==
    /\ MaxLiveGpuQueues \in Nat \ {0}
    /\ C \in Nat \ {0}
    /\ "none" \notin Queues

VARIABLES
    freeIndices,    \* FixedSizeAllocator::free_indices_, a stack
    liveQueues,     \* Device::live_queue_count_
    slots,          \* the queues that count, queue_slot_reserved_
    stage,          \* queue -> its life
    base,           \* queue -> first_slot_ of its lease
    retained,       \* the queues in retained_leases_
    pending,        \* the array reclaim_retained_leases has moved out
    next,           \* its loop index, 0 when nobody reclaims
    proved,         \* the queues it has proved drained
    device          \* the device's own life

slotVars == <<liveQueues, slots>>
reclaimVars == <<pending, next, proved>>
vars == <<freeIndices, slotVars, stage, base, retained, reclaimVars, device>>

Blocks == 0 .. MaxLiveGpuQueues * C - 1
NoBase == -1

Init ==
    /\ freeIndices = [i \in 1 .. MaxLiveGpuQueues * C |-> MaxLiveGpuQueues * C - i]
    /\ liveQueues = 0 /\ slots = {}
    /\ stage = [q \in Queues |-> "none"]
    /\ base = [q \in Queues |-> NoBase]
    /\ retained = <<>> /\ pending = <<>> /\ next = 0 /\ proved = {}
    /\ device = "alive"

Partition(b) == b .. b + C - 1
Ascending(b) == [i \in 1 .. C |-> b + i - 1]

(* Seeded fault: the first slot goes under the stack, the rest on top. *)
ReleaseApart(stack, b) == <<b>> \o stack \o Tail(Ascending(b))

(* release_queue_resources_locked *)
Release(stack, b) == stack \o Ascending(b)

Stage(q, s) == stage' = [stage EXCEPT ![q] = s]

--------------------------------------------------------------------------------
(* Construction. *)

(* Device::reserve_queue_slot; a full device is bad_alloc and no queue. *)
ReserveSlot(q) ==
    /\ device = "alive" /\ stage[q] = "none"
    /\ liveQueues # MaxLiveGpuQueues
    /\ liveQueues' = liveQueues + 1
    /\ slots' = slots \cup {q}
    /\ Stage(q, "slot")
    /\ UNCHANGED <<freeIndices, base, retained, reclaimVars, device>>

(* The C blocks on top of the stack, in the order alloc() takes them. *)
Top == [i \in 1 .. C |-> freeIndices[Len(freeIndices) + 1 - i]]
Below == SubSeq(freeIndices, 1, Len(freeIndices) - C)

(* Contiguous and aligned to C; anything else is the logic_error. *)
Geometry(taken) == \E b \in taken : b % C = 0 /\ taken = Partition(b)

(* std::sort; no slot is there twice. *)
Sorted(taken) ==
    CHOOSE s \in [DOMAIN taken -> ToSet(taken)] :
        \A i, j \in DOMAIN taken : i < j => s[i] < s[j]

Reserve(q) ==
    /\ stage[q] = "slot" /\ Len(freeIndices) >= C
    /\ Geometry(ToSet(Top))
    /\ base' = [base EXCEPT ![q] = Min(ToSet(Top))]
    /\ freeIndices' = Below
    /\ Stage(q, "live")
    /\ UNCHANGED <<slotVars, retained, reclaimVars, device>>

(* Seeded fault: the last block is not given back. *)
ReserveFailsShort(q) ==
    /\ stage[q] = "slot" /\ Len(freeIndices) >= C
    /\ freeIndices' = Below \o Front(Sorted(Top))
    /\ Stage(q, "unwinding")
    /\ UNCHANGED <<slotVars, base, retained, reclaimVars, device>>

(* Mirrors or status cells cannot be allocated, or the geometry is lost:    *)
(* the blocks go back in order.                                             *)
ReserveFails(q) ==
    /\ stage[q] = "slot" /\ Len(freeIndices) >= C
    /\ freeIndices' = Below \o Sorted(Top)
    /\ Stage(q, "unwinding")
    /\ UNCHANGED <<slotVars, base, retained, reclaimVars, device>>

(* The allocator runs dry; the blocks taken so far go back as they came. *)
ReserveExhausted(q) ==
    /\ stage[q] = "slot" /\ Len(freeIndices) < C
    /\ freeIndices' = Reverse(freeIndices)
    /\ Stage(q, "unwinding")
    /\ UNCHANGED <<slotVars, base, retained, reclaimVars, device>>

--------------------------------------------------------------------------------
(* Destruction. *)

(* The lease is destroyed: by a constructor that fails after it has one, or *)
(* by a destructor that has drained its stream.                             *)
DestroyDrained(q) ==
    /\ stage[q] = "live"
    /\ freeIndices' = Release(freeIndices, base[q])
    /\ base' = [base EXCEPT ![q] = NoBase]
    /\ Stage(q, "unwinding")
    /\ UNCHANGED <<slotVars, retained, reclaimVars, device>>

(* retain_unknown_lease; with a full quarantine it would throw out of the   *)
(* destructor.                                                              *)
Retain(q) ==
    /\ stage[q] = "live" /\ Len(retained) < MaxLiveGpuQueues
    /\ retained' = Append(retained, q)
    /\ Stage(q, "retained")
    /\ UNCHANGED <<freeIndices, slotVars, base, reclaimVars, device>>

(* The end of ~DeviceOps, also of a constructor that failed. *)
ReleaseSlot(q) ==
    /\ q \in slots /\ stage[q] \in {"unwinding", "retained"}
    /\ liveQueues' = IF liveQueues # 0 THEN liveQueues - 1 ELSE 0
    /\ slots' = slots \ {q}
    /\ Stage(q, IF stage[q] = "unwinding" THEN "none" ELSE "retained")
    /\ UNCHANGED <<freeIndices, base, retained, reclaimVars, device>>

--------------------------------------------------------------------------------
(* Seeded fault: the leases are copied and retained_count_ is not reset. *)
BeginReclaimCopies ==
    /\ device \in {"alive", "reclaiming"} /\ next = 0 /\ retained # <<>>
    /\ pending' = retained /\ next' = 1
    /\ device' = IF device = "alive" THEN "alive" ELSE "discarding"
    /\ UNCHANGED <<freeIndices, slotVars, stage, base, proved, retained>>

(* reclaim_retained_leases: by the device's destructor, or by its owner     *)
(* while queues come and go.                                                *)
BeginReclaim ==
    /\ device \in {"alive", "reclaiming"} /\ next = 0 /\ retained # <<>>
    /\ pending' = retained /\ retained' = <<>> /\ next' = 1
    /\ device' = IF device = "alive" THEN "alive" ELSE "discarding"
    /\ UNCHANGED <<freeIndices, slotVars, stage, base, proved>>

(* A proved lease is still owned by the array's discard function. *)
ReclaimOne(ok) ==
    /\ next \in DOMAIN pending
    /\ proved' = IF ok THEN proved \cup {pending[next]} ELSE proved
    /\ retained' = IF ok THEN retained ELSE Append(retained, pending[next])
    /\ next' = next + 1
    /\ UNCHANGED <<freeIndices, slotVars, stage, base, pending, device>>

(* The array's elements are destroyed, the last first. *)
DropPending ==
    /\ next > Len(pending) /\ pending # <<>>
    /\ LET q == Last(pending) IN
        IF q \in proved
        THEN /\ freeIndices' = Release(freeIndices, base[q])
             /\ base' = [base EXCEPT ![q] = NoBase]
             /\ Stage(q, IF q \in slots THEN "unwinding" ELSE "none")
        ELSE UNCHANGED <<freeIndices, base, stage>>
    /\ proved' = proved \ {Last(pending)}
    /\ pending' = Front(pending)
    /\ next' = IF Len(pending) = 1 THEN 0 ELSE next
    /\ UNCHANGED <<slotVars, retained, device>>

(* ~CudaDevice: the queues are gone, reclaiming is tried once more, *)
DestroyDevice ==
    /\ device = "alive" /\ next = 0 /\ slots = {}
    /\ device' = IF retained = <<>> THEN "discarding" ELSE "reclaiming"
    /\ UNCHANGED <<freeIndices, slotVars, stage, base, retained, reclaimVars>>

(* Seeded fault: what it leaves is forgotten. *)
DiscardNothing ==
    /\ device = "discarding" /\ next = 0 /\ retained # <<>>
    /\ retained' = Tail(retained)
    /\ UNCHANGED <<freeIndices, slotVars, stage, base, reclaimVars, device>>

(* what it leaves is discarded, the first lease first, *)
DiscardOne ==
    /\ device = "discarding" /\ next = 0 /\ retained # <<>>
    /\ LET q == Head(retained) IN
        /\ freeIndices' = Release(freeIndices, base[q])
        /\ base' = [base EXCEPT ![q] = NoBase]
        /\ Stage(q, "none")
    /\ retained' = Tail(retained)
    /\ UNCHANGED <<slotVars, reclaimVars, device>>

(* and only then the allocator and its backing go. *)
FreeBacking ==
    /\ device = "discarding" /\ next = 0 /\ retained = <<>>
    /\ device' = "destroyed"
    /\ UNCHANGED <<freeIndices, slotVars, stage, base, retained, reclaimVars>>
--------------------------------------------------------------------------------
QueueStep(q) ==
    \/ ReserveSlot(q) \/ Reserve(q) \/ ReserveFails(q) \/ ReserveExhausted(q)
    \/ DestroyDrained(q) \/ Retain(q) \/ ReleaseSlot(q)

Next ==
    \/ \E q \in Queues : QueueStep(q)
    \/ BeginReclaim \/ DropPending \/ \E ok \in BOOLEAN : ReclaimOne(ok)
    \/ DestroyDevice \/ DiscardOne \/ FreeBacking

Spec == Init /\ [][Next]_vars

--------------------------------------------------------------------------------
(* Properties. *)

(* The types of the stack, the counters, the queues and the quarantine. *)
ResourcesTypeOK ==
    /\ freeIndices \in Seq(Blocks)
    /\ liveQueues \in 0 .. MaxLiveGpuQueues /\ slots \subseteq Queues
    /\ stage \in [Queues -> {"none", "slot", "live", "unwinding", "retained"}]
    /\ base \in [Queues -> Blocks \cup {NoBase}]
    /\ retained \in Seq(Queues) /\ pending \in Seq(Queues)
    /\ next \in 0 .. MaxLiveGpuQueues + 1 /\ proved \subseteq Queues
    /\ device \in {"alive", "reclaiming", "discarding", "destroyed"}

Holders == {q \in Queues : base[q] # NoBase}

(* Every metadata slot is on the free stack once or in the partition of one *)
(* queue, live, retained or being reclaimed; queues never share a slot.     *)
SlotsPartitioned ==
    \A b \in Blocks :
        Cardinality({i \in DOMAIN freeIndices : freeIndices[i] = b})
          + Cardinality({q \in Holders : b \in Partition(base[q])}) = 1

(* In whatever order partitions were returned, the C blocks the next queue  *)
(* takes one by one are an aligned partition: "lost the device's C-slot     *)
(* geometry" is never thrown.                                               *)
GeometryKept ==
    /\ Len(freeIndices) % C = 0
    /\ freeIndices # <<>> => Geometry(ToSet(Top))

(* A queue that cannot prove its drain always finds room in the quarantine, *)
(* also while a reclaim has emptied it and will put leases back: neither    *)
(* the throw in a destructor nor the unchecked index is out of bounds.      *)
QuarantineFits ==
    LET putBack == {i \in DOMAIN pending : i >= next}
    IN  Len(retained) + Cardinality(putBack)
          + Cardinality({q \in Queues : stage[q] = "live"}) <= MaxLiveGpuQueues

(* When the device frees its allocator and its backing no lease is left     *)
(* that would return its slots later.                                       *)
NoLeaseOutlivesDevice ==
    device = "destroyed" => Holders = {} /\ liveQueues = 0 /\ pending = <<>>
================================================================================
