----------------------------- MODULE OwnerRegistry -----------------------------
(***************************************************************************)
(* Who may touch which storage: the outstanding-work registry, the leases  *)
(* of workspace ranges and the storage of tensors and workspaces, shared   *)
(* by all queues of one device                                             *)
(* (src/include/iom/detail/outstanding_work_registry_core.hpp and          *)
(* workspace_registry.hpp, the submit_* functions of iom.hpp, the tensor   *)
(* and workspace destructors).                                             *)
(*                                                                         *)
(* A step is one section of the registry's or of the allocation mutex.     *)
(* When an operation is dispatched and in which order it finishes is       *)
(* DeviceOps' business; here any order a set of queues can produce is      *)
(* possible.  "native" is what the backend really does with the storage.   *)
(***************************************************************************)
EXTENDS Integers, FiniteSets

CONSTANTS
    Ops,            \* submissions
    Tensors,        \* tensor owners, each with storage of its own
    Queues,
    OwnersOf,       \* op -> the tensors it reads or writes, without duplicates
    RangeOf,        \* op -> the workspace cells it leases, {} for none
    QueueOf,        \* op -> its queue
    Copies,         \* ops whose rollback tolerates missing entries
    HoldsRange      \* ops whose range stays leased until wait(): GPU SDPA

ASSUME OwnerRegistryAssumption ==
    /\ OwnersOf \in [Ops -> SUBSET Tensors]
    /\ \A o \in Ops : OwnersOf[o] # {}     \* every operation has an output
    /\ \A o \in Ops : IsFiniteSet(RangeOf[o])
    /\ QueueOf \in [Ops -> Queues]
    /\ Copies \subseteq Ops /\ HoldsRange \subseteq Ops
    /\ \A o \in Copies : RangeOf[o] = {}

VARIABLES
    gpu,            \* a GPU device: fences report completion; the CPU's never do
    early,          \* tensors may be destroyed while work uses them
    entry,          \* op -> tensor -> EntryState, or "absent"
    rangeEntry,     \* op -> the same for the entry of its workspace lease
    leases,         \* ops whose record is in workspace_leases
    stage,          \* op -> where its submission is
    native,         \* op -> what the backend does with its storage
    result,         \* op -> what its fence reports
    proven,         \* op -> completion was proven
    held,           \* retained_leases_ of the GPU queues
    tensor,         \* tensor -> its destructor's progress
    snap,           \* tensor -> ops whose entries its destructor copied
    invalidSeen,    \* tensor -> one of those was Invalidated
    workspace,      \* the workspace owner
    queue           \* queue -> its destructor's progress

entryVars == <<entry, rangeEntry, leases, held>>
opVars == <<stage, native, result, proven>>
ownerVars == <<tensor, snap, invalidSeen, workspace>>
deviceVars == <<gpu, early>>
vars == <<entryVars, opVars, ownerVars, queue, deviceVars>>

Init ==
    /\ gpu \in BOOLEAN /\ early \in BOOLEAN
    /\ entry = [o \in Ops |-> [t \in Tensors |-> "absent"]]
    /\ rangeEntry = [o \in Ops |-> "absent"]
    /\ leases = {} /\ held = {}
    /\ stage = [o \in Ops |-> "new"]
    /\ native = [o \in Ops |-> "none"]
    /\ result = [o \in Ops |-> "pending"]
    /\ proven = [o \in Ops |-> FALSE]
    /\ tensor = [t \in Tensors |-> "alive"]
    /\ snap = [t \in Tensors |-> {}]
    /\ invalidSeen = [t \in Tensors |-> FALSE]
    /\ workspace = "alive"
    /\ queue = [q \in Queues |-> "open"]

Overlaps(o) == \E l \in leases : RangeOf[l] \cap RangeOf[o] # {}

(* The entries of op o become s, or only those that are now "from". *)
Entries(o, s) == [t \in Tensors |-> IF t \in OwnersOf[o] THEN s ELSE "absent"]
Changed(o, from, to) ==
    [entry EXCEPT ![o] = [t \in Tensors |-> IF @[t] \in from THEN to ELSE @[t]]]

AllPresent(o) == \A t \in OwnersOf[o] : entry[o][t] # "absent"

(* complete_workspace_lease finds its record by range, not by op. *)
CompleteLease(o, proof) ==
    LET found == {l \in leases : RangeOf[o] # {} /\ RangeOf[l] = RangeOf[o]}
    IN  IF found = {} THEN UNCHANGED <<leases, rangeEntry>>
        ELSE IF proof
        THEN /\ leases' = leases \ found
             /\ rangeEntry' = [rangeEntry EXCEPT ![o] = "absent"]
        ELSE /\ rangeEntry' = [rangeEntry EXCEPT
                                  ![o] = IF @ = "live" THEN "invalid" ELSE @]
             /\ UNCHANGED leases

Stage(o, s) == stage' = [stage EXCEPT ![o] = s]

--------------------------------------------------------------------------------
(* The prepare step of a submission. *)

(* acquire_workspace_lease; an overlap is bad_alloc and leaves nothing. *)
Lease(o) ==
    /\ stage[o] = "new" /\ queue[QueueOf[o]] = "open"
    /\ \A t \in OwnersOf[o] : tensor[t] = "alive"
    /\ RangeOf[o] # {} => workspace = "alive"
    /\ ~Overlaps(o)
    /\ leases' = IF RangeOf[o] = {} THEN leases ELSE leases \cup {o}
    /\ rangeEntry' = IF RangeOf[o] = {} THEN rangeEntry
                     ELSE [rangeEntry EXCEPT ![o] = "live"]
    /\ Stage(o, "leased")
    /\ UNCHANGED <<entry, held, native, result, proven, ownerVars, queue>>

(* One entry per distinct owner, all or nothing. *)
Register(o, ok) ==
    /\ stage[o] = "leased"
    /\ IF ok
       THEN /\ entry' = [entry EXCEPT ![o] = Entries(o, "live")]
            /\ Stage(o, "parked")
            /\ UNCHANGED <<leases, rangeEntry>>
       ELSE /\ CompleteLease(o, TRUE)
            /\ Stage(o, "new")
            /\ UNCHANGED entry
    /\ UNCHANGED <<held, native, result, proven, ownerVars, queue>>

--------------------------------------------------------------------------------
(* Undoing a submission that never reached the backend. *)

(* remove_entries takes all ids or throws; copies remove what is present. *)
Removable(o) == o \in Copies \/ AllPresent(o)

(* A CPU dispatch that threw undoes the registrations itself ...            *)
CatchRemove(o) ==
    /\ ~gpu /\ stage[o] = "parked" /\ queue[QueueOf[o]] # "closing"
    /\ IF Removable(o)
       THEN entry' = [entry EXCEPT ![o] = Entries(o, "absent")] /\ Stage(o, "caught")
       ELSE Stage(o, "undo") /\ UNCHANGED entry
    /\ UNCHANGED <<rangeEntry, leases, held, native, result, proven, ownerVars, queue>>

CatchLease(o) ==
    /\ stage[o] = "caught"
    /\ CompleteLease(o, TRUE)
    /\ Stage(o, "undo")
    /\ UNCHANGED <<entry, held, native, result, proven, ownerVars, queue>>

(* Seeded fault: missing entries do not stop the rollback. *)
RollbackRemoveTolerant(o) ==
    /\ \/ stage[o] = "undo"
       \/ stage[o] = "parked" /\ (gpu \/ queue[QueueOf[o]] = "closing")
    /\ entry' = [entry EXCEPT ![o] = Entries(o, "absent")]
    /\ Stage(o, "undone")
    /\ UNCHANGED <<rangeEntry, leases, held, native, result, proven, ownerVars, queue>>

(* ... and the pump, or the queue's drain, rolls it back (again).  An       *)
(* exception of remove_entries skips the lease and is swallowed.            *)
RollbackRemove(o) ==
    /\ \/ stage[o] = "undo"
       \/ stage[o] = "parked" /\ (gpu \/ queue[QueueOf[o]] = "closing")
    /\ IF Removable(o)
       THEN entry' = [entry EXCEPT ![o] = Entries(o, "absent")] /\ Stage(o, "undone")
       ELSE Stage(o, "rolledback") /\ UNCHANGED entry
    /\ UNCHANGED <<rangeEntry, leases, held, native, result, proven, ownerVars, queue>>

RollbackLease(o) ==
    /\ stage[o] = "undone"
    /\ CompleteLease(o, TRUE)
    /\ Stage(o, "rolledback")
    /\ UNCHANGED <<entry, held, native, result, proven, ownerVars, queue>>

--------------------------------------------------------------------------------
(* Execution and completion. *)
Dispatch(o) ==
    /\ stage[o] = "parked"
    /\ queue[QueueOf[o]] = "open" \/ (gpu /\ queue[QueueOf[o]] = "closing")
    /\ Stage(o, "running")
    /\ native' = [native EXCEPT ![o] = "running"]
    /\ UNCHANGED <<entryVars, result, proven, ownerVars, queue>>

NativeFinish(o) ==
    /\ native[o] = "running"
    /\ native' = [native EXCEPT ![o] = "done"]
    /\ UNCHANGED <<entryVars, stage, result, proven, ownerVars, queue>>

(* The worker settles the outcome: proven means the work is really over.    *)
(* Only a device can leave it unproven.                                     *)
Settle(o, isProven, failed) ==
    /\ stage[o] = "running"
    /\ isProven => native[o] = "done"
    /\ isProven \/ (gpu /\ failed)
    /\ proven' = [proven EXCEPT ![o] = isProven]
    /\ result' = [result EXCEPT ![o] = IF failed THEN "failed" ELSE "success"]
    /\ Stage(o, "settled")
    /\ UNCHANGED <<entryVars, native, ownerVars, queue>>

(* Seeded fault: entries are released although nothing was proven. *)
FinishOwnersAlways(o) ==
    /\ stage[o] = "settled"
    /\ entry' = Changed(o, {"live"}, "absent")
    /\ Stage(o, "finishing")
    /\ UNCHANGED <<rangeEntry, leases, held, native, result, proven, ownerVars, queue>>

(* release_or_invalidate_*: the entries a destructor took are missed, the   *)
(* ones a queue's teardown invalidated stay.                                *)
FinishOwners(o) ==
    /\ stage[o] = "settled"
    /\ entry' = IF result[o] = "failed" \/ ~proven[o]
                THEN Changed(o, {"live"}, "invalid")
                ELSE Changed(o, {"live"}, "absent")
    /\ Stage(o, "finishing")
    /\ UNCHANGED <<rangeEntry, leases, held, native, result, proven, ownerVars, queue>>

(* Seeded fault: only a success counts as proof that the range is free. *)
FinishLeaseOnSuccess(o, retained) ==
    /\ stage[o] = "finishing"
    /\ CompleteLease(o, result[o] = "success")
    /\ Stage(o, "completed")
    /\ UNCHANGED <<entry, held, native, result, proven, ownerVars, queue>>

(* A success keeps the range for its waiter, unless recording that fails. *)
FinishLease(o, retained) ==
    /\ stage[o] = "finishing"
    /\ IF /\ gpu /\ o \in HoldsRange /\ RangeOf[o] # {} /\ result[o] = "success"
          /\ retained
       THEN held' = held \cup {o} /\ UNCHANGED <<leases, rangeEntry>>
       ELSE CompleteLease(o, proven[o]) /\ UNCHANGED held
    /\ Stage(o, "completed")
    /\ UNCHANGED <<entry, native, result, proven, ownerVars, queue>>

(* fence_through_sequence: wait() has seen the token succeed. *)
Observe(o) ==
    /\ stage[o] = "completed" /\ o \in held
    /\ queue[QueueOf[o]] = "open"
    /\ held' = held \ {o}
    /\ CompleteLease(o, TRUE)
    /\ UNCHANGED <<entry, opVars, ownerVars, queue>>

--------------------------------------------------------------------------------
(* Destructors of the owners. *)
Settled(o) == stage[o] \in {"new", "completed", "rolledback"}

(* release_or_quarantine copies the entries, *)
DestroyTensor(t) ==
    /\ tensor[t] = "alive"
    /\ \A o \in Ops : t \in OwnersOf[o] => stage[o] # "leased"
    /\ early \/ \A o \in Ops : t \in OwnersOf[o] => Settled(o)
    /\ snap' = [snap EXCEPT ![t] = {o \in Ops : entry[o][t] # "absent"}]
    /\ invalidSeen' = [invalidSeen EXCEPT
                          ![t] = \E o \in Ops : entry[o][t] = "invalid"]
    /\ tensor' = [tensor EXCEPT ![t] = "checking"]
    /\ UNCHANGED <<entryVars, opVars, workspace, queue>>

(* or, when it cannot copy them, keeps the storage and leaves them alone;   *)
SnapshotFails(t) ==
    /\ tensor[t] = "alive"
    /\ \A o \in Ops : t \in OwnersOf[o] => stage[o] # "leased"
    /\ early \/ \A o \in Ops : t \in OwnersOf[o] => Settled(o)
    /\ tensor' = [tensor EXCEPT ![t] = "quarantined"]
    /\ UNCHANGED <<entryVars, opVars, snap, invalidSeen, workspace, queue>>

FenceSucceeds(o) == gpu /\ result[o] = "success"

(* asks their fences, with no mutex held, *)
CheckFences(t) ==
    /\ tensor[t] = "checking"
    /\ tensor' = [tensor EXCEPT
                     ![t] = IF ~invalidSeen[t] /\ \A o \in snap[t] : FenceSucceeds(o)
                            THEN "releasing" ELSE "quarantining"]
    /\ UNCHANGED <<entryVars, opVars, snap, invalidSeen, workspace, queue>>

(* and removes them around releasing or quarantining the storage. *)
DropEntries(t) ==
    /\ tensor[t] \in {"releasing", "quarantining"}
    /\ entry' = [o \in Ops |-> IF o \in snap[t] THEN [entry[o] EXCEPT ![t] = "absent"]
                               ELSE entry[o]]
    /\ tensor' = [tensor EXCEPT
                     ![t] = IF @ = "releasing" THEN "released" ELSE "quarantined"]
    /\ UNCHANGED <<rangeEntry, leases, held, opVars, snap, invalidSeen, workspace, queue>>

(* release_workspace of a GPU device keeps a leased range from the arena; a *)
(* CPU caller must keep the workspace while it is leased.                   *)
DestroyWorkspace ==
    /\ workspace = "alive"
    /\ \A o \in Ops : stage[o] # "leased"
    /\ gpu \/ leases = {}
    /\ workspace' = IF leases # {} THEN "quarantined" ELSE "released"
    /\ UNCHANGED <<entryVars, opVars, tensor, snap, invalidSeen, queue>>

--------------------------------------------------------------------------------
(* Destructors of the queues. *)
OpsOf(q) == {o \in Ops : QueueOf[o] = q}

InvalidateQueue(q) ==
    /\ entry' = [o \in Ops |->
                    IF o \in OpsOf(q) THEN Changed(o, {"live"}, "invalid")[o] ELSE entry[o]]
    /\ rangeEntry' = [o \in Ops |->
                         IF o \in OpsOf(q) /\ rangeEntry[o] = "live"
                         THEN "invalid" ELSE rangeEntry[o]]

(* ~GpuQueue invalidates first; ~CpuQueue joins its worker before it does. *)
BeginDestroyQueue(q) ==
    /\ queue[q] = "open"
    /\ \A o \in OpsOf(q) : stage[o] # "leased"
    /\ IF gpu THEN InvalidateQueue(q) ELSE UNCHANGED <<entry, rangeEntry>>
    /\ queue' = [queue EXCEPT ![q] = IF gpu THEN "closing" ELSE "joining"]
    /\ UNCHANGED <<leases, held, opVars, ownerVars>>

Joined(q) ==
    /\ queue[q] = "joining"
    /\ \A o \in OpsOf(q) : Settled(o) \/ stage[o] = "parked"
    /\ InvalidateQueue(q)
    /\ queue' = [queue EXCEPT ![q] = "closing"]
    /\ UNCHANGED <<leases, held, opVars, ownerVars>>

(* The stream is synchronized; release_retained_leases gives back or        *)
(* quarantines the ranges nobody has waited for.                            *)
CloseQueue(q, ok) ==
    /\ queue[q] = "closing"
    /\ \A o \in OpsOf(q) : Settled(o)
    /\ ok \/ gpu
    /\ ok => \A o \in OpsOf(q) : native[o] # "running"
    /\ LET mine == held \cap OpsOf(q)
           found == {l \in leases : \E o \in mine : RangeOf[l] = RangeOf[o]}
       IN  /\ leases' = IF ok THEN leases \ found ELSE leases
           /\ rangeEntry' = [o \in Ops |->
                                IF o \notin mine THEN rangeEntry[o]
                                ELSE IF ok THEN "absent"
                                ELSE IF rangeEntry[o] = "live" THEN "invalid"
                                ELSE rangeEntry[o]]
           /\ held' = held \ mine
    /\ queue' = [queue EXCEPT ![q] = IF ok THEN "closed" ELSE "unproven"]
    /\ UNCHANGED <<entry, opVars, ownerVars>>

(* The device proves a retained queue drained after all. *)
Reclaim(q) ==
    /\ queue[q] = "unproven"
    /\ \A o \in OpsOf(q) : native[o] # "running"
    /\ queue' = [queue EXCEPT ![q] = "closed"]
    /\ UNCHANGED <<entryVars, opVars, ownerVars>>

--------------------------------------------------------------------------------
OpStep(o) ==
    \/ Lease(o) \/ \E ok \in BOOLEAN : Register(o, ok)
    \/ CatchRemove(o) \/ CatchLease(o) \/ RollbackRemove(o) \/ RollbackLease(o)
    \/ Dispatch(o) \/ NativeFinish(o)
    \/ \E isProven, failed \in BOOLEAN : Settle(o, isProven, failed)
    \/ FinishOwners(o) \/ \E retained \in BOOLEAN : FinishLease(o, retained)
    \/ Observe(o)

TensorStep(t) ==
    DestroyTensor(t) \/ SnapshotFails(t) \/ CheckFences(t) \/ DropEntries(t)

QueueStep(q) ==
    \/ BeginDestroyQueue(q) \/ Joined(q) \/ Reclaim(q)
    \/ \E ok \in BOOLEAN : CloseQueue(q, ok)

Next ==
    /\ \/ \E o \in Ops : OpStep(o)
       \/ \E t \in Tensors : TensorStep(t)
       \/ \E q \in Queues : QueueStep(q)
       \/ DestroyWorkspace
    /\ UNCHANGED deviceVars

Spec == Init /\ [][Next]_vars

--------------------------------------------------------------------------------
(* Properties. *)

(* Submissions that use, or may yet use, their storage. *)
Using == {o \in Ops : stage[o] = "parked" \/ native[o] = "running"}

(* Storage goes back to its allocator only when no parked or running        *)
(* submission of any queue can touch it, however early its owner goes away. *)
StorageSafe ==
    \A o \in Using :
        /\ \A t \in OwnersOf[o] : tensor[t] # "released"
        /\ RangeOf[o] # {} => workspace # "released"

(* Two submissions never use overlapping workspace cells at one time, and a *)
(* finished SDPA keeps its cells until its token is waited for.             *)
LeaseExclusive ==
    /\ \A o \in Using \cup held : RangeOf[o] # {} => o \in leases
    /\ \A a, b \in leases : a # b => RangeOf[a] \cap RangeOf[b] = {}

(* On a CPU device, for callers that keep their tensors until their work is *)
(* complete: a submission that is over, finished, failed or rolled back     *)
(* twice, leaves no Live entry and no leased range behind.                  *)
NothingLeaks ==
    ~gpu /\ ~early => \A o \in Ops : Settled(o) =>
        o \notin leases /\ \A t \in Tensors : entry[o][t] # "live"
================================================================================
