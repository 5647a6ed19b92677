-------------------------------- MODULE GpuQueue --------------------------------
(***************************************************************************)
(* The CUDA/ROCm queue (src/src/shared/gpu_queue*.{hpp,inl}): the common    *)
(* admission protocol of DeviceOps with the completion resources of         *)
(* EventRing, run by a StagedWorker.                                        *)
(*                                                                          *)
(* A dispatch takes its event and metadata slot, executes on the stream     *)
(* and publishes the task; the worker proves the task complete or retires   *)
(* it as unknown, gives the resources back, releases or invalidates the     *)
(* owners, completes the sequence and pumps, and destroys the task last.    *)
(***************************************************************************)
EXTENDS DeviceOps

CONSTANTS
    UsesSlot,       \* sequences whose operation uploads a descriptor
    MaxSyncErrors,  \* bound: synchronizations that return an error
    MayLoseContext  \* Policy::activate may throw at the start of execute()

ASSUME GpuQueueAssumption ==
    /\ UsesSlot \subseteq Sequences1
    /\ MaxSyncErrors \in Nat
    /\ MayLoseContext \in BOOLEAN
    /\ MayPark /\ ~JoinFirst

VARIABLES
    holder, quarantined, slotsInUse, slotsProtected, unknowns, stage, eventOf, slotOf,
    leaseOf, mark, disposition, result, native, uses,   \* of the ring
    retained,       \* sequences whose CompletionState retained a failure
    invalid,        \* sequences whose owner entries are Invalidated
    waitFence,      \* the worker popped its task before it saw the shutdown
    syncErrors,     \* synchronizations that have returned an error
    partition       \* what became of the queue's metadata partition

Ring == INSTANCE EventRing WITH RingSize <- Capacity, Submissions <- Sequences1

ringVars == <<holder, quarantined, slotsInUse, slotsProtected, unknowns, stage, eventOf,
              slotOf, leaseOf, mark, disposition, result, native, uses>>
ownVars == <<retained, invalid, waitFence, syncErrors, partition>>
gpuVars == <<vars, ringVars, ownVars>>

GpuInit ==
    /\ Init /\ Ring!Init
    /\ retained = {} /\ invalid = {}
    /\ waitFence = TRUE
    /\ syncErrors = 0
    /\ partition = "owned"

SyncFails == syncErrors < MaxSyncErrors /\ syncErrors' = syncErrors + 1

(* A step of the common protocol that no GPU hook takes part in. *)
Common(A) == A /\ UNCHANGED <<ringVars, ownVars>>

(* A rollback erases the submission's entries, Live or Invalidated. *)
RolledBack(A, s) ==
    A /\ invalid' = invalid \ {s} /\ UNCHANGED <<retained, waitFence, syncErrors, partition>>

--------------------------------------------------------------------------------
(* The dispatch callbacks of the *_impl functions. *)
Acquire(t) ==
    /\ At(t, "dispatch")
    /\ Ring!TryAcquire(cur[t])
    /\ UNCHANGED <<vars, ownVars>>

(* Seeded fault: the dispatch is tried again although nothing changed. *)
UnavailableRetries(t) ==
    /\ At(t, "dispatch")
    /\ stage[cur[t]] = "new" /\ ~Ring!CanAcquire(cur[t])
    /\ Goto(t, "take")
    /\ executing' = executing \ {cur[t]}
    /\ credits' = credits - 1
    /\ UNCHANGED <<tokenVars, nodes, fifo, pumping, closing, shutdown, tasks, live, cur,
                   fault, mine, drainList, callVars, ringVars, ownVars>>

Unavailable(t) ==
    /\ At(t, "dispatch")
    /\ stage[cur[t]] = "new" /\ ~Ring!CanAcquire(cur[t])
    /\ Common(DispatchUnavailable(t))

(* execute() finds the context inactive, fails before its first native call *)
(* (descriptor, unsupported operation), or copies nothing.                  *)
LaunchNothing(t) ==
    /\ DispatchAccept(t)
    /\ \/ /\ MayLoseContext
          /\ Ring!ExecuteNothing(cur[t], FALSE)
          /\ retained' = retained \cup {cur[t]}
       \/ /\ Ring!ExecuteNothing(cur[t], TRUE)
          /\ \/ retained' = retained \cup {cur[t]}
             \/ cur[t] \notin UsesSlot /\ UNCHANGED retained
    /\ UNCHANGED <<invalid, waitFence, syncErrors, partition>>

(* execute() launches and leaves an event, a drained stream or no proof. *)
LaunchNative(t) ==
    /\ DispatchAccept(t)
    /\ \/ /\ Ring!ExecuteNative(cur[t], "recorded")
          /\ retained' \in {retained, retained \cup {cur[t]}}
          /\ UNCHANGED syncErrors
       \/ /\ Ring!ExecuteNative(cur[t], "drained")
          /\ retained' = retained \cup {cur[t]}
          /\ UNCHANGED syncErrors
       \/ /\ Ring!ExecuteNative(cur[t], "unknown")
          /\ retained' = retained \cup {cur[t]}
          /\ SyncFails
    /\ UNCHANGED <<invalid, waitFence, partition>>

(* The resources a throwing dispatch already holds go back with it. *)
ReturnResources(s) ==
    \/ stage[s] = "new" /\ UNCHANGED ringVars
    \/ Ring!Drop(s)

Rejected == Common(DispatchRejected /\ stage[mine] = "new")
            \/ (DispatchRejected /\ Ring!Drop(mine) /\ UNCHANGED ownVars)

Fails(t) == RolledBack(DispatchFails(t) /\ ReturnResources(cur[t]), cur[t])

--------------------------------------------------------------------------------
(* StagedWorker::process and the callbacks the queue gives it. *)
LastTask == {s \in Sequences1 : stage[s] = "retired"}

Pop ==
    /\ LastTask = {}
    /\ WorkerPop
    /\ waitFence' = ~shutdown
    /\ UNCHANGED <<ringVars, retained, invalid, syncErrors, partition>>

FenceComplete ==
    /\ At("worker", "native") /\ waitFence
    /\ LET s == cur["worker"] IN
       \/ Ring!OnWorkerComplete(s, TRUE) /\ UNCHANGED syncErrors
       \/ /\ Ring!OnWorkerComplete(s, FALSE)
          /\ IF mark[s] = "recorded" THEN SyncFails ELSE UNCHANGED syncErrors
    /\ UNCHANGED <<vars, retained, invalid, waitFence, partition>>

FenceDestroy ==
    /\ At("worker", "native")
    /\ waitFence => stage[cur["worker"]] = "completed"
    /\ LET s == cur["worker"] IN
       \/ Ring!OnWorkerDestroy(s, TRUE) /\ UNCHANGED syncErrors
       \/ /\ Ring!OnWorkerDestroy(s, FALSE)
          /\ IF mark[s] = "recorded" THEN SyncFails ELSE UNCHANGED syncErrors
    /\ UNCHANGED <<vars, retained, invalid, waitFence, partition>>

(* Seeded fault: every completion releases its owners. *)
CompleteReleases ==
    /\ At("worker", "native")
    /\ LET s == cur["worker"]
       IN  /\ Ring!Retire(s)
           /\ WorkerFinish(result[s] = "failed" \/ s \in retained)
    /\ UNCHANGED <<retained, invalid, waitFence, syncErrors, partition>>

(* Seeded fault: the fence's own failure is not reported. *)
CompleteIgnoresFence ==
    /\ At("worker", "native")
    /\ LET s == cur["worker"]
           proven == disposition[s] = "complete"
       IN  /\ Ring!Retire(s)
           /\ WorkerFinish(s \in retained)
           /\ invalid' = IF ~proven THEN invalid \cup {s} ELSE invalid
    /\ UNCHANGED <<retained, waitFence, syncErrors, partition>>

(* complete_task: the outcome, the proof and the owners they decide about.  *)
(* A proven embedding may still report an index out of range.  An entry     *)
(* that teardown invalidated stays invalidated.                             *)
CompleteTask ==
    /\ At("worker", "native")
    /\ \E badIndex \in BOOLEAN :
         LET s == cur["worker"]
             proven == disposition[s] = "complete"
             failed == result[s] = "failed" \/ s \in retained \/ badIndex
         IN  /\ badIndex => s \in UsesSlot /\ proven /\ result[s] = "success"
             /\ Ring!Retire(s)
             /\ WorkerFinish(failed)
             /\ invalid' = IF failed \/ ~proven THEN invalid \cup {s} ELSE invalid
    /\ UNCHANGED <<retained, waitFence, syncErrors, partition>>

(* The worker's local Task goes out of scope after the nested pump. *)
DestroyTask ==
    /\ At("worker", "idle")
    /\ \E s \in LastTask : Ring!DestroyTask(s)
    /\ UNCHANGED <<vars, ownVars>>

NativeFinish ==
    /\ \E s \in Sequences1 : Ring!NativeFinish(s)
    /\ UNCHANGED <<vars, ownVars>>

--------------------------------------------------------------------------------
(* ~GpuQueue *)

(* Owner fences are invalidated before anything is drained. *)
BeginDestroy ==
    /\ Destroy
    /\ invalid' = invalid \cup live
    /\ UNCHANGED <<ringVars, retained, waitFence, syncErrors, partition>>

DrainParked ==
    /\ DrainOne
    /\ invalid' = invalid \ (live \ live')
    /\ UNCHANGED <<ringVars, retained, waitFence, syncErrors, partition>>

Join == LastTask = {} /\ Common(JoinWorker)

(* Seeded fault: the partition is returned whatever the drain found. *)
DrainStreamReleases(ok) ==
    /\ At("host", "destroyed") /\ partition = "owned"
    /\ Ring!OnQueueDrain(ok)
    /\ partition' = "released"
    /\ IF ok THEN UNCHANGED syncErrors ELSE SyncFails
    /\ UNCHANGED <<vars, retained, invalid, waitFence>>

(* The stream is synchronized, then the partition is returned to the device *)
(* or handed over unresolved.                                               *)
DrainStream(ok) ==
    /\ At("host", "destroyed") /\ partition = "owned"
    /\ Ring!OnQueueDrain(ok)
    /\ partition' = IF ok \/ unknowns = 0 THEN "released" ELSE "quarantined"
    /\ IF ok THEN UNCHANGED syncErrors ELSE SyncFails
    /\ UNCHANGED <<vars, retained, invalid, waitFence>>

(* The device retries the retained queue's own drain later. *)
ReclaimLease(ok) ==
    /\ partition = "quarantined"
    /\ Ring!OnQueueDrain(ok)
    /\ partition' = IF ok THEN "released" ELSE partition
    /\ IF ok THEN UNCHANGED syncErrors ELSE SyncFails
    /\ UNCHANGED <<vars, retained, invalid, waitFence>>

--------------------------------------------------------------------------------
GpuCaller ==
    \/ Common(Submit)
    \/ \E s \in issued : Common(WaitBegin(s))
    \/ BeginDestroy

GpuPump(t) ==
    \/ Common(PumpBusy(t)) \/ Common(PumpEnter(t)) \/ Common(PumpStop(t))
    \/ Common(PumpTake(t)) \/ Common(Park(t))
    \/ Acquire(t) \/ Unavailable(t) \/ LaunchNothing(t) \/ LaunchNative(t) \/ Fails(t)

GpuHost ==
    \/ \E ok \in BOOLEAN : Common(Prepare(ok))
    \/ Common(Publish) \/ Common(PublishFails) \/ Common(Unwind)
    \/ GpuPump("host") \/ Rejected \/ Common(AbandonRejected)
    \/ Common(WaitWake) \/ Common(WaitFence)
    \/ Common(CloseAdmission) \/ Common(SnapshotParked) \/ DrainParked
    \/ Common(DrainEnd) \/ Common(ShutdownWorker) \/ Join
    \/ \E ok \in BOOLEAN : DrainStream(ok)

GpuWorker ==
    \/ Pop \/ FenceComplete \/ FenceDestroy \/ CompleteTask
    \/ Common(WorkerComplete) \/ GpuPump("worker") \/ DestroyTask

GpuNext ==
    \/ GpuCaller \/ GpuHost \/ GpuWorker \/ NativeFinish
    \/ \E ok \in BOOLEAN : ReclaimLease(ok)

GpuSpec == GpuInit /\ [][GpuNext]_gpuVars

(* The device finishes what it started; both threads keep running. *)
GpuFairSpec ==
    /\ GpuSpec
    /\ WF_gpuVars(GpuHost) /\ WF_gpuVars(GpuWorker) /\ WF_gpuVars(NativeFinish)

--------------------------------------------------------------------------------
(* Properties. *)

(* The types of what the queue adds to its two components. *)
GpuTypeOK ==
    /\ Ring!RingTypeOK
    /\ retained \subseteq Sequences1 /\ invalid \subseteq Sequences1
    /\ waitFence \in BOOLEAN
    /\ syncErrors \in 0 .. MaxSyncErrors
    /\ partition \in {"owned", "released", "quarantined"}

(* The GPU queue takes only steps the common protocol allows, and borrows   *)
(* and returns events and slots only as the ring and the pool allow.        *)
ImplementsComponents == Spec /\ Ring!Spec

(* Storage the device may still touch is never released: as long as a       *)
(* submission's work runs, its owner entries are Live or Invalidated.       *)
RunningKeepsOwners == Ring!Running \subseteq live \cup invalid

(* The metadata partition goes back to the device for another queue only    *)
(* when nothing this queue launched is still running.                       *)
ReleasedPartitionIdle == partition = "released" => Ring!Running = {}

(* What the device may still touch outlives every failure: its owners, and  *)
(* the partition its descriptors were uploaded to.                          *)
RunningProtected == RunningKeepsOwners /\ ReleasedPartitionIdle

(* A free credit means a free event: as long as no completion is unknown, a *)
(* dispatch the credits admit does not have to park for its event.          *)
CreditCoversEvent ==
    \A t \in Threads :
        At(t, "dispatch") /\ stage[cur[t]] = "new" /\ quarantined = {} =>
            Ring!FreeEvents # {}

(* The ring and the pool never hand out what running work uses, never call  *)
(* such work complete, account for every event and slot they withhold, and  *)
(* never fall behind the credits.                                           *)
RingSound ==
    /\ GpuTypeOK /\ CreditCoversEvent
    /\ Ring!RunningHoldsResources /\ Ring!RunningDisjoint /\ Ring!ProofIsSound
    /\ Ring!UnknownsCounted /\ Ring!IdleMeansFree

(* A token reported as succeeded was proven complete by the device. *)
SuccessIsProven ==
    \A s \in issued :
        <<s, "ok">> \in observed => native[s] # "running" /\ disposition[s] # "unknown"

================================================================================
