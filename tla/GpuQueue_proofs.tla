---------------------------- MODULE GpuQueue_proofs ----------------------------
(***************************************************************************)
(* Proofs about the CUDA/ROCm queue, for every capacity, every length of   *)
(* the sequence space and any number of failing synchronizations: it takes *)
(* only steps of the common protocol and of the ring, so that what is      *)
(* proved of those holds of it, and storage that running work touches      *)
(* stays protected.                                                        *)
(***************************************************************************)
EXTENDS GpuQueue, DeviceOps_proofs

RingProofs == INSTANCE EventRing_proofs WITH RingSize <- Capacity, Submissions <- Sequences1

--------------------------------------------------------------------------------
(* The invariant that ties the ring's view of a submission to the common    *)
(* protocol's.                                                              *)

OnNative == IF pc["worker"] = "native" THEN {cur["worker"]} ELSE {}
Early == {"new", "acquired"}
Late == {"retired", "gone"}

(* Resources are taken inside a dispatch, and given back before its node is *)
(* parked again.                                                            *)
AcquiredOK ==
    /\ \A s \in Sequences1 : stage[s] = "acquired" =>
          \E t \in Threads : pc[t] = "dispatch" /\ cur[t] = s
    /\ \A t \in Threads : pc[t] = "park" => stage[cur[t]] = "new"

(* What was launched is queued for the worker, on it, or finished by it.    *)
LaunchedOK ==
    /\ \A s \in Sequences1 : stage[s] = "executed" => s \in Elements(tasks) \cup OnNative
    /\ \A s \in Sequences1 : stage[s] \in {"completed", "destroyed"} => s \in OnNative
    /\ \A s \in Elements(tasks) : stage[s] = "executed"
    /\ \A s \in OnNative : stage[s] \in {"executed", "completed", "destroyed"}
    /\ pc["worker"] = "complete" => stage[cur["worker"]] = "retired"

(* A number that is still to be dispatched was never launched, although     *)
(* rejected submissions hand their number out again.                        *)
FreshOK ==
    \A s \in Sequences1 : stage[s] \notin Early =>
        /\ s < next
        /\ s \in nodes => s \in Elements(tasks) \cup OnWorker
        /\ pc["host"] \in Unpublished => s # mine

(* The worker keeps one finished task at a time. *)
LastTaskOK ==
    /\ \A s, r \in Sequences1 : stage[s] = "retired" /\ stage[r] = "retired" => s = r
    /\ pc["worker"] \in {"native", "exited"} =>
          \A s \in Sequences1 : stage[s] # "retired"

(* The partition goes with the queue, and goes back only when it is idle. *)
PartitionOK ==
    /\ partition # "owned" => pc["host"] = "destroyed"
    /\ partition = "released" => \A s \in Sequences1 : native[s] # "running"

(* Work that ended unproven left its owners Invalidated. *)
InvalidOK ==
    \A s \in Sequences1 : native[s] = "running" /\ stage[s] \in Late => s \in invalid

(* An unproven completion is reported as a failure, and a sequence that is  *)
(* over failed or was proven.                                               *)
OutcomeOK ==
    /\ \A s \in Sequences1 : disposition[s] = "unknown" =>
          result[s] = "failed" \/ s \in retained
    /\ pc["worker"] = "complete" /\ ~fault["worker"] => disposition[cur["worker"]] = "complete"
    /\ \A s \in Waitable : s \notin nodes /\ ~(pc["host"] \in Unpublished /\ s = mine) =>
          s \in failures \/ (stage[s] \in Late /\ disposition[s] = "complete")

OwnTypeOK ==
    /\ retained \subseteq Sequences1 /\ invalid \subseteq Sequences1
    /\ waitFence \in BOOLEAN
    /\ syncErrors \in 0 .. MaxSyncErrors
    /\ partition \in {"owned", "released", "quarantined"}

GInv ==
    /\ OwnTypeOK /\ AcquiredOK /\ LaunchedOK /\ FreshOK /\ LastTaskOK /\ PartitionOK
    /\ InvalidOK /\ OutcomeOK

GpuInv == IInv /\ RingProofs!RInv /\ GInv

--------------------------------------------------------------------------------
(* The queue's constants are ones the ring is proved for. *)
LEMMA RingConstantsHold == RingProofs!RingConstants
BY DeviceOpsAssumption DEF RingProofs!RingConstants, Sequences1

(* The ring of the queue is the ring the proofs are about. *)
LEMMA SameRing ==
    /\ Ring!Init <=> RingProofs!Init
    /\ Ring!Next <=> RingProofs!Next
  <1>1. Ring!Init <=> RingProofs!Init
    BY DEF Ring!Init, RingProofs!Init, Ring!None, RingProofs!None, Ring!Resources,
       RingProofs!Resources
  <1>2. \A s : Ring!Step(s) <=> RingProofs!Step(s)
    BY DEF Ring!Step, RingProofs!Step, Ring!TryAcquire, RingProofs!TryAcquire,
       Ring!Drop, RingProofs!Drop, Ring!ExecuteNothing, RingProofs!ExecuteNothing,
       Ring!ExecuteNative, RingProofs!ExecuteNative, Ring!NativeFinish,
       RingProofs!NativeFinish, Ring!OnWorkerComplete, RingProofs!OnWorkerComplete,
       Ring!OnWorkerDestroy, RingProofs!OnWorkerDestroy, Ring!Retire, RingProofs!Retire,
       Ring!DestroyTask, RingProofs!DestroyTask, Ring!CanAcquire, RingProofs!CanAcquire,
       Ring!FreeEvents, RingProofs!FreeEvents, Ring!FreeSlots, RingProofs!FreeSlots,
       Ring!First, RingProofs!First, Ring!Returned, RingProofs!Returned,
       Ring!RetireUnknown, RingProofs!RetireUnknown, Ring!SyncEvent,
       RingProofs!SyncEvent, Ring!DestroyProof, RingProofs!DestroyProof, Ring!None,
       RingProofs!None, Ring!Resources, RingProofs!Resources
  <1>3. \A ok : Ring!Drain(ok) <=> RingProofs!Drain(ok)
    BY DEF Ring!Drain, RingProofs!Drain, Ring!OnQueueDrain, RingProofs!OnQueueDrain,
       Ring!Idle, RingProofs!Idle, Ring!None, RingProofs!None, Ring!Resources,
       RingProofs!Resources
  <1>4. Ring!Next <=> RingProofs!Next
    BY <1>2, <1>3 DEF Ring!Next, RingProofs!Next
  <1> QED
    BY <1>1, <1>4

(* What the ring's invariant says of a submission's state. *)
LEMMA RingView ==
    ASSUME RingProofs!RInv
    PROVE  /\ stage \in [Sequences1 -> {"new", "acquired", "executed", "completed",
                                        "destroyed", "retired", "gone"}]
           /\ disposition \in [Sequences1 -> {"pending", "complete", "unknown"}]
           /\ result \in [Sequences1 -> {"pending", "success", "failed"}]
           /\ native \in [Sequences1 -> {"none", "running", "done"}]
           /\ \A s \in Sequences1 : stage[s] \in Early =>
                 native[s] = "none" /\ disposition[s] = "pending"
           /\ \A s \in Sequences1 : disposition[s] = "complete" => native[s] # "running"
           /\ \A s \in Sequences1 : stage[s] \in {"destroyed"} \cup Late =>
                 disposition[s] # "pending"
           /\ \A s \in Sequences1 : native[s] = "running" /\ stage[s] \in Late =>
                 quarantined # {}
  <1>1. /\ stage \in [Sequences1 -> RingProofs!Stages]
        /\ disposition \in [Sequences1 -> {"pending", "complete", "unknown"}]
        /\ result \in [Sequences1 -> {"pending", "success", "failed"}]
        /\ native \in [Sequences1 -> {"none", "running", "done"}]
    BY DEF RingProofs!RInv, RingProofs!RingTypeOK
  <1>2. /\ \A s \in Sequences1 : stage[s] \in Early =>
              native[s] = "none" /\ disposition[s] = "pending"
        /\ \A s \in Sequences1 : disposition[s] = "complete" => native[s] # "running"
        /\ \A s \in Sequences1 : stage[s] \in {"destroyed"} \cup Late =>
              disposition[s] # "pending"
    BY DEF RingProofs!RInv, RingProofs!PhaseOK, RingProofs!Ended, Early, Late
  <1>3. \A s \in Sequences1 : native[s] = "running" /\ stage[s] \in Late =>
            quarantined # {}
    BY DEF RingProofs!RInv, RingProofs!RunningOK, RingProofs!Running, RingProofs!Ended, Late
  <1> QED
    BY <1>1, <1>2, <1>3 DEF RingProofs!Stages

--------------------------------------------------------------------------------
(* The joined worker left nothing in between for the stream's drain. *)
LEMMA DestroyedIdle ==
    ASSUME GpuInv, pc["host"] = "destroyed"
    PROVE  Ring!Idle
  <1>1. pc["worker"] = "exited" /\ tasks = <<>>
    BY DEF GpuInv, IInv, CloseOK, At
  <1>2. Elements(tasks) = {} /\ OnNative = {}
    BY <1>1 DEF Elements, OnNative
  <1>3. \A s \in Sequences1 : stage[s] \notin {"acquired", "executed", "completed",
                                               "destroyed", "retired"}
    BY <1>1, <1>2 DEF GpuInv, GInv, AcquiredOK, LaunchedOK, LastTaskOK, Threads
  <1> QED
    BY <1>3, RingView DEF GpuInv, Ring!Idle

(* Who pumps holds a sequence number. *)
LEMMA Numbers ==
    ASSUME GpuInv
    PROVE  /\ \A t \in Threads : pc[t] \in Holding => cur[t] \in Sequences1
           /\ pc["worker"] \in {"native", "complete"} => cur["worker"] \in Sequences1
           /\ pc["host"] \in Unpublished \cup Published => mine \in Sequences1
           /\ "host" \in Threads /\ "worker" \in Threads
           /\ Threads = {"host", "worker"}
  BY Ranges DEF GpuInv, Threads, Holding

(* A step of the pump is a step of the common pump and one of the ring. *)
LEMMA PumpImplements ==
    ASSUME GpuInv, NEW t \in Threads, GpuPump(t)
    PROVE  /\ Pump(t) \/ UNCHANGED vars
           /\ Ring!Next \/ UNCHANGED ringVars
  <1>1. CASE \/ Common(PumpBusy(t)) \/ Common(PumpEnter(t)) \/ Common(PumpStop(t))
             \/ Common(PumpTake(t)) \/ Common(Park(t))
    BY <1>1 DEF Common, Pump
  <1>2. CASE Acquire(t)
    <2>1. cur[t] \in Sequences1
      BY <1>2, Numbers DEF Acquire, At, Holding
    <2> QED
      BY <1>2, <2>1 DEF Acquire, Ring!Next, Ring!Step
  <1>3. CASE Unavailable(t)
    BY <1>3 DEF Unavailable, Common, Pump
  <1>4. CASE LaunchNothing(t) \/ LaunchNative(t)
    <2>1. cur[t] \in Sequences1 /\ DispatchAccept(t)
      BY <1>4, Numbers DEF LaunchNothing, LaunchNative, DispatchAccept, At, Holding
    <2>2. Ring!Step(cur[t])
      BY <1>4 DEF LaunchNothing, LaunchNative, Ring!Step
    <2> QED
      BY <2>1, <2>2 DEF Pump, Ring!Next
  <1>5. CASE Fails(t)
    <2>1. cur[t] \in Sequences1 /\ DispatchFails(t) /\ ReturnResources(cur[t])
      BY <1>5, Numbers DEF Fails, RolledBack, DispatchFails, At, Holding
    <2> QED
      BY <2>1 DEF Pump, ReturnResources, Ring!Next, Ring!Step
  <1> QED
    BY <1>1, <1>2, <1>3, <1>4, <1>5 DEF GpuPump

(* A step of the GPU queue is a step of the common protocol and of the      *)
(* ring, or leaves one of them alone.                                       *)
LEMMA StepImplements ==
    ASSUME GpuInv, [GpuNext]_gpuVars
    PROVE  [Next]_vars /\ [Ring!Next]_ringVars
  <1> USE Numbers
  <1>1. CASE GpuCaller
    BY <1>1 DEF GpuCaller, Common, BeginDestroy, Next, Caller
  <1>2. CASE GpuPump("host") \/ GpuPump("worker")
    BY <1>2, PumpImplements DEF Next, Host, Worker
  <1>3. CASE Rejected
    <2>1. DispatchRejected /\ mine \in Sequences1
      BY <1>3 DEF Rejected, Common, DispatchRejected, At, Published
    <2>2. Ring!Drop(mine) \/ UNCHANGED ringVars
      BY <1>3 DEF Rejected, Common
    <2> QED
      BY <2>1, <2>2 DEF Next, Host, Ring!Next, Ring!Step
  <1>4. ASSUME NEW ok \in BOOLEAN, DrainStream(ok) \/ ReclaimLease(ok)
        PROVE  UNCHANGED vars /\ Ring!Next
    <2>1. pc["host"] = "destroyed"
      BY <1>4 DEF DrainStream, ReclaimLease, At, GpuInv, GInv, PartitionOK
    <2>2. Ring!Idle /\ Ring!OnQueueDrain(ok) /\ UNCHANGED vars
      BY <1>4, <2>1, DestroyedIdle DEF DrainStream, ReclaimLease
    <2> QED
      BY <2>2 DEF Ring!Next, Ring!Drain
  <1>5. CASE \/ \E ok \in BOOLEAN : Common(Prepare(ok))
             \/ Common(Publish) \/ Common(PublishFails) \/ Common(Unwind)
             \/ Common(AbandonRejected) \/ Common(WaitWake) \/ Common(WaitFence)
             \/ Common(CloseAdmission) \/ Common(SnapshotParked) \/ DrainParked
             \/ Common(DrainEnd) \/ Common(ShutdownWorker) \/ Join
    BY <1>5 DEF Common, DrainParked, Join, Next, Host
  <1>6. CASE Pop \/ Common(WorkerComplete)
    BY <1>6 DEF Pop, Common, Next, Worker
  <1>7. CASE FenceComplete \/ FenceDestroy \/ CompleteTask
    <2>1. cur["worker"] \in Sequences1
      BY <1>7 DEF FenceComplete, FenceDestroy, CompleteTask, At
    <2>2. Ring!Step(cur["worker"])
      BY <1>7 DEF FenceComplete, FenceDestroy, CompleteTask, Ring!Step
    <2>3. [Next]_vars
      <3>1. CASE CompleteTask
        <4>1. PICK failed : WorkerFinish(failed) /\ failed \in BOOLEAN
          BY <3>1 DEF CompleteTask
        <4> QED
          BY <4>1 DEF Next, Worker
      <3> QED
        BY <1>7, <3>1 DEF FenceComplete, FenceDestroy
    <2> QED
      BY <2>1, <2>2, <2>3 DEF Ring!Next
  <1>8. CASE DestroyTask \/ NativeFinish
    BY <1>8 DEF DestroyTask, NativeFinish, LastTask, Ring!Next, Ring!Step
  <1>9. CASE UNCHANGED gpuVars
    BY <1>9 DEF gpuVars
  <1> QED
    BY <1>1, <1>2, <1>3, <1>4, <1>5, <1>6, <1>7, <1>8, <1>9 DEF GpuNext, GpuHost, GpuWorker

--------------------------------------------------------------------------------
(* The steps of the common protocol that move nothing the ring's view of a  *)
(* submission depends on.                                                   *)
Ending == {"native", "complete", "exited"}
Quiet ==
    /\ UNCHANGED <<nodes, tasks, failures, skipped>>
    /\ \A t \in Threads : pc[t] \in Holding \/ pc'[t] \in Holding =>
          pc'[t] = pc[t] /\ cur'[t] = cur[t]
    /\ pc["worker"] \in Ending \/ pc'["worker"] \in Ending =>
          /\ pc'["worker"] = pc["worker"] /\ cur'["worker"] = cur["worker"]
          /\ fault'["worker"] = fault["worker"]
    /\ pc["host"] = "destroyed" => pc'["host"] = "destroyed"
    /\ \/ /\ next' = next
          /\ pc'["host"] \in Unpublished <=> pc["host"] \in Unpublished
          /\ pc["host"] \in Unpublished => mine' = mine
       \/ /\ next' = next + 1 /\ mine' = next
          /\ pc'["host"] \in Unpublished /\ pc["host"] \notin Unpublished

(* The calls, the quiet half of the pump and the destructor's flags are     *)
(* quiet.                                                                   *)
LEMMA QuietSteps ==
    ASSUME GpuInv
    PROVE  /\ Submit => Quiet
           /\ \A s : WaitBegin(s) => Quiet
           /\ \A ok \in BOOLEAN : Prepare(ok) => Quiet
           /\ PublishFails => Quiet
           /\ \A t \in Threads : PumpBusy(t) \/ PumpEnter(t) \/ PumpStop(t) => Quiet
           /\ WaitWake \/ WaitFence => Quiet
           /\ Destroy \/ CloseAdmission \/ SnapshotParked \/ DrainEnd \/ ShutdownWorker =>
                 Quiet
  <1> USE DEF Quiet, Ending, Holding, Unpublished, Threads, tokenVars, nodeVars, callVars,
          At, Goto
  <1>1. pc \in [Threads -> HostLabels \cup WorkerLabels] /\ fault \in [Threads -> BOOLEAN]
        /\ cur \in [Threads -> 0 .. MaxSequence]
    BY DEF GpuInv, IInv, TypeOK
  <1>2. Submit => Quiet
    BY <1>1 DEF Submit
  <1>3. \A s : WaitBegin(s) => Quiet
    BY <1>1 DEF WaitBegin
  <1>4. \A ok \in BOOLEAN : Prepare(ok) => Quiet
    BY <1>1 DEF Prepare
  <1>5. PublishFails => Quiet
    BY <1>1 DEF PublishFails
  <1>6. \A t \in Threads : PumpBusy(t) => Quiet
    BY <1>1 DEF PumpBusy, LeavePump
  <1>7. \A t \in Threads : PumpEnter(t) => Quiet
    BY <1>1 DEF PumpEnter
  <1>8. \A t \in Threads : PumpStop(t) => Quiet
    BY <1>1 DEF PumpStop, LeavePump
  <1>9. WaitWake => Quiet
    BY <1>1 DEF WaitWake
  <1>10. WaitFence => Quiet
    BY <1>1 DEF WaitFence
  <1>11. Destroy => Quiet
    BY <1>1 DEF Destroy
  <1>12. CloseAdmission => Quiet
    BY <1>1 DEF CloseAdmission
  <1>13. SnapshotParked => Quiet
    BY <1>1 DEF SnapshotParked
  <1>14. DrainEnd => Quiet
    BY <1>1 DEF DrainEnd
  <1>15. ShutdownWorker => Quiet
    BY <1>1 DEF ShutdownWorker
  <1> QED
    BY <1>2, <1>3, <1>4, <1>5, <1>6, <1>7, <1>8, <1>9, <1>10, <1>11, <1>12, <1>13, <1>14,
       <1>15 DEF Threads

(* A quiet step keeps the queue's part of the invariant.                    *)
LEMMA QuietG ==
    ASSUME GpuInv, Quiet, UNCHANGED ringVars, UNCHANGED <<retained, waitFence, syncErrors,
           partition>>, invalid' \in {invalid, invalid \cup live}
    PROVE  GInv'
  <1>1. UNCHANGED <<stage, native, disposition, result>>
    BY DEF ringVars
  <1>2. /\ next \in Nat /\ live \subseteq Sequences1 /\ Threads = {"host", "worker"}
        /\ \A s \in Sequences1 : s \in Nat
    BY Ranges, Numbers DEF GpuInv, IInv, TypeOK
  <1>3. /\ Elements(tasks') = Elements(tasks) /\ OnNative' = OnNative
        /\ pc["worker"] \in {"native", "complete"} => OnWorker' = OnWorker
    BY DEF Quiet, Elements, OnNative, OnWorker, Ending
  <1> USE DEF Quiet, Ending, Holding, Unpublished
  <1>4. OwnTypeOK'
    BY <1>1, <1>2, <1>3 DEF GpuInv, GInv, OwnTypeOK
  <1>5. AcquiredOK'
    BY <1>1, <1>2, <1>3 DEF GpuInv, GInv, AcquiredOK, Holding
  <1>6. LaunchedOK'
    BY <1>1, <1>2, <1>3 DEF GpuInv, GInv, LaunchedOK, OnNative
  <1>7. FreshOK'
    BY <1>1, <1>2, <1>3 DEF GpuInv, GInv, FreshOK, OnWorker, Early, Unpublished
  <1>8. LastTaskOK'
    BY <1>1, <1>2, <1>3 DEF GpuInv, GInv, LastTaskOK
  <1>9. PartitionOK'
    BY <1>1, <1>2, <1>3 DEF GpuInv, GInv, PartitionOK
  <1>10. InvalidOK'
    BY <1>1, <1>2, <1>3 DEF GpuInv, GInv, InvalidOK, Late
  <1>11. OutcomeOK'
    BY <1>1, <1>2, <1>3 DEF GpuInv, GInv, OutcomeOK, Waitable, Late, Unpublished
  <1> QED
    BY <1>4, <1>5, <1>6, <1>7, <1>8, <1>9, <1>10, <1>11 DEF GInv

(* Taking a parked submission keeps it.                                     *)
LEMMA PumpTakeG ==
    ASSUME GpuInv, NEW t \in Threads, Common(PumpTake(t))
    PROVE  GInv'
  <1>1. /\ pc[t] = "take" /\ pc'[t] = "dispatch"
        /\ \A u \in Threads : u # t => pc'[u] = pc[u] /\ cur'[u] = cur[u]
        /\ UNCHANGED <<next, skipped, failures, nodes, tasks, fault, mine>>
        /\ UNCHANGED <<stage, native, disposition, result>>
        /\ UNCHANGED <<retained, invalid, waitFence, syncErrors, partition>>
    BY Numbers DEF GpuInv, IInv, TypeOK, Threads, At, Goto, tokenVars, nodeVars,
       callVars, ringVars, ownVars, Common, PumpTake
  <1>2. /\ \A s \in Sequences1 : s \in Nat
        /\ next \in Nat /\ Threads = {"host", "worker"}
    BY Ranges, Numbers DEF GpuInv
  <1>3. Elements(tasks') = Elements(tasks) /\ OnNative' = OnNative /\ OnWorker' = OnWorker
    BY <1>1, <1>2 DEF Elements, OnNative, OnWorker
  <1>4. OwnTypeOK'
    BY <1>1, <1>2, <1>3 DEF GpuInv, GInv, OwnTypeOK
  <1>5. AcquiredOK'
    BY <1>1, <1>2, <1>3 DEF GpuInv, GInv, AcquiredOK, Holding
  <1>6. LaunchedOK'
    BY <1>1, <1>2, <1>3 DEF GpuInv, GInv, LaunchedOK, OnNative
  <1>7. FreshOK'
    BY <1>1, <1>2, <1>3 DEF GpuInv, GInv, FreshOK, OnWorker, Early, Unpublished
  <1>8. LastTaskOK'
    BY <1>1, <1>2, <1>3 DEF GpuInv, GInv, LastTaskOK
  <1>9. PartitionOK'
    BY <1>1, <1>2, <1>3 DEF GpuInv, GInv, PartitionOK
  <1>10. InvalidOK'
    BY <1>1, <1>2, <1>3 DEF GpuInv, GInv, InvalidOK, Late
  <1>11. OutcomeOK'
    BY <1>1, <1>2, <1>3 DEF GpuInv, GInv, OutcomeOK, Waitable, Late, Unpublished
  <1> QED
    BY <1>4, <1>5, <1>6, <1>7, <1>8, <1>9, <1>10, <1>11 DEF GInv

(* Finding no event or slot keeps it.                                       *)
LEMMA UnavailableG ==
    ASSUME GpuInv, NEW t \in Threads, Unavailable(t)
    PROVE  GInv'
  <1>1. /\ pc[t] = "dispatch" /\ pc'[t] = "park" /\ stage[cur[t]] = "new"
        /\ \A u \in Threads : u # t => pc'[u] = pc[u]
        /\ UNCHANGED <<next, skipped, failures, nodes, tasks, fault, mine, cur>>
        /\ UNCHANGED <<stage, native, disposition, result>>
        /\ UNCHANGED <<retained, invalid, waitFence, syncErrors, partition>>
    BY Numbers DEF GpuInv, IInv, TypeOK, Threads, At, Goto, tokenVars, nodeVars,
       callVars, ringVars, ownVars, Common, Unavailable, DispatchUnavailable
  <1>2. /\ \A s \in Sequences1 : s \in Nat
        /\ next \in Nat /\ Threads = {"host", "worker"}
    BY Ranges, Numbers DEF GpuInv
  <1>3. Elements(tasks') = Elements(tasks) /\ OnNative' = OnNative /\ OnWorker' = OnWorker
    BY <1>1, <1>2 DEF Elements, OnNative, OnWorker
  <1>4. OwnTypeOK'
    BY <1>1, <1>2, <1>3 DEF GpuInv, GInv, OwnTypeOK
  <1>5. AcquiredOK'
    BY <1>1, <1>2, <1>3 DEF GpuInv, GInv, AcquiredOK, Holding
  <1>6. LaunchedOK'
    BY <1>1, <1>2, <1>3 DEF GpuInv, GInv, LaunchedOK, OnNative
  <1>7. FreshOK'
    BY <1>1, <1>2, <1>3 DEF GpuInv, GInv, FreshOK, OnWorker, Early, Unpublished
  <1>8. LastTaskOK'
    BY <1>1, <1>2, <1>3 DEF GpuInv, GInv, LastTaskOK
  <1>9. PartitionOK'
    BY <1>1, <1>2, <1>3 DEF GpuInv, GInv, PartitionOK
  <1>10. InvalidOK'
    BY <1>1, <1>2, <1>3 DEF GpuInv, GInv, InvalidOK, Late
  <1>11. OutcomeOK'
    BY <1>1, <1>2, <1>3 DEF GpuInv, GInv, OutcomeOK, Waitable, Late, Unpublished
  <1> QED
    BY <1>4, <1>5, <1>6, <1>7, <1>8, <1>9, <1>10, <1>11 DEF GInv

(* Parking a submission again keeps it.                                     *)
LEMMA ParkG ==
    ASSUME GpuInv, NEW t \in Threads, Common(Park(t))
    PROVE  GInv'
  <1>1. /\ pc[t] = "park" /\ pc'[t] = "idle"
        /\ \A u \in Threads : u # t => pc'[u] = pc[u]
        /\ t # "host" => mine' = mine
        /\ UNCHANGED <<next, skipped, failures, nodes, tasks, fault, cur>>
        /\ UNCHANGED <<stage, native, disposition, result>>
        /\ UNCHANGED <<retained, invalid, waitFence, syncErrors, partition>>
    BY Numbers DEF GpuInv, IInv, TypeOK, Threads, At, Goto, tokenVars, nodeVars,
       callVars, ringVars, ownVars, Common, Park, LeavePump
  <1>2. /\ \A s \in Sequences1 : s \in Nat
        /\ next \in Nat /\ Threads = {"host", "worker"}
    BY Ranges, Numbers DEF GpuInv
  <1>3. Elements(tasks') = Elements(tasks) /\ OnNative' = OnNative /\ OnWorker' = OnWorker
    BY <1>1, <1>2 DEF Elements, OnNative, OnWorker
  <1>4. OwnTypeOK'
    BY <1>1, <1>2, <1>3 DEF GpuInv, GInv, OwnTypeOK
  <1>5. AcquiredOK'
    BY <1>1, <1>2, <1>3 DEF GpuInv, GInv, AcquiredOK, Holding
  <1>6. LaunchedOK'
    BY <1>1, <1>2, <1>3 DEF GpuInv, GInv, LaunchedOK, OnNative
  <1>7. FreshOK'
    BY <1>1, <1>2, <1>3 DEF GpuInv, GInv, FreshOK, OnWorker, Early, Unpublished
  <1>8. LastTaskOK'
    BY <1>1, <1>2, <1>3 DEF GpuInv, GInv, LastTaskOK
  <1>9. PartitionOK'
    BY <1>1, <1>2, <1>3 DEF GpuInv, GInv, PartitionOK
  <1>10. InvalidOK'
    BY <1>1, <1>2, <1>3 DEF GpuInv, GInv, InvalidOK, Late
  <1>11. OutcomeOK'
    BY <1>1, <1>2, <1>3 DEF GpuInv, GInv, OutcomeOK, Waitable, Late, Unpublished
  <1> QED
    BY <1>4, <1>5, <1>6, <1>7, <1>8, <1>9, <1>10, <1>11 DEF GInv

(* Publishing the node keeps it.                                            *)
LEMMA PublishG ==
    ASSUME GpuInv, Common(Publish)
    PROVE  GInv'
  <1>1. /\ pc["host"] = "publish" /\ pc'["host"] = "enter"
        /\ UNCHANGED <<cur, tasks>>
        /\ pc'["worker"] = pc["worker"] /\ fault'["worker"] = fault["worker"]
        /\ nodes' = nodes \cup {mine}
        /\ UNCHANGED <<next, skipped, failures, mine>>
        /\ UNCHANGED <<stage, native, disposition, result>>
        /\ UNCHANGED <<retained, invalid, waitFence, syncErrors, partition>>
    BY Numbers DEF GpuInv, IInv, TypeOK, Threads, At, Goto, tokenVars, nodeVars,
       callVars, ringVars, ownVars, Common, Publish
  <1>2. /\ \A s \in Sequences1 : s \in Nat
        /\ next \in Nat /\ Threads = {"host", "worker"}
    BY Ranges, Numbers DEF GpuInv
  <1>3. Elements(tasks') = Elements(tasks) /\ OnNative' = OnNative /\ OnWorker' = OnWorker
    BY <1>1, <1>2 DEF Elements, OnNative, OnWorker
  <1>4. OwnTypeOK'
    BY <1>1, <1>2, <1>3 DEF GpuInv, GInv, OwnTypeOK
  <1>5. AcquiredOK'
    BY <1>1, <1>2, <1>3 DEF GpuInv, GInv, AcquiredOK, Holding
  <1>6. LaunchedOK'
    BY <1>1, <1>2, <1>3 DEF GpuInv, GInv, LaunchedOK, OnNative
  <1>7. FreshOK'
    BY <1>1, <1>2, <1>3 DEF GpuInv, GInv, FreshOK, OnWorker, Early, Unpublished
  <1>8. LastTaskOK'
    BY <1>1, <1>2, <1>3 DEF GpuInv, GInv, LastTaskOK
  <1>9. PartitionOK'
    BY <1>1, <1>2, <1>3 DEF GpuInv, GInv, PartitionOK
  <1>10. InvalidOK'
    BY <1>1, <1>2, <1>3 DEF GpuInv, GInv, InvalidOK, Late
  <1>11. OutcomeOK'
    BY <1>1, <1>2, <1>3 DEF GpuInv, GInv, OutcomeOK, Waitable, Late, Unpublished
  <1> QED
    BY <1>4, <1>5, <1>6, <1>7, <1>8, <1>9, <1>10, <1>11 DEF GInv

(* Giving a number back keeps it.                                           *)
LEMMA UnwindG ==
    ASSUME GpuInv, Common(Unwind)
    PROVE  GInv'
  <1>1. /\ pc["host"] = "unwind" /\ pc'["host"] = "idle"
        /\ UNCHANGED <<cur, tasks>>
        /\ pc'["worker"] = pc["worker"] /\ fault'["worker"] = fault["worker"]
        /\ UNCHANGED nodes
        /\ UNCHANGED <<stage, native, disposition, result>>
        /\ UNCHANGED <<retained, invalid, waitFence, syncErrors, partition>>
    BY Numbers DEF GpuInv, IInv, TypeOK, Threads, At, Goto, tokenVars, nodeVars,
       callVars, ringVars, ownVars, Common, Unwind
  <1>2. /\ \A s \in Sequences1 : s \in Nat
        /\ next \in Nat /\ Threads = {"host", "worker"}
    BY Ranges, Numbers DEF GpuInv
  <1>3. Elements(tasks') = Elements(tasks) /\ OnNative' = OnNative /\ OnWorker' = OnWorker
    BY <1>1, <1>2 DEF Elements, OnNative, OnWorker
  <1>4. next' = mine /\ mine = next - 1 /\ skipped' = skipped /\ failures' = failures
    BY <1>1, AbandonIs DEF GpuInv, Unpublished, Unwind, AbandonRejected, Common
  <1>5. OwnTypeOK'
    BY <1>1, <1>2, <1>3, <1>4 DEF GpuInv, GInv, OwnTypeOK
  <1>6. AcquiredOK'
    BY <1>1, <1>2, <1>3, <1>4 DEF GpuInv, GInv, AcquiredOK, Holding
  <1>7. LaunchedOK'
    BY <1>1, <1>2, <1>3, <1>4 DEF GpuInv, GInv, LaunchedOK, OnNative
  <1>8. FreshOK'
    BY <1>1, <1>2, <1>3, <1>4 DEF GpuInv, GInv, FreshOK, OnWorker, Early, Unpublished
  <1>9. LastTaskOK'
    BY <1>1, <1>2, <1>3, <1>4 DEF GpuInv, GInv, LastTaskOK
  <1>10. PartitionOK'
    BY <1>1, <1>2, <1>3, <1>4 DEF GpuInv, GInv, PartitionOK
  <1>11. InvalidOK'
    BY <1>1, <1>2, <1>3, <1>4 DEF GpuInv, GInv, InvalidOK, Late
  <1>12. OutcomeOK'
    BY <1>1, <1>2, <1>3, <1>4 DEF GpuInv, GInv, OutcomeOK, Waitable, Late, Unpublished
  <1> QED
    BY <1>5, <1>6, <1>7, <1>8, <1>9, <1>10, <1>11, <1>12 DEF GInv

(* Giving a rejected submission's number back keeps it.                     *)
LEMMA AbandonG ==
    ASSUME GpuInv, Common(AbandonRejected)
    PROVE  GInv'
  <1>1. /\ pc["host"] = "abandon" /\ pc'["host"] = "take"
        /\ UNCHANGED <<cur, tasks>>
        /\ pc'["worker"] = pc["worker"] /\ fault'["worker"] = fault["worker"]
        /\ UNCHANGED nodes
        /\ UNCHANGED <<stage, native, disposition, result>>
        /\ UNCHANGED <<retained, invalid, waitFence, syncErrors, partition>>
    BY Numbers DEF GpuInv, IInv, TypeOK, Threads, At, Goto, tokenVars, nodeVars,
       callVars, ringVars, ownVars, Common, AbandonRejected
  <1>2. /\ \A s \in Sequences1 : s \in Nat
        /\ next \in Nat /\ Threads = {"host", "worker"}
    BY Ranges, Numbers DEF GpuInv
  <1>3. Elements(tasks') = Elements(tasks) /\ OnNative' = OnNative /\ OnWorker' = OnWorker
    BY <1>1, <1>2 DEF Elements, OnNative, OnWorker
  <1>4. next' = mine /\ mine = next - 1 /\ skipped' = skipped /\ failures' = failures
    BY <1>1, AbandonIs DEF GpuInv, Unpublished, Unwind, AbandonRejected, Common
  <1>5. OwnTypeOK'
    BY <1>1, <1>2, <1>3, <1>4 DEF GpuInv, GInv, OwnTypeOK
  <1>6. AcquiredOK'
    BY <1>1, <1>2, <1>3, <1>4 DEF GpuInv, GInv, AcquiredOK, Holding
  <1>7. LaunchedOK'
    BY <1>1, <1>2, <1>3, <1>4 DEF GpuInv, GInv, LaunchedOK, OnNative
  <1>8. FreshOK'
    BY <1>1, <1>2, <1>3, <1>4 DEF GpuInv, GInv, FreshOK, OnWorker, Early, Unpublished
  <1>9. LastTaskOK'
    BY <1>1, <1>2, <1>3, <1>4 DEF GpuInv, GInv, LastTaskOK
  <1>10. PartitionOK'
    BY <1>1, <1>2, <1>3, <1>4 DEF GpuInv, GInv, PartitionOK
  <1>11. InvalidOK'
    BY <1>1, <1>2, <1>3, <1>4 DEF GpuInv, GInv, InvalidOK, Late
  <1>12. OutcomeOK'
    BY <1>1, <1>2, <1>3, <1>4 DEF GpuInv, GInv, OutcomeOK, Waitable, Late, Unpublished
  <1> QED
    BY <1>5, <1>6, <1>7, <1>8, <1>9, <1>10, <1>11, <1>12 DEF GInv

(* The worker's exit keeps it.                                              *)
LEMMA JoinG ==
    ASSUME GpuInv, Join
    PROVE  GInv'
  <1>1. /\ pc["host"] = "joining" /\ pc'["host"] = "close"
        /\ pc["worker"] = "idle" /\ pc'["worker"] = "exited"
        /\ LastTask = {}
        /\ UNCHANGED <<next, skipped, failures, nodes, tasks, fault, mine, cur>>
        /\ UNCHANGED <<stage, native, disposition, result>>
        /\ UNCHANGED <<retained, invalid, waitFence, syncErrors, partition>>
    BY Numbers DEF GpuInv, IInv, TypeOK, Threads, At, Goto, tokenVars, nodeVars,
       callVars, ringVars, ownVars, Common, Join, JoinWorker
  <1>2. /\ \A s \in Sequences1 : s \in Nat
        /\ next \in Nat /\ Threads = {"host", "worker"}
    BY Ranges, Numbers DEF GpuInv
  <1>3. Elements(tasks') = Elements(tasks) /\ OnNative' = OnNative /\ OnWorker' = OnWorker
    BY <1>1, <1>2 DEF Elements, OnNative, OnWorker
  <1>4. OwnTypeOK'
    BY <1>1, <1>2, <1>3 DEF GpuInv, GInv, OwnTypeOK
  <1>5. AcquiredOK'
    BY <1>1, <1>2, <1>3 DEF GpuInv, GInv, AcquiredOK, Holding
  <1>6. LaunchedOK'
    BY <1>1, <1>2, <1>3 DEF GpuInv, GInv, LaunchedOK, OnNative
  <1>7. FreshOK'
    BY <1>1, <1>2, <1>3 DEF GpuInv, GInv, FreshOK, OnWorker, Early, Unpublished
  <1>8. LastTaskOK'
    BY <1>1, <1>2, <1>3 DEF GpuInv, GInv, LastTaskOK, LastTask
  <1>9. PartitionOK'
    BY <1>1, <1>2, <1>3 DEF GpuInv, GInv, PartitionOK
  <1>10. InvalidOK'
    BY <1>1, <1>2, <1>3 DEF GpuInv, GInv, InvalidOK, Late
  <1>11. OutcomeOK'
    BY <1>1, <1>2, <1>3 DEF GpuInv, GInv, OutcomeOK, Waitable, Late, Unpublished
  <1> QED
    BY <1>4, <1>5, <1>6, <1>7, <1>8, <1>9, <1>10, <1>11 DEF GInv

(* complete() of a finished task keeps it.                                  *)
LEMMA WorkerCompleteG ==
    ASSUME GpuInv, Common(WorkerComplete)
    PROVE  GInv'
  <1>1. /\ pc["worker"] = "complete" /\ pc'["worker"] \in {"idle", "enter"}
        /\ pc'["host"] = pc["host"]
        /\ Complete(cur["worker"], fault["worker"])
        /\ UNCHANGED <<tasks, fault, mine, cur>>
        /\ UNCHANGED <<stage, native, disposition, result>>
        /\ UNCHANGED <<retained, invalid, waitFence, syncErrors, partition>>
    BY Numbers DEF GpuInv, IInv, TypeOK, Threads, At, Goto, tokenVars, nodeVars,
       callVars, ringVars, ownVars, Common, WorkerComplete
  <1>2. /\ \A s \in Sequences1 : s \in Nat
        /\ next \in Nat /\ Threads = {"host", "worker"}
    BY Ranges, Numbers DEF GpuInv
  <1>3. /\ Elements(tasks') = Elements(tasks) /\ OnNative' = OnNative /\ OnNative = {}
        /\ OnWorker' = {} /\ OnWorker = {cur["worker"]}
    BY <1>1, <1>2 DEF Elements, OnNative, OnWorker
  <1>4. /\ cur["worker"] \in nodes /\ nodes' = nodes \ {cur["worker"]}
        /\ next' = next /\ skipped' = skipped
        /\ failures \subseteq failures'
        /\ fault["worker"] => cur["worker"] \in failures'
    BY <1>1, CompleteIs, Ranges DEF GpuInv, Complete
  <1>5. OwnTypeOK'
    BY <1>1, <1>2, <1>3, <1>4 DEF GpuInv, GInv, OwnTypeOK
  <1>6. AcquiredOK'
    BY <1>1, <1>2, <1>3, <1>4 DEF GpuInv, GInv, AcquiredOK, Holding
  <1>7. LaunchedOK'
    BY <1>1, <1>2, <1>3, <1>4 DEF GpuInv, GInv, LaunchedOK, OnNative
  <1>8. FreshOK'
    BY <1>1, <1>2, <1>3, <1>4 DEF GpuInv, GInv, FreshOK, OnWorker, Early, Unpublished
  <1>9. LastTaskOK'
    BY <1>1, <1>2, <1>3, <1>4 DEF GpuInv, GInv, LastTaskOK
  <1>10. PartitionOK'
    BY <1>1, <1>2, <1>3, <1>4 DEF GpuInv, GInv, PartitionOK
  <1>11. InvalidOK'
    BY <1>1, <1>2, <1>3, <1>4 DEF GpuInv, GInv, InvalidOK, Late
  <1>12. OutcomeOK'
    BY <1>1, <1>2, <1>3, <1>4 DEF GpuInv, GInv, OutcomeOK, LaunchedOK, Waitable, Late,
       Unpublished
  <1> QED
    BY <1>5, <1>6, <1>7, <1>8, <1>9, <1>10, <1>11, <1>12 DEF GInv

(* Taking an event and a slot keeps it.                                     *)
LEMMA AcquireG ==
    ASSUME GpuInv, NEW t \in Threads, Acquire(t)
    PROVE  GInv'
  <1>1. /\ pc[t] = "dispatch" /\ stage[cur[t]] = "new"
        /\ stage' = [stage EXCEPT ![cur[t]] = "acquired"]
        /\ UNCHANGED <<next, skipped, failures, nodes, tasks, pc, cur, fault, mine>>
        /\ UNCHANGED <<native, disposition, result>>
        /\ UNCHANGED <<retained, invalid, waitFence, syncErrors, partition>>
    BY DEF Acquire, At, vars, ownVars, Ring!TryAcquire
  <1>2. /\ \A s \in Sequences1 : s \in Nat
        /\ next \in Nat /\ Threads = {"host", "worker"}
    BY Ranges, Numbers DEF GpuInv
  <1>3. Elements(tasks') = Elements(tasks) /\ OnNative' = OnNative /\ OnWorker' = OnWorker
    BY <1>1, <1>2 DEF Elements, OnNative, OnWorker
  <1>4. /\ \A u \in Threads : u # t => pc[u] \notin Holding
        /\ cur[t] \in Sequences1 /\ cur[t] \in nodes /\ cur[t] \notin OnWorker
        /\ cur[t] \notin Elements(tasks) /\ cur[t] < next
        /\ pc["host"] \in Unpublished => cur[t] # mine
    BY <1>1, LonePump, Ranges DEF GpuInv, IInv, OrderOK, CallOK, Holding, PumpLabels
  <1>5. /\ stage \in [Sequences1 -> {"new", "acquired", "executed", "completed", "destroyed",
                                  "retired", "gone"}]
        /\ \A s \in Sequences1 : stage[s] \in Early =>
              native[s] = "none" /\ disposition[s] = "pending"
    BY RingView DEF GpuInv
  <1>6. OwnTypeOK'
    BY <1>1, <1>2, <1>3, <1>4, <1>5 DEF GpuInv, GInv, OwnTypeOK, Early
  <1>7. AcquiredOK'
    BY <1>1, <1>2, <1>3, <1>4, <1>5 DEF GpuInv, GInv, AcquiredOK, Holding, Early
  <1>8. LaunchedOK'
    BY <1>1, <1>2, <1>3, <1>4, <1>5 DEF GpuInv, GInv, LaunchedOK, OnNative, Early
  <1>9. FreshOK'
    BY <1>1, <1>2, <1>3, <1>4, <1>5 DEF GpuInv, GInv, FreshOK, OnWorker, Early,
       Unpublished, Early
  <1>10. LastTaskOK'
    BY <1>1, <1>2, <1>3, <1>4, <1>5 DEF GpuInv, GInv, LastTaskOK, Early
  <1>11. PartitionOK'
    BY <1>1, <1>2, <1>3, <1>4, <1>5 DEF GpuInv, GInv, PartitionOK, Early
  <1>12. InvalidOK'
    BY <1>1, <1>2, <1>3, <1>4, <1>5 DEF GpuInv, GInv, InvalidOK, Late, Early
  <1>13. OutcomeOK'
    BY <1>1, <1>2, <1>3, <1>4, <1>5 DEF GpuInv, GInv, OutcomeOK, Waitable, Late,
       Unpublished, Early
  <1> QED
    BY <1>6, <1>7, <1>8, <1>9, <1>10, <1>11, <1>12, <1>13 DEF GInv

(* An execute() that launches nothing keeps it.                             *)
LEMMA LaunchNothingG ==
    ASSUME GpuInv, NEW t \in Threads, LaunchNothing(t)
    PROVE  GInv'
  <1>1. /\ pc[t] = "dispatch" /\ pc'[t] = "take" /\ stage[cur[t]] = "acquired"
        /\ \A u \in Threads : u # t => pc'[u] = pc[u]
        /\ stage' = [stage EXCEPT ![cur[t]] = "executed"]
        /\ tasks' = Append(tasks, cur[t]) /\ tasks \in Seq(Sequences1)
        /\ UNCHANGED <<next, skipped, failures, nodes, cur, fault, mine>>
        /\ UNCHANGED <<result, invalid, waitFence, partition>>
    BY DEF GpuInv, IInv, TypeOK, At, Goto, LaunchNothing, DispatchAccept, tokenVars,
       nodeVars, Ring!ExecuteNothing, Ring!ExecuteNative
  <1>2. /\ \A s \in Sequences1 : s \in Nat
        /\ next \in Nat /\ Threads = {"host", "worker"}
    BY Ranges, Numbers DEF GpuInv
  <1>3. /\ \A u \in Threads : u # t => pc[u] \notin Holding
        /\ cur[t] \in Sequences1 /\ cur[t] \in nodes /\ cur[t] \notin OnWorker
        /\ cur[t] \notin Elements(tasks) /\ cur[t] < next
        /\ pc["host"] \in Unpublished => cur[t] # mine
    BY <1>1, LonePump, Ranges DEF GpuInv, IInv, OrderOK, CallOK, Holding, PumpLabels
  <1>4. /\ Elements(tasks') = Elements(tasks) \cup {cur[t]}
        /\ OnNative' = OnNative /\ OnWorker' = OnWorker
    BY <1>1, <1>2, <1>3, AppendLemma DEF OnNative, OnWorker
  <1>5. /\ stage \in [Sequences1 -> {"new", "acquired", "executed", "completed", "destroyed",
                                  "retired", "gone"}]
        /\ \A s \in Sequences1 : stage[s] \in Early =>
              native[s] = "none" /\ disposition[s] = "pending"
    BY RingView DEF GpuInv
  <1>6. /\ UNCHANGED <<native, disposition, syncErrors>>
        /\ retained' \in {retained, retained \cup {cur[t]}}
    BY DEF LaunchNothing, Ring!ExecuteNothing
  <1>7. OwnTypeOK'
    BY <1>1, <1>2, <1>3, <1>4, <1>5, <1>6 DEF GpuInv, GInv, OwnTypeOK, Early
  <1>8. AcquiredOK'
    BY <1>1, <1>2, <1>3, <1>4, <1>5, <1>6 DEF GpuInv, GInv, AcquiredOK, Holding, Early
  <1>9. LaunchedOK'
    BY <1>1, <1>2, <1>3, <1>4, <1>5, <1>6 DEF GpuInv, GInv, LaunchedOK, OnNative, Early
  <1>10. FreshOK'
    BY <1>1, <1>2, <1>3, <1>4, <1>5, <1>6 DEF GpuInv, GInv, FreshOK, OnWorker, Early,
       Unpublished, Early
  <1>11. LastTaskOK'
    BY <1>1, <1>2, <1>3, <1>4, <1>5, <1>6 DEF GpuInv, GInv, LastTaskOK, Early
  <1>12. PartitionOK'
    BY <1>1, <1>2, <1>3, <1>4, <1>5, <1>6 DEF GpuInv, GInv, PartitionOK, Early
  <1>13. InvalidOK'
    BY <1>1, <1>2, <1>3, <1>4, <1>5, <1>6 DEF GpuInv, GInv, InvalidOK, Late, Early
  <1>14. OutcomeOK'
    BY <1>1, <1>2, <1>3, <1>4, <1>5, <1>6 DEF GpuInv, GInv, OutcomeOK, Waitable, Late,
       Unpublished, Early
  <1> QED
    BY <1>7, <1>8, <1>9, <1>10, <1>11, <1>12, <1>13, <1>14 DEF GInv

(* A launch keeps it.                                                       *)
LEMMA LaunchNativeG ==
    ASSUME GpuInv, NEW t \in Threads, LaunchNative(t)
    PROVE  GInv'
  <1>1. /\ pc[t] = "dispatch" /\ pc'[t] = "take" /\ stage[cur[t]] = "acquired"
        /\ \A u \in Threads : u # t => pc'[u] = pc[u]
        /\ stage' = [stage EXCEPT ![cur[t]] = "executed"]
        /\ tasks' = Append(tasks, cur[t]) /\ tasks \in Seq(Sequences1)
        /\ UNCHANGED <<next, skipped, failures, nodes, cur, fault, mine>>
        /\ UNCHANGED <<result, invalid, waitFence, partition>>
    BY DEF GpuInv, IInv, TypeOK, At, Goto, LaunchNative, DispatchAccept, tokenVars,
       nodeVars, Ring!ExecuteNothing, Ring!ExecuteNative
  <1>2. /\ \A s \in Sequences1 : s \in Nat
        /\ next \in Nat /\ Threads = {"host", "worker"}
    BY Ranges, Numbers DEF GpuInv
  <1>3. /\ \A u \in Threads : u # t => pc[u] \notin Holding
        /\ cur[t] \in Sequences1 /\ cur[t] \in nodes /\ cur[t] \notin OnWorker
        /\ cur[t] \notin Elements(tasks) /\ cur[t] < next
        /\ pc["host"] \in Unpublished => cur[t] # mine
    BY <1>1, LonePump, Ranges DEF GpuInv, IInv, OrderOK, CallOK, Holding, PumpLabels
  <1>4. /\ Elements(tasks') = Elements(tasks) \cup {cur[t]}
        /\ OnNative' = OnNative /\ OnWorker' = OnWorker
    BY <1>1, <1>2, <1>3, AppendLemma DEF OnNative, OnWorker
  <1>5. /\ stage \in [Sequences1 -> {"new", "acquired", "executed", "completed", "destroyed",
                                  "retired", "gone"}]
        /\ disposition \in [Sequences1 -> {"pending", "complete", "unknown"}]
        /\ result \in [Sequences1 -> {"pending", "success", "failed"}]
        /\ native \in [Sequences1 -> {"none", "running", "done"}]
        /\ \A s \in Sequences1 : stage[s] \in Early =>
              native[s] = "none" /\ disposition[s] = "pending"
        /\ \A s \in Sequences1 : disposition[s] = "complete" => native[s] # "running"
        /\ \A s \in Sequences1 : stage[s] \in {"destroyed"} \cup Late =>
              disposition[s] # "pending"
    BY RingView DEF GpuInv
  <1>6. pc["host"] # "destroyed"
    BY <1>1, <1>2 DEF GpuInv, IInv, CloseOK, At
  <1>7. /\ retained' \in {retained, retained \cup {cur[t]}}
        /\ syncErrors' \in 0 .. MaxSyncErrors
    BY GpuQueueAssumption DEF GpuInv, GInv, OwnTypeOK, LaunchNative, SyncFails
  <1>8. \A s \in Sequences1 : s # cur[t] =>
            /\ disposition'[s] = disposition[s]
            /\ native'[s] = "running" => native[s] = "running"
    BY <1>3, <1>5 DEF LaunchNative, Ring!ExecuteNative, Ring!RetireUnknown
  <1>9. disposition'[cur[t]] = "unknown" => cur[t] \in retained'
    BY <1>1, <1>3, <1>5 DEF LaunchNative, Ring!ExecuteNative, Ring!RetireUnknown, Early
  <1>10. OwnTypeOK'
    BY <1>1, <1>2, <1>3, <1>4, <1>5, <1>6, <1>7, <1>8, <1>9 DEF GpuInv, GInv, OwnTypeOK,
       Early
  <1>11. AcquiredOK'
    BY <1>1, <1>2, <1>3, <1>4, <1>5, <1>6, <1>7, <1>8, <1>9 DEF GpuInv, GInv,
       AcquiredOK, Holding, Early
  <1>12. LaunchedOK'
    BY <1>1, <1>2, <1>3, <1>4, <1>5, <1>6, <1>7, <1>8, <1>9 DEF GpuInv, GInv,
       LaunchedOK, OnNative, Early
  <1>13. FreshOK'
    BY <1>1, <1>2, <1>3, <1>4, <1>5, <1>6, <1>7, <1>8, <1>9 DEF GpuInv, GInv, FreshOK,
       OnWorker, Early, Unpublished, Early
  <1>14. LastTaskOK'
    BY <1>1, <1>2, <1>3, <1>4, <1>5, <1>6, <1>7, <1>8, <1>9 DEF GpuInv, GInv,
       LastTaskOK, Early
  <1>15. PartitionOK'
    BY <1>1, <1>2, <1>3, <1>4, <1>5, <1>6, <1>7, <1>8, <1>9 DEF GpuInv, GInv,
       PartitionOK, Early
  <1>16. InvalidOK'
    BY <1>1, <1>2, <1>3, <1>4, <1>5, <1>6, <1>7, <1>8, <1>9 DEF GpuInv, GInv, InvalidOK,
       Late, Early
  <1>17. OutcomeOK'
    <2>1. \A s \in Sequences1 : disposition'[s] = "unknown" =>
              result'[s] = "failed" \/ s \in retained'
      BY <1>1, <1>2, <1>3, <1>4, <1>5, <1>6, <1>7, <1>8, <1>9 DEF GpuInv, GInv,
         OutcomeOK
    <2>2. pc'["worker"] = "complete" /\ ~fault'["worker"] =>
              disposition'[cur'["worker"]] = "complete"
      BY <1>1, <1>2, <1>3, <1>4, <1>5, <1>6, <1>7, <1>8, <1>9, Numbers DEF GpuInv, GInv,
         OutcomeOK, OnWorker
    <2>3. ASSUME NEW s \in Waitable', s \notin nodes',
                 ~(pc'["host"] \in Unpublished /\ s = mine')
          PROVE  s \in failures' \/ (stage'[s] \in Late /\ disposition'[s] = "complete")
      <3>1. s \in Waitable /\ s \in Sequences1 /\ s \notin nodes
        BY <1>1, <1>2, <1>3, <1>4, <1>5, <1>6, <1>7, <1>8, <1>9, <2>3, Ranges DEF
           GpuInv, Waitable, Sequences1
      <3>2. ~(pc["host"] \in Unpublished /\ s = mine)
        BY <1>1, <1>2, <1>3, <1>4, <1>5, <1>6, <1>7, <1>8, <1>9, <2>3 DEF Unpublished
      <3> QED
        BY <1>1, <1>2, <1>3, <1>4, <1>5, <1>6, <1>7, <1>8, <1>9, <3>1, <3>2 DEF GpuInv,
           GInv, OutcomeOK
    <2> QED
      BY <2>1, <2>2, <2>3 DEF OutcomeOK
  <1> QED
    BY <1>10, <1>11, <1>12, <1>13, <1>14, <1>15, <1>16, <1>17 DEF GInv

(* A dispatch that throws for a submission with a token keeps it.           *)
LEMMA FailsG ==
    ASSUME GpuInv, NEW t \in Threads, Fails(t)
    PROVE  GInv'
  <1>1. /\ pc[t] = "dispatch" /\ pc'[t] = "take"
        /\ \A u \in Threads : u # t => pc'[u] = pc[u]
        /\ Complete(cur[t], TRUE) /\ ReturnResources(cur[t])
        /\ UNCHANGED <<tasks, cur, fault, mine>>
        /\ invalid' = invalid \ {cur[t]}
        /\ UNCHANGED <<retained, waitFence, syncErrors, partition>>
    BY Numbers DEF GpuInv, IInv, TypeOK, At, Goto, Fails, RolledBack, DispatchFails,
       tokenVars, nodeVars, callVars
  <1>2. /\ \A s \in Sequences1 : s \in Nat
        /\ next \in Nat /\ Threads = {"host", "worker"}
    BY Ranges, Numbers DEF GpuInv
  <1>3. /\ \A u \in Threads : u # t => pc[u] \notin Holding
        /\ cur[t] \in Sequences1 /\ cur[t] \in nodes /\ cur[t] \notin OnWorker
        /\ cur[t] \notin Elements(tasks) /\ cur[t] < next
        /\ pc["host"] \in Unpublished => cur[t] # mine
    BY <1>1, LonePump, Ranges DEF GpuInv, IInv, OrderOK, CallOK, Holding, PumpLabels
  <1>4. Elements(tasks') = Elements(tasks) /\ OnNative' = OnNative /\ OnWorker' = OnWorker
    BY <1>1, <1>2 DEF Elements, OnNative, OnWorker
  <1>5. /\ stage \in [Sequences1 -> {"new", "acquired", "executed", "completed", "destroyed",
                                  "retired", "gone"}]
        /\ \A s \in Sequences1 : stage[s] \in Early =>
              native[s] = "none" /\ disposition[s] = "pending"
    BY RingView DEF GpuInv
  <1>6. /\ nodes' = nodes \ {cur[t]} /\ next' = next /\ skipped' = skipped
        /\ failures' = failures \cup {cur[t]}
    BY <1>1, <1>3, CompleteIs DEF GpuInv, Complete
  <1>7. /\ stage[cur[t]] \in Early /\ UNCHANGED <<native, disposition, result>>
        /\ stage' = [stage EXCEPT ![cur[t]] = "new"]
    BY <1>1, <1>3, <1>5 DEF ReturnResources, Ring!Drop, ringVars, Early
  <1>8. OwnTypeOK'
    BY <1>1, <1>2, <1>3, <1>4, <1>5, <1>6, <1>7 DEF GpuInv, GInv, OwnTypeOK, Early
  <1>9. AcquiredOK'
    BY <1>1, <1>2, <1>3, <1>4, <1>5, <1>6, <1>7 DEF GpuInv, GInv, AcquiredOK, Holding,
       Early
  <1>10. LaunchedOK'
    BY <1>1, <1>2, <1>3, <1>4, <1>5, <1>6, <1>7 DEF GpuInv, GInv, LaunchedOK, OnNative,
       Early
  <1>11. FreshOK'
    BY <1>1, <1>2, <1>3, <1>4, <1>5, <1>6, <1>7 DEF GpuInv, GInv, FreshOK, OnWorker,
       Early, Unpublished, Early
  <1>12. LastTaskOK'
    BY <1>1, <1>2, <1>3, <1>4, <1>5, <1>6, <1>7 DEF GpuInv, GInv, LastTaskOK, Early
  <1>13. PartitionOK'
    BY <1>1, <1>2, <1>3, <1>4, <1>5, <1>6, <1>7 DEF GpuInv, GInv, PartitionOK, Early
  <1>14. InvalidOK'
    BY <1>1, <1>2, <1>3, <1>4, <1>5, <1>6, <1>7 DEF GpuInv, GInv, InvalidOK, Late, Early
  <1>15. OutcomeOK'
    BY <1>1, <1>2, <1>3, <1>4, <1>5, <1>6, <1>7 DEF GpuInv, GInv, OutcomeOK, Waitable,
       Late, Unpublished, Early
  <1> QED
    BY <1>8, <1>9, <1>10, <1>11, <1>12, <1>13, <1>14, <1>15 DEF GInv

(* The submitter's own dispatch that throws keeps it.                       *)
LEMMA RejectedG ==
    ASSUME GpuInv, Rejected
    PROVE  GInv'
  <1>1. /\ pc["host"] = "dispatch" /\ pc'["host"] = "abandon" /\ cur["host"] = mine
        /\ pc'["worker"] = pc["worker"] /\ nodes' = nodes \ {mine}
        /\ UNCHANGED <<next, skipped, failures, tasks, cur, fault, mine>>
        /\ UNCHANGED <<retained, invalid, waitFence, syncErrors, partition>>
    BY DEF GpuInv, IInv, TypeOK, Threads, At, Goto, Rejected, Common, DispatchRejected,
       EraseNode, tokenVars, callVars, ownVars
  <1>2. /\ \A s \in Sequences1 : s \in Nat
        /\ next \in Nat /\ Threads = {"host", "worker"}
    BY Ranges, Numbers DEF GpuInv
  <1>3. Elements(tasks') = Elements(tasks) /\ OnNative' = OnNative /\ OnWorker' = OnWorker
    BY <1>1, <1>2 DEF Elements, OnNative, OnWorker
  <1>4. /\ mine \in Sequences1 /\ mine \in nodes /\ mine \notin OnWorker
        /\ mine \notin Elements(tasks) /\ pc["worker"] \notin Holding
    BY <1>1, <1>2, LonePump, Ranges DEF GpuInv, Holding, PumpLabels
  <1>5. /\ stage \in [Sequences1 -> {"new", "acquired", "executed", "completed", "destroyed",
                                  "retired", "gone"}]
        /\ \A s \in Sequences1 : stage[s] \in Early =>
              native[s] = "none" /\ disposition[s] = "pending"
    BY RingView DEF GpuInv
  <1>6. /\ stage[mine] \in Early /\ UNCHANGED <<native, disposition, result>>
        /\ stage' = [stage EXCEPT ![mine] = "new"]
    BY <1>4, <1>5 DEF Rejected, Common, Ring!Drop, ringVars, Early
  <1>7. OwnTypeOK'
    BY <1>1, <1>2, <1>3, <1>4, <1>5, <1>6 DEF GpuInv, GInv, OwnTypeOK, Early
  <1>8. AcquiredOK'
    BY <1>1, <1>2, <1>3, <1>4, <1>5, <1>6 DEF GpuInv, GInv, AcquiredOK, Holding, Early
  <1>9. LaunchedOK'
    BY <1>1, <1>2, <1>3, <1>4, <1>5, <1>6 DEF GpuInv, GInv, LaunchedOK, OnNative, Early
  <1>10. FreshOK'
    BY <1>1, <1>2, <1>3, <1>4, <1>5, <1>6 DEF GpuInv, GInv, FreshOK, OnWorker, Early,
       Unpublished, Early
  <1>11. LastTaskOK'
    BY <1>1, <1>2, <1>3, <1>4, <1>5, <1>6 DEF GpuInv, GInv, LastTaskOK, Early
  <1>12. PartitionOK'
    BY <1>1, <1>2, <1>3, <1>4, <1>5, <1>6 DEF GpuInv, GInv, PartitionOK, Early
  <1>13. InvalidOK'
    BY <1>1, <1>2, <1>3, <1>4, <1>5, <1>6 DEF GpuInv, GInv, InvalidOK, Late, Early
  <1>14. OutcomeOK'
    BY <1>1, <1>2, <1>3, <1>4, <1>5, <1>6 DEF GpuInv, GInv, OutcomeOK, Waitable, Late,
       Unpublished, Early
  <1> QED
    BY <1>7, <1>8, <1>9, <1>10, <1>11, <1>12, <1>13, <1>14 DEF GInv

(* Draining a parked submission keeps it.                                   *)
LEMMA DrainParkedG ==
    ASSUME GpuInv, DrainParked
    PROVE  GInv'
  <1>1. /\ UNCHANGED <<tasks, pc, cur, fault, mine>>
        /\ UNCHANGED <<retained, waitFence, syncErrors, partition>>
        /\ UNCHANGED <<stage, native, disposition, result>>
        /\ invalid' = invalid \ (live \ live')
    BY DEF DrainParked, DrainOne, ringVars
  <1>2. /\ \A s \in Sequences1 : s \in Nat
        /\ next \in Nat /\ Threads = {"host", "worker"}
    BY Ranges, Numbers DEF GpuInv
  <1>3. Elements(tasks') = Elements(tasks) /\ OnNative' = OnNative /\ OnWorker' = OnWorker
    BY <1>1, <1>2 DEF Elements, OnNative, OnWorker
  <1>4. \/ UNCHANGED <<nodes, next, skipped, failures, live>>
        \/ \E s \in Parked : Complete(s, TRUE) /\ live' = live \ {s}
    BY DEF DrainParked, DrainOne, tokenVars, nodeVars
  <1>5. /\ next' = next /\ skipped' = skipped /\ nodes' \subseteq nodes
        /\ failures \subseteq failures' /\ nodes \ nodes' \subseteq failures'
        /\ live' \subseteq live
        /\ live \ live' \subseteq Parked
    BY <1>4, CompleteIs DEF GpuInv, Complete, Parked
  <1>6. /\ stage \in [Sequences1 -> {"new", "acquired", "executed", "completed", "destroyed",
                                  "retired", "gone"}]
        /\ \A s \in Sequences1 : stage[s] \in Early =>
              native[s] = "none" /\ disposition[s] = "pending"
    BY RingView DEF GpuInv
  <1>7. \A s \in Parked : s \in Sequences1 => stage[s] \in Early
    BY Ranges DEF GpuInv, GInv, IInv, WorkOK, FreshOK, Parked
  <1>8. OwnTypeOK'
    BY <1>1, <1>2, <1>3, <1>4, <1>5, <1>6, <1>7 DEF GpuInv, GInv, OwnTypeOK
  <1>9. AcquiredOK'
    BY <1>1, <1>2, <1>3, <1>4, <1>5, <1>6, <1>7 DEF GpuInv, GInv, AcquiredOK, Holding
  <1>10. LaunchedOK'
    BY <1>1, <1>2, <1>3, <1>4, <1>5, <1>6, <1>7 DEF GpuInv, GInv, LaunchedOK, OnNative
  <1>11. FreshOK'
    BY <1>1, <1>2, <1>3, <1>4, <1>5, <1>6, <1>7 DEF GpuInv, GInv, FreshOK, OnWorker,
       Early, Unpublished
  <1>12. LastTaskOK'
    BY <1>1, <1>2, <1>3, <1>4, <1>5, <1>6, <1>7 DEF GpuInv, GInv, LastTaskOK
  <1>13. PartitionOK'
    BY <1>1, <1>2, <1>3, <1>4, <1>5, <1>6, <1>7 DEF GpuInv, GInv, PartitionOK
  <1>14. InvalidOK'
    BY <1>1, <1>2, <1>3, <1>4, <1>5, <1>6, <1>7 DEF GpuInv, GInv, InvalidOK, Late, Early
  <1>15. OutcomeOK'
    BY <1>1, <1>2, <1>3, <1>4, <1>5, <1>6, <1>7 DEF GpuInv, GInv, OutcomeOK, Waitable,
       Late, Unpublished
  <1> QED
    BY <1>8, <1>9, <1>10, <1>11, <1>12, <1>13, <1>14, <1>15 DEF GInv

(* The worker's next task keeps it.                                         *)
LEMMA PopG ==
    ASSUME GpuInv, Pop
    PROVE  GInv'
  <1>1. /\ pc["worker"] = "idle" /\ pc'["worker"] = "native" /\ pc'["host"] = pc["host"]
        /\ cur'["worker"] = Head(tasks) /\ cur'["host"] = cur["host"] /\ tasks' = Tail(tasks)
        /\ LastTask = {} /\ waitFence' = ~shutdown
        /\ UNCHANGED <<next, skipped, failures, nodes, fault, mine>>
        /\ UNCHANGED <<stage, native, disposition, result>>
        /\ UNCHANGED <<retained, invalid, syncErrors, partition>>
    BY DEF GpuInv, IInv, TypeOK, Threads, At, Goto, Pop, WorkerPop, tokenVars, nodeVars,
       ringVars
  <1>2. /\ \A s \in Sequences1 : s \in Nat
        /\ next \in Nat /\ Threads = {"host", "worker"}
    BY Ranges, Numbers DEF GpuInv
  <1>3. /\ Elements(tasks) = Elements(tasks') \cup {Head(tasks)} /\ Head(tasks) \in Sequences1
        /\ OnNative = {} /\ OnNative' = {Head(tasks)}
        /\ OnWorker = {} /\ OnWorker' = {Head(tasks)}
    BY <1>1, TailLemma DEF GpuInv, IInv, TypeOK, WorkOK, Pop, WorkerPop, OnNative,
       OnWorker
  <1>4. OwnTypeOK'
    BY <1>1, <1>2, <1>3 DEF GpuInv, IInv, TypeOK, GInv, OwnTypeOK
  <1>5. AcquiredOK'
    BY <1>1, <1>2, <1>3 DEF GpuInv, GInv, AcquiredOK, Holding
  <1>6. LaunchedOK'
    BY <1>1, <1>2, <1>3 DEF GpuInv, GInv, LaunchedOK, OnNative
  <1>7. FreshOK'
    BY <1>1, <1>2, <1>3 DEF GpuInv, GInv, FreshOK, OnWorker, Early, Unpublished
  <1>8. LastTaskOK'
    BY <1>1, <1>2, <1>3 DEF GpuInv, GInv, LastTaskOK, LastTask
  <1>9. PartitionOK'
    BY <1>1, <1>2, <1>3 DEF GpuInv, GInv, PartitionOK
  <1>10. InvalidOK'
    BY <1>1, <1>2, <1>3 DEF GpuInv, GInv, InvalidOK, Late
  <1>11. OutcomeOK'
    BY <1>1, <1>2, <1>3 DEF GpuInv, GInv, OutcomeOK, Waitable, Late, Unpublished
  <1> QED
    BY <1>4, <1>5, <1>6, <1>7, <1>8, <1>9, <1>10, <1>11 DEF GInv

(* The completion callback keeps it.                                        *)
LEMMA FenceCompleteG ==
    ASSUME GpuInv, FenceComplete
    PROVE  GInv'
  <1>1. /\ pc["worker"] = "native"
        /\ UNCHANGED <<next, skipped, failures, nodes, tasks, pc, cur, fault, mine>>
        /\ UNCHANGED <<native, retained, invalid, waitFence, partition>>
        /\ stage[cur["worker"]] = "executed"
        /\ stage' = [stage EXCEPT ![cur["worker"]] = "completed"]
    BY DEF FenceComplete, At, vars, Ring!OnWorkerComplete
  <1>2. /\ \A s \in Sequences1 : s \in Nat
        /\ next \in Nat /\ Threads = {"host", "worker"}
    BY Ranges, Numbers DEF GpuInv
  <1>3. Elements(tasks') = Elements(tasks) /\ OnNative' = OnNative /\ OnWorker' = OnWorker
    BY <1>1, <1>2 DEF Elements, OnNative, OnWorker
  <1>4. /\ cur["worker"] \in Sequences1 /\ cur["worker"] \in nodes
        /\ cur["worker"] \notin Elements(tasks)
        /\ \A t \in Threads : pc[t] \in Holding => cur[t] # cur["worker"]
        /\ cur["worker"] < next /\ OnNative = {cur["worker"]} /\ OnWorker = {cur["worker"]}
        /\ pc["host"] \in Unpublished => cur["worker"] # mine
    BY <1>1, Ranges, InDispatchIs DEF GpuInv, IInv, WorkOK, OrderOK, CallOK, OnNative,
       OnWorker, Holding, Threads
  <1>5. /\ stage \in [Sequences1 -> {"new", "acquired", "executed", "completed", "destroyed",
                                  "retired", "gone"}]
        /\ disposition \in [Sequences1 -> {"pending", "complete", "unknown"}]
        /\ result \in [Sequences1 -> {"pending", "success", "failed"}]
        /\ native \in [Sequences1 -> {"none", "running", "done"}]
        /\ \A s \in Sequences1 : stage[s] \in Early =>
              native[s] = "none" /\ disposition[s] = "pending"
        /\ \A s \in Sequences1 : disposition[s] = "complete" => native[s] # "running"
        /\ \A s \in Sequences1 : stage[s] \in {"destroyed"} \cup Late =>
              disposition[s] # "pending"
    BY RingView DEF GpuInv
  <1>6. syncErrors' \in 0 .. MaxSyncErrors
    <2>1. syncErrors' = syncErrors \/ SyncFails
      BY DEF FenceComplete
    <2> QED
      BY <2>1, GpuQueueAssumption DEF GpuInv, GInv, OwnTypeOK, SyncFails
  <1>7. /\ \A s \in Sequences1 : s # cur["worker"] =>
              disposition'[s] = disposition[s] /\ result'[s] = result[s]
        /\ disposition'[cur["worker"]] = "unknown" => result'[cur["worker"]] = "failed"
    BY <1>4, <1>5 DEF FenceComplete, Ring!OnWorkerComplete, Ring!RetireUnknown
  <1>8. OwnTypeOK'
    BY <1>1, <1>2, <1>3, <1>4, <1>5, <1>6, <1>7 DEF GpuInv, GInv, OwnTypeOK, Early
  <1>9. AcquiredOK'
    BY <1>1, <1>2, <1>3, <1>4, <1>5, <1>6, <1>7 DEF GpuInv, GInv, AcquiredOK, Holding,
       Early
  <1>10. LaunchedOK'
    BY <1>1, <1>2, <1>3, <1>4, <1>5, <1>6, <1>7 DEF GpuInv, GInv, LaunchedOK, OnNative,
       Early
  <1>11. FreshOK'
    BY <1>1, <1>2, <1>3, <1>4, <1>5, <1>6, <1>7 DEF GpuInv, GInv, FreshOK, OnWorker,
       Early, Unpublished, Early
  <1>12. LastTaskOK'
    BY <1>1, <1>2, <1>3, <1>4, <1>5, <1>6, <1>7 DEF GpuInv, GInv, LastTaskOK, Early
  <1>13. PartitionOK'
    BY <1>1, <1>2, <1>3, <1>4, <1>5, <1>6, <1>7 DEF GpuInv, GInv, PartitionOK, Early
  <1>14. InvalidOK'
    BY <1>1, <1>2, <1>3, <1>4, <1>5, <1>6, <1>7 DEF GpuInv, GInv, InvalidOK, Late, Early
  <1>15. OutcomeOK'
    <2>1. \A s \in Sequences1 : disposition'[s] = "unknown" =>
              result'[s] = "failed" \/ s \in retained'
      BY <1>1, <1>2, <1>3, <1>4, <1>5, <1>6, <1>7 DEF GpuInv, GInv, OutcomeOK
    <2>2. pc'["worker"] = "complete" /\ ~fault'["worker"] =>
              disposition'[cur'["worker"]] = "complete"
      BY <1>1, <1>2, <1>3, <1>4, <1>5, <1>6, <1>7, Numbers DEF GpuInv, GInv, OutcomeOK,
         OnWorker
    <2>3. ASSUME NEW s \in Waitable', s \notin nodes',
                 ~(pc'["host"] \in Unpublished /\ s = mine')
          PROVE  s \in failures' \/ (stage'[s] \in Late /\ disposition'[s] = "complete")
      <3>1. s \in Waitable /\ s \in Sequences1 /\ s \notin nodes
        BY <1>1, <1>2, <1>3, <1>4, <1>5, <1>6, <1>7, <2>3, Ranges DEF GpuInv, Waitable,
           Sequences1
      <3>2. ~(pc["host"] \in Unpublished /\ s = mine)
        BY <1>1, <1>2, <1>3, <1>4, <1>5, <1>6, <1>7, <2>3 DEF Unpublished
      <3> QED
        BY <1>1, <1>2, <1>3, <1>4, <1>5, <1>6, <1>7, <3>1, <3>2 DEF GpuInv, GInv,
           OutcomeOK
    <2> QED
      BY <2>1, <2>2, <2>3 DEF OutcomeOK
  <1> QED
    BY <1>8, <1>9, <1>10, <1>11, <1>12, <1>13, <1>14, <1>15 DEF GInv

(* The destruction callback keeps it.                                       *)
LEMMA FenceDestroyG ==
    ASSUME GpuInv, FenceDestroy
    PROVE  GInv'
  <1>1. /\ pc["worker"] = "native"
        /\ UNCHANGED <<next, skipped, failures, nodes, tasks, pc, cur, fault, mine>>
        /\ UNCHANGED <<native, retained, invalid, waitFence, partition>>
        /\ stage[cur["worker"]] \in {"executed", "completed"}
        /\ stage' = [stage EXCEPT ![cur["worker"]] = "destroyed"]
    BY DEF FenceDestroy, At, vars, Ring!OnWorkerDestroy
  <1>2. /\ \A s \in Sequences1 : s \in Nat
        /\ next \in Nat /\ Threads = {"host", "worker"}
    BY Ranges, Numbers DEF GpuInv
  <1>3. Elements(tasks') = Elements(tasks) /\ OnNative' = OnNative /\ OnWorker' = OnWorker
    BY <1>1, <1>2 DEF Elements, OnNative, OnWorker
  <1>4. /\ cur["worker"] \in Sequences1 /\ cur["worker"] \in nodes
        /\ cur["worker"] \notin Elements(tasks)
        /\ \A t \in Threads : pc[t] \in Holding => cur[t] # cur["worker"]
        /\ cur["worker"] < next /\ OnNative = {cur["worker"]} /\ OnWorker = {cur["worker"]}
        /\ pc["host"] \in Unpublished => cur["worker"] # mine
    BY <1>1, Ranges, InDispatchIs DEF GpuInv, IInv, WorkOK, OrderOK, CallOK, OnNative,
       OnWorker, Holding, Threads
  <1>5. /\ stage \in [Sequences1 -> {"new", "acquired", "executed", "completed", "destroyed",
                                  "retired", "gone"}]
        /\ disposition \in [Sequences1 -> {"pending", "complete", "unknown"}]
        /\ result \in [Sequences1 -> {"pending", "success", "failed"}]
        /\ native \in [Sequences1 -> {"none", "running", "done"}]
        /\ \A s \in Sequences1 : stage[s] \in Early =>
              native[s] = "none" /\ disposition[s] = "pending"
        /\ \A s \in Sequences1 : disposition[s] = "complete" => native[s] # "running"
        /\ \A s \in Sequences1 : stage[s] \in {"destroyed"} \cup Late =>
              disposition[s] # "pending"
    BY RingView DEF GpuInv
  <1>6. syncErrors' \in 0 .. MaxSyncErrors
    <2>1. syncErrors' = syncErrors \/ SyncFails
      BY DEF FenceDestroy
    <2> QED
      BY <2>1, GpuQueueAssumption DEF GpuInv, GInv, OwnTypeOK, SyncFails
  <1>7. /\ \A s \in Sequences1 : s # cur["worker"] =>
              disposition'[s] = disposition[s] /\ result'[s] = result[s]
        /\ disposition'[cur["worker"]] = "unknown" =>
              result'[cur["worker"]] = "failed" \/ cur["worker"] \in retained
    BY <1>4, <1>5 DEF GpuInv, GInv, OutcomeOK, FenceDestroy, Ring!OnWorkerDestroy,
       Ring!DestroyProof
  <1>8. OwnTypeOK'
    BY <1>1, <1>2, <1>3, <1>4, <1>5, <1>6, <1>7 DEF GpuInv, GInv, OwnTypeOK, Early
  <1>9. AcquiredOK'
    BY <1>1, <1>2, <1>3, <1>4, <1>5, <1>6, <1>7 DEF GpuInv, GInv, AcquiredOK, Holding,
       Early
  <1>10. LaunchedOK'
    BY <1>1, <1>2, <1>3, <1>4, <1>5, <1>6, <1>7 DEF GpuInv, GInv, LaunchedOK, OnNative,
       Early
  <1>11. FreshOK'
    BY <1>1, <1>2, <1>3, <1>4, <1>5, <1>6, <1>7 DEF GpuInv, GInv, FreshOK, OnWorker,
       Early, Unpublished, Early
  <1>12. LastTaskOK'
    BY <1>1, <1>2, <1>3, <1>4, <1>5, <1>6, <1>7 DEF GpuInv, GInv, LastTaskOK, Early
  <1>13. PartitionOK'
    BY <1>1, <1>2, <1>3, <1>4, <1>5, <1>6, <1>7 DEF GpuInv, GInv, PartitionOK, Early
  <1>14. InvalidOK'
    BY <1>1, <1>2, <1>3, <1>4, <1>5, <1>6, <1>7 DEF GpuInv, GInv, InvalidOK, Late, Early
  <1>15. OutcomeOK'
    <2>1. \A s \in Sequences1 : disposition'[s] = "unknown" =>
              result'[s] = "failed" \/ s \in retained'
      BY <1>1, <1>2, <1>3, <1>4, <1>5, <1>6, <1>7 DEF GpuInv, GInv, OutcomeOK
    <2>2. pc'["worker"] = "complete" /\ ~fault'["worker"] =>
              disposition'[cur'["worker"]] = "complete"
      BY <1>1, <1>2, <1>3, <1>4, <1>5, <1>6, <1>7, Numbers DEF GpuInv, GInv, OutcomeOK,
         OnWorker
    <2>3. ASSUME NEW s \in Waitable', s \notin nodes',
                 ~(pc'["host"] \in Unpublished /\ s = mine')
          PROVE  s \in failures' \/ (stage'[s] \in Late /\ disposition'[s] = "complete")
      <3>1. s \in Waitable /\ s \in Sequences1 /\ s \notin nodes
        BY <1>1, <1>2, <1>3, <1>4, <1>5, <1>6, <1>7, <2>3, Ranges DEF GpuInv, Waitable,
           Sequences1
      <3>2. ~(pc["host"] \in Unpublished /\ s = mine)
        BY <1>1, <1>2, <1>3, <1>4, <1>5, <1>6, <1>7, <2>3 DEF Unpublished
      <3> QED
        BY <1>1, <1>2, <1>3, <1>4, <1>5, <1>6, <1>7, <3>1, <3>2 DEF GpuInv, GInv,
           OutcomeOK
    <2> QED
      BY <2>1, <2>2, <2>3 DEF OutcomeOK
  <1> QED
    BY <1>8, <1>9, <1>10, <1>11, <1>12, <1>13, <1>14, <1>15 DEF GInv

(* The task's outcome keeps it.                                             *)
LEMMA CompleteTaskG ==
    ASSUME GpuInv, CompleteTask
    PROVE  GInv'
  <1>1. /\ pc["worker"] = "native" /\ pc'["worker"] = "complete" /\ pc'["host"] = pc["host"]
        /\ UNCHANGED <<next, skipped, failures, nodes, tasks, cur, mine>>
        /\ UNCHANGED <<native, disposition, result, retained, waitFence, syncErrors, partition>>
        /\ stage[cur["worker"]] = "destroyed"
        /\ stage' = [stage EXCEPT ![cur["worker"]] = "retired"]
    BY DEF GpuInv, IInv, TypeOK, Threads, Goto, CompleteTask, WorkerFinish, At,
       tokenVars, nodeVars, Ring!Retire
  <1>2. /\ \A s \in Sequences1 : s \in Nat
        /\ next \in Nat /\ Threads = {"host", "worker"}
    BY Ranges, Numbers DEF GpuInv
  <1>3. /\ cur["worker"] \in Sequences1 /\ cur["worker"] \in nodes
        /\ cur["worker"] \notin Elements(tasks)
        /\ \A t \in Threads : pc[t] \in Holding => cur[t] # cur["worker"]
        /\ cur["worker"] < next /\ OnNative = {cur["worker"]} /\ OnWorker = {cur["worker"]}
        /\ pc["host"] \in Unpublished => cur["worker"] # mine
    BY <1>1, Ranges, InDispatchIs DEF GpuInv, IInv, WorkOK, OrderOK, CallOK, OnNative,
       OnWorker, Holding, Threads
  <1>4. /\ Elements(tasks') = Elements(tasks) /\ OnNative' = {} /\ OnWorker' = OnWorker
    BY <1>1, <1>2, <1>3 DEF Elements, OnNative, OnWorker
  <1>5. /\ stage \in [Sequences1 -> {"new", "acquired", "executed", "completed", "destroyed",
                                  "retired", "gone"}]
        /\ disposition \in [Sequences1 -> {"pending", "complete", "unknown"}]
        /\ result \in [Sequences1 -> {"pending", "success", "failed"}]
        /\ native \in [Sequences1 -> {"none", "running", "done"}]
        /\ \A s \in Sequences1 : stage[s] \in Early =>
              native[s] = "none" /\ disposition[s] = "pending"
        /\ \A s \in Sequences1 : disposition[s] = "complete" => native[s] # "running"
        /\ \A s \in Sequences1 : stage[s] \in {"destroyed"} \cup Late =>
              disposition[s] # "pending"
    BY RingView DEF GpuInv
  <1>6. /\ invalid \subseteq invalid' /\ invalid' \subseteq invalid \cup {cur["worker"]}
        /\ disposition[cur["worker"]] # "complete" => cur["worker"] \in invalid'
    BY <1>1 DEF CompleteTask
  <1>7. ~fault'["worker"] => result[cur["worker"]] # "failed" /\ cur["worker"] \notin retained
    BY <1>1 DEF GpuInv, IInv, TypeOK, Threads, CompleteTask, WorkerFinish
  <1>8. OwnTypeOK'
    BY <1>1, <1>2, <1>3, <1>4, <1>5, <1>6, <1>7 DEF GpuInv, GInv, OwnTypeOK, Early
  <1>9. AcquiredOK'
    BY <1>1, <1>2, <1>3, <1>4, <1>5, <1>6, <1>7 DEF GpuInv, GInv, AcquiredOK, Holding,
       Early
  <1>10. LaunchedOK'
    BY <1>1, <1>2, <1>3, <1>4, <1>5, <1>6, <1>7 DEF GpuInv, GInv, LaunchedOK, OnNative,
       Early
  <1>11. FreshOK'
    BY <1>1, <1>2, <1>3, <1>4, <1>5, <1>6, <1>7 DEF GpuInv, GInv, FreshOK, OnWorker,
       Early, Unpublished, Early
  <1>12. LastTaskOK'
    BY <1>1, <1>2, <1>3, <1>4, <1>5, <1>6, <1>7 DEF GpuInv, GInv, LastTaskOK, Early
  <1>13. PartitionOK'
    BY <1>1, <1>2, <1>3, <1>4, <1>5, <1>6, <1>7 DEF GpuInv, GInv, PartitionOK, Early
  <1>14. InvalidOK'
    BY <1>1, <1>2, <1>3, <1>4, <1>5, <1>6, <1>7 DEF GpuInv, GInv, InvalidOK, Late, Early
  <1>15. OutcomeOK'
    BY <1>1, <1>2, <1>3, <1>4, <1>5, <1>6, <1>7 DEF GpuInv, GInv, OutcomeOK, Waitable,
       Late, Unpublished, Early
  <1> QED
    BY <1>8, <1>9, <1>10, <1>11, <1>12, <1>13, <1>14, <1>15 DEF GInv

(* The end of the worker's task keeps it.                                   *)
LEMMA DestroyTaskG ==
    ASSUME GpuInv, DestroyTask
    PROVE  GInv'
  <1>1. /\ pc["worker"] = "idle"
        /\ UNCHANGED <<next, skipped, failures, nodes, tasks, pc, cur, fault, mine>>
        /\ UNCHANGED <<native, disposition, result>>
        /\ UNCHANGED <<retained, invalid, waitFence, syncErrors, partition>>
    BY DEF DestroyTask, At, vars, ownVars, Ring!DestroyTask
  <1>2. /\ \A s \in Sequences1 : s \in Nat
        /\ next \in Nat /\ Threads = {"host", "worker"}
    BY Ranges, Numbers DEF GpuInv
  <1>3. Elements(tasks') = Elements(tasks) /\ OnNative' = OnNative /\ OnWorker' = OnWorker
    BY <1>1, <1>2 DEF Elements, OnNative, OnWorker
  <1>4. /\ stage \in [Sequences1 -> {"new", "acquired", "executed", "completed", "destroyed",
                                  "retired", "gone"}]
        /\ \A s \in Sequences1 : stage[s] \in Early =>
              native[s] = "none" /\ disposition[s] = "pending"
    BY RingView DEF GpuInv
  <1>5. \E s \in Sequences1 : stage[s] = "retired" /\ stage' = [stage EXCEPT ![s] = "gone"]
    BY DEF DestroyTask, LastTask, Ring!DestroyTask
  <1>6. OwnTypeOK'
    BY <1>1, <1>2, <1>3, <1>4, <1>5 DEF GpuInv, GInv, OwnTypeOK, Early
  <1>7. AcquiredOK'
    BY <1>1, <1>2, <1>3, <1>4, <1>5 DEF GpuInv, GInv, AcquiredOK, Holding, Early
  <1>8. LaunchedOK'
    BY <1>1, <1>2, <1>3, <1>4, <1>5 DEF GpuInv, GInv, LaunchedOK, OnNative, Early
  <1>9. FreshOK'
    BY <1>1, <1>2, <1>3, <1>4, <1>5 DEF GpuInv, GInv, FreshOK, OnWorker, Early,
       Unpublished, Early
  <1>10. LastTaskOK'
    BY <1>1, <1>2, <1>3, <1>4, <1>5 DEF GpuInv, GInv, LastTaskOK, Early
  <1>11. PartitionOK'
    BY <1>1, <1>2, <1>3, <1>4, <1>5 DEF GpuInv, GInv, PartitionOK, Early
  <1>12. InvalidOK'
    BY <1>1, <1>2, <1>3, <1>4, <1>5 DEF GpuInv, GInv, InvalidOK, Late, Early
  <1>13. OutcomeOK'
    BY <1>1, <1>2, <1>3, <1>4, <1>5 DEF GpuInv, GInv, OutcomeOK, Waitable, Late,
       Unpublished, Early
  <1> QED
    BY <1>6, <1>7, <1>8, <1>9, <1>10, <1>11, <1>12, <1>13 DEF GInv

(* The device's completion keeps it.                                        *)
LEMMA NativeFinishG ==
    ASSUME GpuInv, NativeFinish
    PROVE  GInv'
  <1>1. /\ UNCHANGED <<next, skipped, failures, nodes, tasks, pc, cur, fault, mine>>
        /\ UNCHANGED <<stage, disposition, result>>
        /\ UNCHANGED <<retained, invalid, waitFence, syncErrors, partition>>
    BY DEF NativeFinish, vars, ownVars, Ring!NativeFinish
  <1>2. /\ \A s \in Sequences1 : s \in Nat
        /\ next \in Nat /\ Threads = {"host", "worker"}
    BY Ranges, Numbers DEF GpuInv
  <1>3. Elements(tasks') = Elements(tasks) /\ OnNative' = OnNative /\ OnWorker' = OnWorker
    BY <1>1, <1>2 DEF Elements, OnNative, OnWorker
  <1>4. \A s \in Sequences1 : native'[s] = "running" => native[s] = "running"
    BY RingView DEF GpuInv, NativeFinish, Ring!NativeFinish
  <1>5. OwnTypeOK'
    BY <1>1, <1>2, <1>3, <1>4 DEF GpuInv, GInv, OwnTypeOK
  <1>6. AcquiredOK'
    BY <1>1, <1>2, <1>3, <1>4 DEF GpuInv, GInv, AcquiredOK, Holding
  <1>7. LaunchedOK'
    BY <1>1, <1>2, <1>3, <1>4 DEF GpuInv, GInv, LaunchedOK, OnNative
  <1>8. FreshOK'
    BY <1>1, <1>2, <1>3, <1>4 DEF GpuInv, GInv, FreshOK, OnWorker, Early, Unpublished
  <1>9. LastTaskOK'
    BY <1>1, <1>2, <1>3, <1>4 DEF GpuInv, GInv, LastTaskOK
  <1>10. PartitionOK'
    BY <1>1, <1>2, <1>3, <1>4 DEF GpuInv, GInv, PartitionOK
  <1>11. InvalidOK'
    BY <1>1, <1>2, <1>3, <1>4 DEF GpuInv, GInv, InvalidOK, Late
  <1>12. OutcomeOK'
    BY <1>1, <1>2, <1>3, <1>4 DEF GpuInv, GInv, OutcomeOK, Waitable, Late, Unpublished
  <1> QED
    BY <1>5, <1>6, <1>7, <1>8, <1>9, <1>10, <1>11, <1>12 DEF GInv

(* Synchronizing the stream of a destroyed queue, keeps it.                 *)
LEMMA DrainG ==
    ASSUME GpuInv, NEW ok \in BOOLEAN, DrainStream(ok) \/ ReclaimLease(ok)
    PROVE  GInv'
  <1>1. /\ UNCHANGED <<next, skipped, failures, nodes, tasks, pc, cur, fault, mine>>
        /\ UNCHANGED <<stage, disposition, result, retained, invalid, waitFence>>
        /\ pc["host"] = "destroyed" /\ Ring!OnQueueDrain(ok)
        /\ partition' \in {"owned", "released", "quarantined"}
        /\ partition' = "released" => ok \/ unknowns = 0 \/ partition = "released"
    BY DEF GpuInv, GInv, PartitionOK, OwnTypeOK, DrainStream, ReclaimLease, At, vars,
       Ring!OnQueueDrain
  <1>2. /\ \A s \in Sequences1 : s \in Nat
        /\ next \in Nat /\ Threads = {"host", "worker"}
    BY Ranges, Numbers DEF GpuInv
  <1>3. Elements(tasks') = Elements(tasks) /\ OnNative' = OnNative /\ OnWorker' = OnWorker
    BY <1>1, <1>2 DEF Elements, OnNative, OnWorker
  <1>4. syncErrors' \in 0 .. MaxSyncErrors
    BY GpuQueueAssumption DEF GpuInv, GInv, OwnTypeOK, DrainStream, ReclaimLease,
       SyncFails
  <1>5. /\ \A s \in Sequences1 : native'[s] = "running" => native[s] = "running"
        /\ ok => \A s \in Sequences1 : native'[s] # "running"
    BY <1>1, RingView DEF GpuInv, Ring!OnQueueDrain
  <1>6. unknowns = 0 => \A s \in Sequences1 : native[s] # "running"
    <2> SUFFICES ASSUME unknowns = 0 PROVE \A s \in Sequences1 : native[s] # "running"
      OBVIOUS
    <2>1. quarantined \subseteq RingProofs!Resources /\ unknowns = Cardinality(quarantined)
      BY DEF GpuInv, RingProofs!RInv, RingProofs!RingTypeOK, RingProofs!UnknownsCounted,
         RingProofs!Cardinality, Cardinality
    <2>2. quarantined = {}
      <3>1. IsFiniteSet(quarantined)
        <4>1. IsFiniteSet(1 .. Capacity)
          BY FS_Interval, DeviceOpsAssumption
        <4> QED
          BY <2>1, <4>1, FS_Subset DEF RingProofs!Resources
      <3> QED
        BY <2>1, <3>1, FS_EmptySet
    <2>3. \A s \in Sequences1 : stage[s] \in {"new", "gone"}
      BY <1>1, DestroyedIdle DEF Ring!Idle
    <2> QED
      BY <2>2, <2>3, RingView DEF GpuInv, Early, Late
  <1>7. OwnTypeOK'
    BY <1>1, <1>2, <1>3, <1>4, <1>5, <1>6 DEF GpuInv, GInv, OwnTypeOK
  <1>8. AcquiredOK'
    BY <1>1, <1>2, <1>3, <1>4, <1>5, <1>6 DEF GpuInv, GInv, AcquiredOK, Holding
  <1>9. LaunchedOK'
    BY <1>1, <1>2, <1>3, <1>4, <1>5, <1>6 DEF GpuInv, GInv, LaunchedOK, OnNative
  <1>10. FreshOK'
    BY <1>1, <1>2, <1>3, <1>4, <1>5, <1>6 DEF GpuInv, GInv, FreshOK, OnWorker, Early,
       Unpublished
  <1>11. LastTaskOK'
    BY <1>1, <1>2, <1>3, <1>4, <1>5, <1>6 DEF GpuInv, GInv, LastTaskOK
  <1>12. PartitionOK'
    BY <1>1, <1>2, <1>3, <1>4, <1>5, <1>6 DEF GpuInv, GInv, PartitionOK
  <1>13. InvalidOK'
    BY <1>1, <1>2, <1>3, <1>4, <1>5, <1>6 DEF GpuInv, GInv, InvalidOK, Late
  <1>14. OutcomeOK'
    BY <1>1, <1>2, <1>3, <1>4, <1>5, <1>6 DEF GpuInv, GInv, OutcomeOK, Waitable, Late,
       Unpublished
  <1> QED
    BY <1>7, <1>8, <1>9, <1>10, <1>11, <1>12, <1>13, <1>14 DEF GInv

--------------------------------------------------------------------------------
(* The invariant holds in a new queue. *)
LEMMA InitGpuInv == GpuInit => GpuInv
  <1> SUFFICES ASSUME GpuInit PROVE GpuInv
    OBVIOUS
  <1>1. IInv
    BY InitIInv DEF GpuInit
  <1>2. RingProofs!RInv
    BY SameRing, RingConstantsHold, RingProofs!InitRInv DEF GpuInit
  <1>3. /\ pc["host"] = "idle" /\ pc["worker"] = "idle" /\ Elements(tasks) = {}
        /\ \A t \in Threads : pc[t] = "idle"
        /\ next = 1 /\ Threads = {"host", "worker"}
    BY DEF GpuInit, Init, Threads, Elements
  <1>4. \A s \in Sequences1 :
            stage[s] = "new" /\ native[s] = "none" /\ disposition[s] = "pending"
    BY DEF GpuInit, Ring!Init
  <1>5. OwnTypeOK /\ PartitionOK
    BY GpuQueueAssumption DEF GpuInit, OwnTypeOK, PartitionOK
  <1>6. AcquiredOK /\ LaunchedOK /\ FreshOK /\ LastTaskOK
    BY <1>3, <1>4 DEF AcquiredOK, LaunchedOK, FreshOK, LastTaskOK, OnNative, Early
  <1>7. InvalidOK /\ OutcomeOK
    BY <1>3, <1>4 DEF InvalidOK, OutcomeOK, Waitable
  <1> QED
    BY <1>1, <1>2, <1>5, <1>6, <1>7 DEF GpuInv, GInv

(* Every step of the pump keeps the queue's part of it. *)
LEMMA PumpG ==
    ASSUME GpuInv, NEW t \in Threads, GpuPump(t)
    PROVE  GInv'
  <1>1. CASE Common(PumpBusy(t)) \/ Common(PumpEnter(t)) \/ Common(PumpStop(t))
    BY <1>1, QuietSteps, QuietG DEF Common, ownVars
  <1> QED
    BY <1>1, PumpTakeG, ParkG, AcquireG, UnavailableG, LaunchNothingG, LaunchNativeG, FailsG
       DEF GpuPump

(* Every step of either thread and of the device keeps it. *)
LEMMA NextGpuInv ==
    ASSUME GpuInv, [GpuNext]_gpuVars
    PROVE  GpuInv'
  <1>1. [Next]_vars /\ [Ring!Next]_ringVars
    BY StepImplements
  <1>2. IInv'
    BY <1>1, NextIInv DEF GpuInv
  <1>3. RingProofs!RInv'
    <2>1. [RingProofs!Next]_RingProofs!ringVars
      BY <1>1, SameRing DEF ringVars, RingProofs!ringVars
    <2> QED
      BY <2>1, RingConstantsHold, RingProofs!NextRInv DEF GpuInv
  <1>4. GInv'
    <2>1. CASE GpuCaller
      BY <2>1, QuietSteps, QuietG DEF GpuCaller, BeginDestroy, Common, ownVars
    <2>2. CASE \/ \E ok \in BOOLEAN : Common(Prepare(ok))
               \/ Common(PublishFails) \/ Common(WaitWake) \/ Common(WaitFence)
               \/ Common(CloseAdmission) \/ Common(SnapshotParked) \/ Common(DrainEnd)
               \/ Common(ShutdownWorker)
      BY <2>2, QuietSteps, QuietG DEF Common, ownVars
    <2>3. CASE GpuPump("host") \/ GpuPump("worker")
      BY <2>3, PumpG DEF Threads
    <2>4. CASE \/ Common(Publish) \/ Common(Unwind) \/ Common(AbandonRejected) \/ Rejected
               \/ DrainParked \/ Join
      BY <2>4, PublishG, UnwindG, AbandonG, RejectedG, DrainParkedG, JoinG
    <2>5. CASE \/ Pop \/ FenceComplete \/ FenceDestroy \/ CompleteTask
               \/ Common(WorkerComplete) \/ DestroyTask \/ NativeFinish
      BY <2>5, PopG, FenceCompleteG, FenceDestroyG, CompleteTaskG, WorkerCompleteG,
         DestroyTaskG, NativeFinishG
    <2>6. CASE \E ok \in BOOLEAN : DrainStream(ok) \/ ReclaimLease(ok)
      BY <2>6, DrainG
    <2>7. CASE UNCHANGED gpuVars
      <3>1. Quiet /\ UNCHANGED ringVars /\ UNCHANGED ownVars
        BY <2>7 DEF gpuVars, vars, Quiet
      <3> QED
        BY <3>1, QuietG DEF ownVars
    <2> QED
      BY <2>1, <2>2, <2>3, <2>4, <2>5, <2>6, <2>7 DEF GpuNext, GpuHost, GpuWorker
  <1> QED
    BY <1>2, <1>3, <1>4 DEF GpuInv

(* The invariant holds in every state a GPU queue can reach. *)
THEOREM GpuInvariance == GpuSpec => []GpuInv
  <1>1. GpuInit => GpuInv
    BY InitGpuInv
  <1>2. GpuInv /\ [GpuNext]_gpuVars => GpuInv'
    BY NextGpuInv
  <1> QED
    BY <1>1, <1>2, PTL DEF GpuSpec

(* For every capacity and any failures, the GPU queue is an instance of the *)
(* common protocol of device_ops.cpp and uses its events and slots as the   *)
(* ring and the pool demand: it drains the stream only when nothing is in   *)
(* between.                                                                 *)
THEOREM ComponentsImplemented == GpuSpec => ImplementsComponents
  <1>1. GpuInit => Init /\ Ring!Init
    BY DEF GpuInit
  <1>2. GpuInv /\ [GpuNext]_gpuVars => [Next]_vars /\ [Ring!Next]_Ring!ringVars
    BY StepImplements DEF ringVars, Ring!ringVars
  <1> QED
    BY <1>1, <1>2, GpuInvariance, PTL DEF GpuSpec, ImplementsComponents, Spec, Ring!Spec

(* Work the device still runs keeps its owners Live or Invalidated, and a   *)
(* partition returned to the device has no such work, whatever failed:      *)
(* launches, recordings, fences, the stream's drain.                        *)
THEOREM RunningIsProtected == GpuSpec => []RunningProtected
  <1>1. ASSUME GpuInv PROVE RunningProtected
    <2>1. ReleasedPartitionIdle
      BY <1>1 DEF GpuInv, GInv, PartitionOK, ReleasedPartitionIdle, Ring!Running
    <2>2. ASSUME NEW s \in Ring!Running PROVE s \in live \cup invalid
      <3>1. s \in Sequences1 /\ native[s] = "running"
        BY DEF Ring!Running
      <3>2. CASE stage[s] \in {"executed", "completed", "destroyed"}
        <4>1. s \in Elements(tasks) \cup OnNative
          BY <1>1, <3>1, <3>2 DEF GpuInv, GInv, LaunchedOK
        <4>2. s \in nodes /\ s \notin Finishing
          BY <1>1, <4>1, Ranges
             DEF GpuInv, IInv, WorkOK, OnNative, OnWorker, Finishing, At
        <4> QED
          BY <1>1, <4>2 DEF GpuInv, IInv, OwnersOK
      <3>3. CASE stage[s] \in Late
        BY <1>1, <3>1, <3>3 DEF GpuInv, GInv, InvalidOK
      <3> QED
        BY <1>1, <3>1, <3>2, <3>3, RingView DEF GpuInv, Early, Late
    <2> QED
      BY <2>1, <2>2 DEF RunningProtected, RunningKeepsOwners
  <1> QED
    BY <1>1, GpuInvariance, PTL

(* If every event is taken and none is quarantined, each is held by another *)
(* task that still has its credit.                                          *)
LEMMA EventForCredit ==
    ASSUME GpuInv
    PROVE  CreditCoversEvent
  <1> SUFFICES ASSUME NEW t \in Threads, pc[t] = "dispatch", stage[cur[t]] = "new",
                      quarantined = {}, Ring!FreeEvents = {}
               PROVE  FALSE
    BY DEF CreditCoversEvent, At
  <1> DEFINE R == 1 .. Capacity
             E == executing \ {cur[t]}
  <1>1. /\ Ring!Resources = R /\ RingProofs!Resources = R
        /\ Ring!None = RingProofs!None /\ RingProofs!None \notin Sequences1
        /\ Ring!FreeEvents = {e \in R : holder[e] = RingProofs!None}
    BY DEF Ring!Resources, RingProofs!Resources, Ring!None, RingProofs!None, Sequences1,
       Ring!FreeEvents
  <1>2. \A e \in R : holder[e] \in Sequences1
    BY <1>1 DEF GpuInv, RingProofs!RInv, RingProofs!RingTypeOK, RingProofs!Optional
  <1>3. \A e \in R : stage[holder[e]] \in {"acquired", "executed", "completed"}
                     /\ eventOf[holder[e]] = e
    BY <1>1, <1>2 DEF GpuInv, RingProofs!RInv, RingProofs!HoldersOK, RingProofs!Active
  <1>4. ASSUME NEW e \in R PROVE holder[e] \in E
    <2>1. stage[holder[e]] # "acquired" /\ holder[e] # cur[t]
      BY <1>2, <1>3, LonePump DEF GpuInv, GInv, AcquiredOK, PumpLabels, Holding
    <2>2. holder[e] \in Elements(tasks) \cup OnNative
      BY <1>2, <1>3, <2>1 DEF GpuInv, GInv, LaunchedOK
    <2> QED
      BY <2>1, <2>2 DEF GpuInv, IInv, WorkOK, OnNative, OnWorker
  <1>5. [e \in R |-> holder[e]] \in Injection(R, E)
    <2>1. [e \in R |-> holder[e]] \in [R -> E]
      BY <1>4
    <2>2. \A a, b \in R : holder[a] = holder[b] => a = b
      BY <1>3
    <2> QED
      BY <2>1, <2>2 DEF Injection, IsInjective
  <1>6. cur[t] \in executing /\ executing \in SUBSET Sequences1
    BY Ranges, LonePump DEF GpuInv, Holding, PumpLabels, IInv, TypeOK
  <1>7. /\ Cardinality(E) = Cardinality(executing) - 1 /\ Cardinality(executing) \in Nat
        /\ Cardinality(executing) <= Capacity
    BY <1>6, CountLemma DEF GpuInv, IInv, CreditOK
  <1>8. IsFiniteSet(R) /\ IsFiniteSet(E) /\ Cardinality(R) = Capacity
    <2>1. Capacity \in Nat /\ MaxSequence \in Nat
      BY DeviceOpsAssumption
    <2>2. IsFiniteSet(R) /\ IsFiniteSet(Sequences1)
      BY <2>1, FS_Interval DEF Sequences1
    <2>3. IsFiniteSet(E)
      BY <1>6, <2>2, FS_Subset
    <2>4. Cardinality(R) = Capacity
      BY <2>1, FS_Interval
    <2> QED
      BY <2>2, <2>3, <2>4
  <1>9. Cardinality(R) <= Cardinality(E)
    BY <1>5, <1>8, FS_Injection
  <1> QED
    BY <1>7, <1>8, <1>9, DeviceOpsAssumption

(* The events and slots of a GPU queue are never handed out under running   *)
(* work, never lost and never fewer than the credits promise, for every     *)
(* capacity and any number of failing synchronizations.                     *)
THEOREM RingIsSound == GpuSpec => []RingSound
  <1>1. ASSUME GpuInv PROVE RingSound
    <2>1. RingProofs!RingSafe
      BY <1>1, RingConstantsHold, RingProofs!RInvSafe DEF GpuInv
    <2>2. Ring!RingTypeOK
      BY <2>1 DEF RingProofs!RingSafe, Ring!RingTypeOK, RingProofs!RingTypeOK,
         Ring!Optional, RingProofs!Optional, Ring!Stages, RingProofs!Stages, Ring!None,
         RingProofs!None, Ring!Resources, RingProofs!Resources
    <2>3. Ring!RunningHoldsResources /\ Ring!RunningDisjoint
      BY <2>1 DEF RingProofs!RingSafe, Ring!RunningHoldsResources,
         RingProofs!RunningHoldsResources, Ring!RunningDisjoint,
         RingProofs!RunningDisjoint, Ring!Running, RingProofs!Running, Ring!None,
         RingProofs!None
    <2>4. Ring!ProofIsSound /\ Ring!UnknownsCounted
      BY <2>1 DEF RingProofs!RingSafe, Ring!ProofIsSound, RingProofs!ProofIsSound,
         Ring!UnknownsCounted, RingProofs!UnknownsCounted, Ring!Cardinality,
         RingProofs!Cardinality
    <2>5. Ring!IdleMeansFree
      BY <2>1 DEF RingProofs!RingSafe, Ring!IdleMeansFree, RingProofs!IdleMeansFree,
         Ring!Idle, RingProofs!Idle, Ring!None, RingProofs!None, Ring!Resources,
         RingProofs!Resources
    <2>6. GpuTypeOK
      BY <1>1, <2>2 DEF GpuInv, GInv, OwnTypeOK, GpuTypeOK
    <2>7. CreditCoversEvent
      BY <1>1, EventForCredit
    <2> QED
      BY <2>3, <2>4, <2>5, <2>6, <2>7 DEF RingSound
  <1> QED
    BY <1>1, GpuInvariance, PTL

(* A wait that returned success on a GPU queue returned it for work whose   *)
(* completion the device proved, unless retried dispatches may throw: no    *)
(* fence that failed and no late quarantine turns into a success.           *)
THEOREM SuccessesAreProven ==
    ASSUME ~RetryMayThrow
    PROVE  GpuSpec => []SuccessIsProven
  <1>1. ASSUME GpuInv, OInv PROVE SuccessIsProven
    <2> SUFFICES ASSUME NEW s \in issued, <<s, "ok">> \in observed
                 PROVE  native[s] # "running" /\ disposition[s] # "unknown"
      BY DEF SuccessIsProven
    <2>1. s \notin nodes /\ s \notin failures
      BY <1>1 DEF OInv, SeenOK
    <2>2. s \in Waitable /\ ~(pc["host"] \in Unpublished /\ s = mine)
      BY <1>1 DEF GpuInv, IInv, TokensOK, Open, CallOpen
    <2>3. s \in Sequences1
      BY <1>1 DEF GpuInv, IInv, TypeOK
    <2>4. disposition[s] = "complete"
      BY <1>1, <2>1, <2>2 DEF GpuInv, GInv, OutcomeOK
    <2> QED
      BY <1>1, <2>3, <2>4, RingView DEF GpuInv
  <1>2. GpuSpec => Spec
    BY ComponentsImplemented, PTL DEF ImplementsComponents
  <1>3. Spec => [](IInv /\ OInv)
    BY OrderInvariance
  <1> QED
    BY <1>1, <1>2, <1>3, GpuInvariance, PTL
================================================================================
