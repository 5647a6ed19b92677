------------------------------- MODULE EventRing -------------------------------
(***************************************************************************)
(* The fixed completion resources of one GPU queue: the ring of C events   *)
(* (src/src/shared/event_ring.hpp), the pool of C metadata slots           *)
(* (src/src/shared/metadata_slot_pool.hpp) and the life of the Submission  *)
(* records that borrow them, from try_acquire to the completion proof or   *)
(* the quarantine that replaces it.                                        *)
(*                                                                         *)
(* "native" is what the device is really doing, which the host only learns *)
(* through a successful synchronization: a synchronization that returns an *)
(* error says nothing about it.                                            *)
(***************************************************************************)
EXTENDS Integers, FiniteSets

CONSTANTS
    RingSize,       \* C: events of the ring and slots of the partition
    Submissions,    \* submission identities: a set of positive integers, the
                    \* order of launch on the queue's stream
    UsesSlot        \* those whose operation uploads a metadata descriptor

None == 0
Resources == 1 .. RingSize

VARIABLES
    holder,         \* event -> the submission that owns it, or None
    quarantined,    \* events no proof has covered
    slotsInUse,     \* MetadataSlotPool::in_use_
    slotsProtected, \* MetadataSlotPool::protected_
    unknowns,       \* unproved_unknowns_
    stage,          \* submission -> where it is in its life
    eventOf,        \* submission -> pool_index_
    slotOf,         \* submission -> metadata_slot_ once attached
    leaseOf,        \* submission -> slot its Task's MetadataLease still owns
    mark,           \* submission -> what execute() recorded about the stream
    disposition,    \* submission -> CompletionDisposition
    result,         \* submission -> the FenceResult wait() will see
    native,         \* submission -> what the device is doing with it
    uses            \* submission -> <<event, slot>> its native work touches

ringVars == <<holder, quarantined, slotsInUse, slotsProtected, unknowns, stage, eventOf,
              slotOf, leaseOf, mark, disposition, result, native, uses>>

Init ==
    /\ holder = [e \in Resources |-> None]
    /\ quarantined = {} /\ slotsInUse = {} /\ slotsProtected = {}
    /\ unknowns = 0
    /\ stage = [s \in Submissions |-> "new"]
    /\ eventOf = [s \in Submissions |-> None]
    /\ slotOf = [s \in Submissions |-> None]
    /\ leaseOf = [s \in Submissions |-> None]
    /\ mark = [s \in Submissions |-> "none"]
    /\ disposition = [s \in Submissions |-> "pending"]
    /\ result = [s \in Submissions |-> "pending"]
    /\ native = [s \in Submissions |-> "none"]
    /\ uses = [s \in Submissions |-> <<None, None>>]

FreeEvents == {e \in Resources : holder[e] = None}
(* Seeded fault: a slot is taken for free unless it is protected. *)
UnprotectedSlots == Resources \ slotsProtected
FreeSlots == Resources \ slotsInUse
First(S) == CHOOSE x \in S : \A y \in S : x <= y

(* What a dispatch needs before it can go ahead. *)
CanAcquire(s) == FreeEvents # {} /\ (s \in UsesSlot => FreeSlots # {})

--------------------------------------------------------------------------------
(* try_acquire of the event and, for a descriptor operation, of the slot.   *)
(* When the slot is missing the event goes straight back.                   *)
TryAcquire(s) ==
    /\ stage[s] = "new"
    /\ CanAcquire(s)
    /\ LET e == First(FreeEvents)
           m == IF s \in UsesSlot THEN First(FreeSlots) ELSE None
       IN  /\ holder' = [holder EXCEPT ![e] = s]
           /\ eventOf' = [eventOf EXCEPT ![s] = e]
           /\ leaseOf' = [leaseOf EXCEPT ![s] = m]
           /\ slotsInUse' = IF m = None THEN slotsInUse ELSE slotsInUse \cup {m}
    /\ stage' = [stage EXCEPT ![s] = "acquired"]
    /\ UNCHANGED <<quarantined, slotsProtected, unknowns, slotOf, mark, disposition,
                   result, native, uses>>

(* Seeded fault: the quarantine is not looked at. *)
ReturnedAlways(s, q) ==
    IF eventOf[s] # None /\ holder[eventOf[s]] = s
    THEN [holder EXCEPT ![eventOf[s]] = None]
    ELSE holder

(* return_resource: only the owner gives an event back, and never one whose *)
(* completion is unknown.                                                   *)
Returned(s, q) ==
    IF eventOf[s] # None /\ holder[eventOf[s]] = s /\ eventOf[s] \notin q
    THEN [holder EXCEPT ![eventOf[s]] = None]
    ELSE holder

(* Seeded fault: the lease of the dropped dispatch is not released. *)
DropLeaksSlot(s) ==
    /\ stage[s] = "acquired"
    /\ holder' = Returned(s, quarantined)
    /\ eventOf' = [eventOf EXCEPT ![s] = None]
    /\ leaseOf' = [leaseOf EXCEPT ![s] = None]
    /\ stage' = [stage EXCEPT ![s] = "new"]
    /\ UNCHANGED <<quarantined, slotsInUse, slotsProtected, unknowns, slotOf, mark,
                   disposition, result, native, uses>>

(* The dispatch threw before its task was published: the Submission and the *)
(* MetadataLease are destroyed and the sequence may be used again.          *)
Drop(s) ==
    /\ stage[s] = "acquired"
    /\ holder' = Returned(s, quarantined)
    /\ slotsInUse' = slotsInUse \ {leaseOf[s]}
    /\ slotsProtected' = slotsProtected \ {leaseOf[s]}
    /\ eventOf' = [eventOf EXCEPT ![s] = None]
    /\ leaseOf' = [leaseOf EXCEPT ![s] = None]
    /\ stage' = [stage EXCEPT ![s] = "new"]
    /\ UNCHANGED <<quarantined, unknowns, slotOf, mark, disposition, result, native,
                   uses>>

(* Seeded fault: a submission is counted every time it is found unknown. *)
RetireUnknownAgain(s) ==
    /\ disposition' = [disposition EXCEPT ![s] = "unknown"]
    /\ quarantined' = quarantined \cup {eventOf[s]}
    /\ unknowns' = unknowns + 1

(* set_retire_unknown_locked *)
RetireUnknown(s) ==
    /\ disposition' = [disposition EXCEPT ![s] = "unknown"]
    /\ IF disposition[s] # "unknown"
       THEN /\ quarantined' = quarantined \cup {eventOf[s]}
            /\ unknowns' = unknowns + 1
       ELSE UNCHANGED <<quarantined, unknowns>>

(* execute() before any native call: an inactive context leaves the slot    *)
(* with the task's lease; a no-op or a failing descriptor write comes after *)
(* the slot was attached to the submission.                                 *)
ExecuteNothing(s, attached) ==
    /\ stage[s] = "acquired"
    /\ mark' = [mark EXCEPT ![s] = "drained"]
    /\ slotOf' = [slotOf EXCEPT ![s] = IF attached THEN leaseOf[s] ELSE None]
    /\ leaseOf' = [leaseOf EXCEPT ![s] = IF attached THEN None ELSE leaseOf[s]]
    /\ stage' = [stage EXCEPT ![s] = "executed"]
    /\ UNCHANGED <<holder, quarantined, slotsInUse, slotsProtected, unknowns, eventOf,
                   disposition, result, native, uses>>

(* Work was launched.  how = "recorded": its event is recorded, at once or  *)
(* in the handler; "drained": neither event could be recorded and the       *)
(* stream was synchronized instead; "unknown": that failed as well.         *)
ExecuteNative(s, how) ==
    /\ stage[s] = "acquired"
    /\ how \in {"recorded", "drained", "unknown"}
    /\ slotOf' = [slotOf EXCEPT ![s] = leaseOf[s]]
    /\ leaseOf' = [leaseOf EXCEPT ![s] = None]
    /\ uses' = [uses EXCEPT ![s] = <<eventOf[s], leaseOf[s]>>]
    /\ stage' = [stage EXCEPT ![s] = "executed"]
    /\ native' = IF how = "drained"
                 THEN [r \in Submissions |->
                          IF r = s \/ native[r] = "running" THEN "done" ELSE native[r]]
                 ELSE [native EXCEPT ![s] = "running"]
    /\ IF how = "unknown"
       THEN RetireUnknown(s) /\ UNCHANGED mark
       ELSE /\ mark' = [mark EXCEPT ![s] = how]
            /\ UNCHANGED <<disposition, quarantined, unknowns>>
    /\ UNCHANGED <<holder, slotsInUse, slotsProtected, eventOf, result>>

(* The device finishes work in stream order. *)
NativeFinish(s) ==
    /\ native[s] = "running"
    /\ \A r \in Submissions : native[r] = "running" => s <= r
    /\ native' = [native EXCEPT ![s] = "done"]
    /\ UNCHANGED <<holder, quarantined, slotsInUse, slotsProtected, unknowns, stage,
                   eventOf, slotOf, leaseOf, mark, disposition, result, uses>>

(* A synchronization with the submission's event: success means its work    *)
(* and everything before it on the stream is over.                          *)
SyncEvent(s, ok) == ok => native[s] = "done"

(* Seeded fault: work that left no event counts as complete. *)
OnWorkerCompleteUnmarked(s, ok) ==
    /\ stage[s] = "executed"
    /\ \/ mark[s] = "drained" /\ ok
       \/ mark[s] = "recorded" /\ SyncEvent(s, ok)
       \/ mark[s] = "none" /\ ok
    /\ result' = [result EXCEPT ![s] = IF ok THEN "success" ELSE "failed"]
    /\ IF ok
       THEN /\ disposition' = [disposition EXCEPT ![s] = "complete"]
            /\ UNCHANGED <<quarantined, unknowns>>
       ELSE RetireUnknown(s)
    /\ stage' = [stage EXCEPT ![s] = "completed"]
    /\ UNCHANGED <<holder, slotsInUse, slotsProtected, eventOf, slotOf, leaseOf, mark,
                   native, uses>>

(* on_worker_complete *)
OnWorkerComplete(s, ok) ==
    /\ stage[s] = "executed"
    /\ \/ mark[s] = "drained" /\ ok
       \/ mark[s] = "recorded" /\ SyncEvent(s, ok)
       \/ mark[s] = "none" /\ ~ok
    /\ result' = [result EXCEPT ![s] = IF ok THEN "success" ELSE "failed"]
    /\ IF ok
       THEN /\ disposition' = [disposition EXCEPT ![s] = "complete"]
            /\ UNCHANGED <<quarantined, unknowns>>
       ELSE RetireUnknown(s)
    /\ stage' = [stage EXCEPT ![s] = "completed"]
    /\ UNCHANGED <<holder, slotsInUse, slotsProtected, eventOf, slotOf, leaseOf, mark,
                   native, uses>>

(* The proof on_worker_destroy still has to find, and whether it finds it. *)
DestroyProof(s, ok) ==
    \/ disposition[s] = "complete" /\ ok
    \/ disposition[s] # "complete" /\ mark[s] = "drained" /\ ok
    \/ disposition[s] # "complete" /\ mark[s] = "recorded" /\ SyncEvent(s, ok)
    \/ disposition[s] # "complete" /\ mark[s] = "none" /\ ~ok

(* on_worker_destroy: a late proof lifts the quarantine but keeps the       *)
(* failure; then the slot is released or protected, and the event returned. *)
OnWorkerDestroy(s, ok) ==
    /\ stage[s] \in {"executed", "completed"}
    /\ DestroyProof(s, ok)
    /\ LET lifted == ok /\ disposition[s] = "unknown"
           unknown == ~ok /\ (disposition[s] = "unknown" \/ mark[s] = "recorded")
           fresh == ~ok /\ mark[s] = "recorded" /\ disposition[s] # "unknown"
       IN  /\ quarantined' = IF lifted THEN quarantined \ {eventOf[s]}
                             ELSE IF fresh THEN quarantined \cup {eventOf[s]}
                             ELSE quarantined
           /\ unknowns' = IF lifted /\ unknowns # 0 THEN unknowns - 1
                          ELSE IF fresh THEN unknowns + 1 ELSE unknowns
           /\ disposition' = [disposition EXCEPT ![s] =
                                 IF ok THEN "complete" ELSE
                                 IF unknown THEN "unknown" ELSE @]
           /\ result' = [result EXCEPT ![s] =
                            IF ok THEN (IF @ = "failed" THEN @ ELSE "success")
                            ELSE IF mark[s] = "recorded" THEN "failed" ELSE @]
           /\ slotsProtected' = IF slotOf[s] = None THEN slotsProtected
                                ELSE IF unknown THEN slotsProtected \cup {slotOf[s]}
                                ELSE slotsProtected \ {slotOf[s]}
           /\ slotsInUse' = IF slotOf[s] = None \/ unknown THEN slotsInUse
                            ELSE slotsInUse \ {slotOf[s]}
           /\ holder' = IF ok THEN Returned(s, quarantined') ELSE holder
    /\ slotOf' = [slotOf EXCEPT ![s] = None]
    /\ stage' = [stage EXCEPT ![s] = "destroyed"]
    /\ UNCHANGED <<eventOf, leaseOf, mark, native, uses>>

(* finalize() drops the last reference: ~Submission returns its event. *)
Retire(s) ==
    /\ stage[s] = "destroyed"
    /\ holder' = Returned(s, quarantined)
    /\ eventOf' = [eventOf EXCEPT ![s] = None]
    /\ stage' = [stage EXCEPT ![s] = "retired"]
    /\ UNCHANGED <<quarantined, slotsInUse, slotsProtected, unknowns, slotOf, leaseOf,
                   mark, disposition, result, native, uses>>

(* The worker destroys its Task after the completion callbacks: a slot that *)
(* never left the MetadataLease is released only here.                      *)
DestroyTask(s) ==
    /\ stage[s] = "retired"
    /\ slotsInUse' = slotsInUse \ {leaseOf[s]}
    /\ slotsProtected' = slotsProtected \ {leaseOf[s]}
    /\ leaseOf' = [leaseOf EXCEPT ![s] = None]
    /\ stage' = [stage EXCEPT ![s] = "gone"]
    /\ UNCHANGED <<holder, quarantined, unknowns, eventOf, slotOf, mark, disposition,
                   result, native, uses>>

(* on_queue_drain after a stream synchronization: a successful one covers   *)
(* everything the queue ever launched.                                      *)
OnQueueDrain(ok) ==
    /\ native' = IF ok THEN [s \in Submissions |->
                                IF native[s] = "running" THEN "done" ELSE native[s]]
                 ELSE native
    /\ IF ok
       THEN /\ unknowns' = 0
            /\ holder' = [e \in Resources |->
                             IF e \in quarantined THEN None ELSE holder[e]]
            /\ quarantined' = {}
            /\ slotsInUse' = slotsInUse \ slotsProtected
            /\ slotsProtected' = {}
       ELSE UNCHANGED <<unknowns, holder, quarantined, slotsInUse, slotsProtected>>
    /\ UNCHANGED <<stage, eventOf, slotOf, leaseOf, mark, disposition, result, uses>>

--------------------------------------------------------------------------------
Idle == \A s \in Submissions : stage[s] \in {"new", "gone"}

Step(s) ==
    \/ TryAcquire(s)
    \/ Drop(s)
    \/ \E attached \in BOOLEAN : ExecuteNothing(s, attached)
    \/ \E how \in {"recorded", "drained", "unknown"} : ExecuteNative(s, how)
    \/ NativeFinish(s)
    \/ \E ok \in BOOLEAN : OnWorkerComplete(s, ok)
    \/ \E ok \in BOOLEAN : OnWorkerDestroy(s, ok)
    \/ Retire(s)
    \/ DestroyTask(s)

(* The drain is taken when the worker is joined: nothing is in between. *)
Drain(ok) == Idle /\ OnQueueDrain(ok)

Next == (\E s \in Submissions : Step(s)) \/ (\E ok \in BOOLEAN : Drain(ok))

Spec == Init /\ [][Next]_ringVars

--------------------------------------------------------------------------------
(* Properties. *)
Stages == {"new", "acquired", "executed", "completed", "destroyed", "retired", "gone"}
Optional(S) == S \cup {None}

(* The types of the ring, the pool and the submission records. *)
RingTypeOK ==
    /\ holder \in [Resources -> Optional(Submissions)]
    /\ quarantined \subseteq Resources
    /\ slotsInUse \subseteq Resources
    /\ slotsProtected \subseteq slotsInUse
    /\ unknowns \in Nat
    /\ stage \in [Submissions -> Stages]
    /\ eventOf \in [Submissions -> Optional(Resources)]
    /\ slotOf \in [Submissions -> Optional(Resources)]
    /\ leaseOf \in [Submissions -> Optional(Resources)]
    /\ mark \in [Submissions -> {"none", "recorded", "drained"}]
    /\ disposition \in [Submissions -> {"pending", "complete", "unknown"}]
    /\ result \in [Submissions -> {"pending", "success", "failed"}]
    /\ native \in [Submissions -> {"none", "running", "done"}]
    /\ uses \in [Submissions -> Optional(Resources) \X Optional(Resources)]

Running == {s \in Submissions : native[s] = "running"}

(* Fixed resources are reused only after proven completion: work the device *)
(* may still be running keeps its event and its metadata slot out of the    *)
(* free pools, even when every synchronization failed and the submission    *)
(* record itself is gone.                                                   *)
RunningHoldsResources ==
    \A s \in Running :
        /\ uses[s][1] # None /\ holder[uses[s][1]] = s
        /\ uses[s][2] # None => uses[s][2] \in slotsInUse

(* No two pieces of running work share an event or a metadata slot. *)
RunningDisjoint ==
    \A s, r \in Running : s # r =>
        /\ uses[s][1] # uses[r][1]
        /\ uses[s][2] # None => uses[s][2] # uses[r][2]

(* A submission is never called complete while its work is running. *)
ProofIsSound == \A s \in Submissions : disposition[s] = "complete" => native[s] # "running"

(* The counter that decides whether a dying queue may give its partition    *)
(* back is the number of quarantined events.                                *)
UnknownsCounted == unknowns = Cardinality(quarantined)

(* Nothing is leaked: once no submission is in between, what is not free is *)
(* quarantined or protected.                                                *)
IdleMeansFree ==
    Idle => /\ {e \in Resources : holder[e] # None} = quarantined
            /\ slotsInUse = slotsProtected
================================================================================
