------------------------------- MODULE SyclQueue -------------------------------
(***************************************************************************)
(* The SYCL queue (src/src/sycl/queue*.{hpp,cpp}): a dispatch borrows a    *)
(* completion slot and a metadata slot, enqueues on the in-order native    *)
(* queue and binds the event; the staged worker waits for the task, gives  *)
(* the slots back, settles owners and token, and pumps the next dispatch.  *)
(*                                                                         *)
(* Unlike the event ring of CUDA and ROCm, everything a submission learns  *)
(* lives in a SyclFenceState that three parties read and change under its  *)
(* mutex: the dispatch that fills it, the worker, and any thread that asks *)
(* the registry whether the storage of the submission is still in use.     *)
(* SyclFenceState::result() is one step here: it holds mu_ throughout, and *)
(* it ends only when the native event it waits for, if any, has ended.     *)
(***************************************************************************)
EXTENDS Integers, FiniteSets

CONSTANTS
    Slots,          \* slots of the completion pool and of the metadata partition
    Kind,           \* task -> "noop", "copy", "binary" or "embedding"; the tasks
                    \* are 1 .. N in the order the queue accepts them
    OutOfRange,     \* embeddings with an index beyond the table
    MaxFaults,      \* bound: native calls that fail
    EarlyObserver,  \* a fence is asked while its dispatch is still running
    LateFaults      \* an enqueue fails on a retried task or below the destructor

ASSUME SyclQueueAssumption ==
    /\ IsFiniteSet(Slots) /\ Slots # {} /\ Slots \subseteq Nat \ {0}
    /\ MaxFaults \in Nat
    /\ {EarlyObserver, LateFaults} \subseteq BOOLEAN
    /\ DOMAIN Kind \subseteq Nat \ {0}
    /\ \A t \in DOMAIN Kind : Kind[t] \in {"noop", "copy", "binary", "embedding"}
    /\ \A t \in OutOfRange : Kind[t] = "embedding"

Tasks == DOMAIN Kind
None == 0

VARIABLES
    stage,          \* task -> how far dispatch, worker and completion have come
    comp, meta,     \* task -> completion_slot_ and slot_ of its fence state
    compUse, compProt, metaUse, metaProt,   \* in_use and protected_ of the pools
    event,          \* completion slot -> the task whose event it holds
    fence,          \* task -> the other members of its SyclFenceState
    work,           \* task -> what the device is doing with it
    uses,           \* task -> the slots its native work reads and writes
    cell,           \* metadata slot -> the embedding status it carries
    staging,        \* task -> host staging of a binary
    owners, lease,  \* task -> its registry entries and workspace lease
    token,          \* task -> what the waiter of its token is told
    stalled,        \* the head of the admission queue waits for a completion
    dtor, drained,  \* progress of ~SyclQueue and its covering wait
    faults

fenceVars == <<comp, meta, fence, staging>>
poolVars == <<compUse, compProt, metaUse, metaProt, event>>
nativeVars == <<work, uses, cell>>
settleVars == <<owners, lease, token>>
dtorVars == <<dtor, drained>>
vars == <<stage, fenceVars, poolVars, nativeVars, settleVars, stalled, dtorVars, faults>>

NewState == [bound |-> FALSE, proved |-> FALSE, retained |-> FALSE, cached |-> "none",
             action |-> FALSE, cleanup |-> FALSE]

Init ==
    /\ stage = [t \in Tasks |-> "new"]
    /\ comp = [t \in Tasks |-> None] /\ meta = [t \in Tasks |-> None]
    /\ compUse = {} /\ compProt = {} /\ metaUse = {} /\ metaProt = {}
    /\ event = [c \in Slots |-> None]
    /\ fence = [t \in Tasks |-> NewState]
    /\ work = [t \in Tasks |-> "none"]
    /\ uses = [t \in Tasks |-> {}]
    /\ \E b \in BOOLEAN : cell = [m \in Slots |-> b]    \* allocate_host_status zeroes
                                                        \* nothing; both values occur
    /\ staging = [t \in Tasks |-> "none"]
    /\ owners = [t \in Tasks |-> "none"] /\ lease = [t \in Tasks |-> "none"]
    /\ token = [t \in Tasks |-> "none"]
    /\ stalled = FALSE
    /\ dtor = "open" /\ drained = FALSE
    /\ faults = 0

Fault == faults < MaxFaults /\ faults' = faults + 1
Terminal(t) == work[t] \in {"none", "done", "error"}
Dispatching == {t \in Tasks : stage[t] \in {"entered", "slotted", "described", "launched", "bound", "ended"}}
InWorker == {t \in Tasks : stage[t] \in {"popped", "waited", "cleared", "destroyed"}}
Leased(t) == Kind[t] \in {"binary", "embedding"}

--------------------------------------------------------------------------------
(* SyclFenceState::result.  The pool wait is a no-op for a task     *)
(* that was parked or whose event is not bound yet.                         *)
Observed(t) == comp[t] # None /\ event[comp[t]] = t
ResultReady(t) == fence[t].cached # "none" \/ (Observed(t) => Terminal(t))

(* Stage 3 runs once a native event is bound or has been waited for. *)
WithAction(t) == fence[t].action /\ (fence[t].bound \/ Observed(t))

(* Stages 1 to 3: native error, then retained failure, then status cell. *)
ResultValue(t) ==
    LET f == fence[t] IN
    IF f.cached # "none" THEN f.cached
    ELSE IF \/ Observed(t) /\ work[t] = "error"
            \/ f.retained
            \/ WithAction(t) /\ cell[CHOOSE m \in Slots : <<"meta", m>> \in uses[t]]
         THEN "failed" ELSE "success"

(* Seeded fault: a result is kept although no event was bound yet. *)
MutCacheAll(t) == TRUE

Cacheable(t) == Observed(t) \/ WithAction(t)

(* Stages 3 to 5: the action is consumed, the cleanup run, proof and cache set. *)
AfterResult(t) ==
    LET f == fence[t]
        v == ResultValue(t)
    IN IF f.cached # "none" THEN f
       ELSE [f EXCEPT
               !.action = @ /\ ~(WithAction(t) /\ ~f.retained /\ ~(Observed(t) /\ work[t] = "error")),
               !.cleanup = FALSE,
               !.proved = @ \/ WithAction(t) \/ (Observed(t) /\ v = "success"),
               !.cached = IF Cacheable(t) THEN v ELSE "none"]

result(t) ==
    /\ ResultReady(t)
    /\ fence' = [fence EXCEPT ![t] = AfterResult(t)]
    /\ staging' = [staging EXCEPT ![t] =
                     IF fence[t].cleanup /\ fence[t].cached = "none" THEN "freed" ELSE @]

--------------------------------------------------------------------------------
(* Submission: the *_impl functions make the fence state and hand it, with *)
(* the dispatch, to the common admission protocol (module DeviceOps), which *)
(* registers the owners, keeps FIFO order and dispatches one at a time.     *)
Submit(t) ==
    /\ dtor = "open"
    /\ stage[t] = "new" /\ \A u \in Tasks : u < t => stage[u] # "new"
    /\ stage' = [stage EXCEPT ![t] = "queued"]
    /\ owners' = [owners EXCEPT ![t] = "held"]
    /\ lease' = [lease EXCEPT ![t] = IF Leased(t) THEN "held" ELSE "none"]
    /\ token' = [token EXCEPT ![t] = "pending"]
    /\ UNCHANGED <<fenceVars, poolVars, nativeVars, stalled, dtorVars, faults>>

HeadOf(S) == {t \in S : \A u \in S : t <= u}
Queued == {t \in Tasks : stage[t] = "queued"}

(* What a submission that fails before its first native call leaves: the    *)
(* registrations are rolled back and the slots return with the fence state. *)
Refused(t) ==
    /\ stage' = [stage EXCEPT ![t] = "refused"]
    /\ compUse' = compUse \ {comp[t]} /\ metaUse' = metaUse \ {meta[t]}
    /\ comp' = [comp EXCEPT ![t] = None] /\ meta' = [meta EXCEPT ![t] = None]
    /\ fence' = [fence EXCEPT ![t].proved = TRUE, ![t].cleanup = FALSE]
    /\ staging' = [staging EXCEPT ![t] = IF @ = "live" THEN "freed" ELSE @]
    /\ owners' = [owners EXCEPT ![t] = "released"]
    /\ lease' = [lease EXCEPT ![t] = IF @ = "held" THEN "returned" ELSE @]
    /\ token' = [token EXCEPT ![t] = "failed"]
    /\ UNCHANGED <<compProt, metaProt, event, nativeVars, stalled, dtorVars, faults>>

(* StagedWorker::submit and the start of execute_*: outcome insertion. *)
Enter ==
    \E t \in HeadOf(Queued) :
       /\ Dispatching = {} /\ ~stalled
       /\ dtor \in {"open", "waited"}
       /\ stage' = [stage EXCEPT ![t] = IF Kind[t] = "noop" THEN "published" ELSE "entered"]
       /\ UNCHANGED <<fenceVars, poolVars, nativeVars, settleVars, stalled, dtorVars,
                      faults>>

(* The outcome cannot be inserted, or the worker is already shut down. *)
EnterRefused ==
    \E t \in HeadOf(Queued) :
       Dispatching = {} /\ (~stalled \/ dtor = "shutdown") /\ Refused(t)

(* AdmissionResourceUnavailable: the attempt is undone, the same state is   *)
(* kept for the next one, and whatever slot it already holds stays with it. *)
Park(t) ==
    /\ stage' = [stage EXCEPT ![t] = "queued"]
    /\ fence' = [fence EXCEPT ![t].proved = TRUE]
    /\ stalled' = TRUE
    /\ UNCHANGED <<comp, meta, staging, poolVars, nativeVars, settleVars, dtorVars,
                   faults>>

(* SyclCompletionPool::try_acquire and set_completion_slot. *)
AcquireCompletion(t) ==
    /\ stage[t] = "entered"
    /\ \/ compUse = Slots /\ Park(t)
       \/ \E c \in HeadOf(Slots \ compUse) :
            /\ compUse' = compUse \cup {c}
            /\ comp' = [comp EXCEPT ![t] = c]
            /\ stage' = [stage EXCEPT ![t] = "slotted"]
            /\ UNCHANGED <<meta, fence, staging, compProt, metaUse, metaProt, event,
                           nativeVars, settleVars, stalled, dtorVars, faults>>

(* Copy, embedding and the descriptor-driven operators then take a slot of  *)
(* the partition; a binary allocates its host staging and registers its     *)
(* release.                                                                 *)
Prepare(t) ==
    /\ stage[t] = "slotted"
    /\ IF Kind[t] # "binary" /\ metaUse = Slots THEN Park(t) ELSE
       /\ stage' = [stage EXCEPT ![t] = "described"]
       /\ \/ /\ Kind[t] = "binary"
             /\ staging' = [staging EXCEPT ![t] = "live"]
             /\ fence' = [fence EXCEPT ![t].cleanup = TRUE]
             /\ UNCHANGED <<meta, metaUse>>
          \/ /\ Kind[t] # "binary"
             /\ \E m \in HeadOf(Slots \ metaUse) :
                  metaUse' = metaUse \cup {m} /\ meta' = [meta EXCEPT ![t] = m]
             /\ UNCHANGED <<fence, staging>>
       /\ UNCHANGED <<comp, compUse, compProt, metaProt, event, nativeVars, settleVars,
                      stalled, dtorVars, faults>>

(* Descriptor, allocation or argument failure before native_attempted. *)
PrepareFails(t) == stage[t] = "described" /\ Refused(t)

SlotsOf(t) == {<<"comp", comp[t]>>} \cup (IF meta[t] = None THEN {} ELSE {<<"meta", meta[t]>>})

(* native_attempted: all enqueues return, or one throws when the device may *)
(* already run the ones before it; execute_* then retains the failure and   *)
(* the task is published without an event.                                  *)
Launch(t) ==
    /\ stage[t] = "described"
    /\ work' = [work EXCEPT ![t] = "running"]
    /\ uses' = [uses EXCEPT ![t] = SlotsOf(t)]
    /\ \/ /\ stage' = [stage EXCEPT ![t] = "launched"]
          /\ fence' = [fence EXCEPT ![t].action = Kind[t] = "embedding"]
          /\ UNCHANGED faults
       \/ /\ LateFaults \/ (~fence[t].proved /\ dtor = "open")
          /\ Fault
          /\ stage' = [stage EXCEPT ![t] = "ended"]
          /\ fence' = [fence EXCEPT ![t].retained = TRUE]
    /\ UNCHANGED <<comp, meta, staging, poolVars, cell, settleVars, stalled, dtorVars>>

(* SyclFenceState::set_event: event_bound_ under mu_, then the pool event. *)
BindEvent(t) ==
    /\ stage[t] = "launched"
    /\ stage' = [stage EXCEPT ![t] = "bound"]
    /\ fence' = [fence EXCEPT ![t].bound = TRUE]
    /\ UNCHANGED <<comp, meta, staging, poolVars, nativeVars, settleVars, stalled,
                   dtorVars, faults>>

SetPoolEvent(t) ==
    /\ stage[t] = "bound"
    /\ stage' = [stage EXCEPT ![t] = "ended"]
    /\ event' = [event EXCEPT ![comp[t]] = t]
    /\ UNCHANGED <<fenceVars, compUse, compProt, metaUse, metaProt, nativeVars, settleVars,
                   stalled, dtorVars, faults>>

(* Nothing after set_event can fail; tasks_ gets the task. *)
Publish(t) ==
    /\ stage[t] = "ended"
    /\ stage' = [stage EXCEPT ![t] = "published"]
    /\ UNCHANGED <<fenceVars, poolVars, nativeVars, settleVars, stalled, dtorVars,
                   faults>>

Dispatch(t) ==
    \/ AcquireCompletion(t) \/ Prepare(t) \/ PrepareFails(t)
    \/ Launch(t) \/ BindEvent(t) \/ SetPoolEvent(t) \/ Publish(t)

--------------------------------------------------------------------------------
(* The in-order native queue. A completed embedding has copied its status   *)
(* to the cell of its metadata slot; a failed one has not.                  *)
NativeEnds(t) ==
    /\ work[t] = "running" /\ \A u \in Tasks : u < t => Terminal(u)
    /\ \/ /\ work' = [work EXCEPT ![t] = "done"]
          /\ cell' = IF fence[t].action
                     THEN [m \in Slots |-> IF m = meta[t] THEN t \in OutOfRange ELSE cell[m]]
                     ELSE cell
          /\ UNCHANGED faults
       \/ /\ work' = [work EXCEPT ![t] = "error"]
          /\ UNCHANGED cell
          /\ Fault
    /\ UNCHANGED <<stage, fenceVars, poolVars, uses, settleVars, stalled, dtorVars>>

--------------------------------------------------------------------------------
(* Any thread that asks the registry about a tensor of the task invokes the *)
(* fence. EarlyObserver is the part of its life the code answers wrongly.   *)
Asked(t) ==
    /\ owners[t] = "held"
    /\ EarlyObserver \/ Observed(t) \/ ~(fence[t].cleanup \/ (fence[t].action /\ fence[t].bound))
    /\ result(t)
    /\ UNCHANGED <<stage, comp, meta, poolVars, nativeVars, settleVars, stalled, dtorVars,
                   faults>>

--------------------------------------------------------------------------------
(* StagedWorker::run and process. *)
Pop ==
    \E t \in HeadOf({u \in Tasks : stage[u] = "published"}) :
       /\ InWorker = {}
       /\ stage' = [stage EXCEPT ![t] = IF Kind[t] = "noop" THEN "destroyed"
                                        ELSE IF dtor = "shutdown" THEN "waited" ELSE "popped"]
       /\ UNCHANGED <<fenceVars, poolVars, nativeVars, settleVars, stalled, dtorVars,
                      faults>>

(* fence_complete: skipped when the worker already sees the shutdown. *)
FenceComplete(t) ==
    /\ stage[t] = "popped"
    /\ result(t)
    /\ stage' = [stage EXCEPT ![t] = "waited"]
    /\ UNCHANGED <<comp, meta, poolVars, nativeVars, settleVars, stalled, dtorVars,
                   faults>>

(* Seeded fault: a slot goes back whether or not its work is proved. *)
MutGivenBack(use, s, proved) == use \ {s}

(* release_after_proof or protect, of one slot of either pool. *)
GivenBack(use, s, proved) == IF proved THEN use \ {s} ELSE use
Protected(prot, s, proved) == IF proved \/ s = None THEN prot ELSE prot \cup {s}

release_metadata_slot(t, proved) ==
    /\ metaUse' = GivenBack(metaUse, meta[t], proved)
    /\ metaProt' = Protected(metaProt, meta[t], proved)
    /\ meta' = [meta EXCEPT ![t] = None]
    /\ UNCHANGED <<comp, compUse, compProt, event>>

release_completion_slot(t, proved) ==
    /\ compUse' = GivenBack(compUse, comp[t], proved)
    /\ compProt' = Protected(compProt, comp[t], proved)
    /\ event' = IF proved THEN [event EXCEPT ![comp[t]] = None] ELSE event
    /\ comp' = [comp EXCEPT ![t] = None]
    /\ UNCHANGED <<meta, metaUse, metaProt>>

(* Seeded fault: the completion slot is given back first. *)
MutCompletionFirst == <<"comp", "meta">>

(* fence_destroy asks the result once more and releases one slot after the  *)
(* other, each under the mutex of its own pool.                             *)
ReleaseOrder == <<"meta", "comp">>

ReleaseSlot(t, pool, proved) ==
    IF pool = "meta" THEN release_metadata_slot(t, proved) ELSE release_completion_slot(t, proved)

FenceDestroy(t) ==
    /\ \/ /\ stage[t] = "waited"
          /\ result(t)
          /\ ReleaseSlot(t, ReleaseOrder[1], AfterResult(t).proved)
          /\ stage' = [stage EXCEPT ![t] = "cleared"]
       \/ /\ stage[t] = "cleared"
          /\ ReleaseSlot(t, ReleaseOrder[2], fence[t].proved)
          /\ stage' = [stage EXCEPT ![t] = "destroyed"]
          /\ UNCHANGED <<fence, staging>>
    /\ UNCHANGED <<nativeVars, settleVars, stalled, dtorVars, faults>>

(* Seeded fault: owners are released whenever the token is settled. *)
MutAlwaysSucceeded(t) == TRUE

(* complete_task: an embedding's owners follow the proof, those of the     *)
(* others its success; a workspace lease always follows the proof. The     *)
(* completion lets the admission queue try its head again.                  *)
FenceSucceeded(t) ==
    IF Kind[t] = "embedding" THEN fence[t].proved ELSE ResultValue(t) = "success"

(* Seeded fault: a completion pumps nothing. *)
MutNoPump(t) ==
    /\ stage[t] = "destroyed"
    /\ result(t)
    /\ stage' = [stage EXCEPT ![t] = "done"]
    /\ owners' = [owners EXCEPT ![t] = IF FenceSucceeded(t) THEN "released" ELSE "invalidated"]
    /\ lease' = [lease EXCEPT ![t] = IF @ = "held" /\ fence[t].proved THEN "returned" ELSE @]
    /\ token' = [token EXCEPT ![t] = IF ResultValue(t) = "success" THEN "ok" ELSE "failed"]
    /\ UNCHANGED <<comp, meta, poolVars, nativeVars, stalled, dtorVars, faults>>

complete_task(t) ==
    /\ stage[t] = "destroyed"
    /\ result(t)
    /\ stage' = [stage EXCEPT ![t] = "done"]
    /\ owners' = [owners EXCEPT ![t] = IF FenceSucceeded(t) THEN "released" ELSE "invalidated"]
    /\ lease' = [lease EXCEPT ![t] = IF @ = "held" /\ fence[t].proved THEN "returned" ELSE @]
    /\ token' = [token EXCEPT ![t] = IF ResultValue(t) = "success" THEN "ok" ELSE "failed"]
    /\ stalled' = FALSE
    /\ UNCHANGED <<comp, meta, poolVars, nativeVars, dtorVars, faults>>

Process(t) ==
    FenceComplete(t) \/ FenceDestroy(t) \/ complete_task(t)

--------------------------------------------------------------------------------
(* A device that failed a task may fail the covering wait as well. *)
FailedBefore == (\E t \in Tasks : work[t] = "error") /\ UNCHANGED faults

(* ~SyclQueue. Nobody submits any more, but the worker still runs. *)
CoveringWait ==
    /\ dtor = "open"
    /\ Dispatching = {} \/ InWorker # {}
    /\ \/ (\A t \in Tasks : work[t] # "running") /\ drained' = TRUE /\ UNCHANGED faults
       \/ (Fault \/ FailedBefore) /\ drained' = FALSE
    /\ dtor' = "waited"
    /\ UNCHANGED <<stage, fenceVars, poolVars, nativeVars, settleVars, stalled>>

(* shutdown_ is set: the worker empties tasks_ without fence_complete, and  *)
(* close_and_drain fails what never was dispatched.                         *)
Shutdown ==
    /\ dtor = "waited"
    /\ dtor' = "shutdown"
    /\ UNCHANGED <<stage, fenceVars, poolVars, nativeVars, settleVars, stalled,
                   drained, faults>>

Settled == \A t \in Tasks : stage[t] \in {"new", "refused", "done"}
UnprovenLeases == compUse # {} \/ metaUse # {}

(* Drained: every protected slot is released and the partition returned. *)
ReturnPartition ==
    /\ dtor = "shutdown" /\ Settled
    /\ drained \/ ~UnprovenLeases
    /\ dtor' = "returned"
    /\ compUse' = compUse \ compProt /\ compProt' = {}
    /\ metaUse' = metaUse \ metaProt /\ metaProt' = {}
    /\ event' = [c \in Slots |-> IF c \in compProt THEN None ELSE event[c]]
    /\ UNCHANGED <<stage, fenceVars, nativeVars, settleVars, stalled, drained, faults>>

(* Otherwise the lease is retained with the queue's own covering proof. *)
RetainLease ==
    /\ dtor = "shutdown" /\ Settled
    /\ ~drained /\ UnprovenLeases
    /\ dtor' = "retained"
    /\ UNCHANGED <<stage, fenceVars, poolVars, nativeVars, settleVars, stalled,
                   drained, faults>>

(* reclaim: the device asks the retained proof again. *)
Reclaim ==
    /\ dtor = "retained"
    /\ \A t \in Tasks : work[t] # "running"
    /\ dtor' = "returned"
    /\ compUse' = compUse \ compProt /\ compProt' = {}
    /\ metaUse' = metaUse \ metaProt /\ metaProt' = {}
    /\ event' = [c \in Slots |-> None]
    /\ UNCHANGED <<stage, fenceVars, nativeVars, settleVars, stalled, drained, faults>>

Destroy == CoveringWait \/ Shutdown \/ ReturnPartition \/ RetainLease \/ Reclaim

Next ==
    \/ \E t \in Tasks : Submit(t) \/ Dispatch(t) \/ NativeEnds(t) \/ Asked(t) \/ Process(t)
    \/ Enter \/ EnterRefused \/ Pop \/ Destroy

Spec == Init /\ [][Next]_vars

(* The device finishes what it was given, the worker thread and the thread *)
(* that dispatches run; nothing forces a submission, an observer, a fault   *)
(* or the destructor's start.                                               *)
FairSpec ==
    /\ Spec
    /\ \A t \in Tasks :
         /\ WF_vars(AcquireCompletion(t) \/ Prepare(t) \/ Launch(t)
                    \/ BindEvent(t) \/ SetPoolEvent(t) \/ Publish(t))
         /\ WF_vars(NativeEnds(t))
         /\ WF_vars(Process(t))
    /\ WF_vars(Enter) /\ WF_vars(Pop)
    /\ WF_vars(EnterRefused /\ dtor = "shutdown")
    /\ WF_vars(Shutdown) /\ WF_vars(ReturnPartition \/ RetainLease)

--------------------------------------------------------------------------------
(* Running native work still owns every slot it uses: no release, no retry, *)
(* no destructor and no observer of a fence hands one to somebody else.     *)
SlotsCoverWork ==
    \A t \in Tasks : work[t] = "running" =>
        /\ \A c \in Slots : <<"comp", c>> \in uses[t] => c \in compUse
        /\ \A m \in Slots : <<"meta", m>> \in uses[t] => m \in metaUse
        /\ \A u \in Tasks \ {t} : work[u] = "running" => uses[t] \cap uses[u] = {}

(* Every slot in use belongs to a task that will give it back or is         *)
(* protected: a dispatch that has its completion slot never finds the       *)
(* partition empty, since fence_destroy releases the metadata slot first.   *)
NoSlotStranded ==
    /\ compUse = compProt \cup {comp[t] : t \in {u \in Tasks : comp[u] # None}}
    /\ metaUse = metaProt \cup {meta[t] : t \in {u \in Tasks : meta[u] # None}}
    /\ Cardinality(metaUse) <= Cardinality(compUse)

(* The two pools never hand out what running work uses, and lose no slot. *)
SlotsSound == SlotsCoverWork /\ NoSlotStranded

(* A token reports success exactly for work that ran to its end with every  *)
(* index in range and no failure on the way, whoever read the fence before. *)
TokenTruthful ==
    \A t \in Tasks :
        /\ token[t] = "ok" /\ Kind[t] # "noop" =>
              work[t] = "done" /\ ~fence[t].retained /\ t \notin OutOfRange
        /\ token[t] = "failed" => \/ stage[t] = "refused" \/ work[t] = "error"
                                  \/ fence[t].retained \/ t \in OutOfRange

(* Owners and workspace are given up only when the device no longer uses    *)
(* them, and a returned partition is one no native work touches.            *)
ReleasedMeansIdle ==
    /\ \A t \in Tasks : owners[t] = "released" \/ lease[t] = "returned" => work[t] # "running"
    /\ dtor = "returned" => \A t \in Tasks : work[t] # "running"

(* Every accepted submission is completed, and ~SyclQueue returns, as long  *)
(* as fewer native calls fail than there are slots to protect.              *)
TokensComplete ==
    /\ \A t \in Tasks : token[t] = "pending" ~> token[t] \in {"ok", "failed"}
    /\ dtor = "waited" ~> dtor \in {"returned", "retained"}

(* The call that submitted t has returned: t is parked behind the slots, or *)
(* published.                                                               *)
Returned(t) == stage[t] = "published" \/ t \in InWorker \/ (stalled /\ stage[t] = "queued")

(* fence.hpp: whenever the registry asks for it, the fence of a submission  *)
(* that has not reached a terminal state answers anything but success.      *)
FenceNeverEarly ==
    \A t \in Tasks :
        Returned(t) /\ ResultReady(t) /\ ResultValue(t) = "success" =>
            work[t] = "done" \/ Kind[t] = "noop"
================================================================================
