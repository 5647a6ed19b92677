------------------------------- MODULE DeviceOps -------------------------------
(***************************************************************************)
(* The admission and token protocol every iom queue inherits from          *)
(* DeviceOps (src/src/device_ops.cpp).                                     *)
(*                                                                         *)
(* Two threads run it.  "host" is the caller: callers serialize their      *)
(* calls on one queue, so submit, wait and the destructor never overlap.   *)
(* "worker" is the thread the concrete queue owns: it finishes accepted    *)
(* tasks in order, completes their sequence and then pumps, i.e. it        *)
(* dispatches parked submissions itself.  A lock section of                *)
(* completion_mutex_ is one step; so is a hook called with the mutex free  *)
(* (prepare, dispatch, rollback).  A rollback touches nothing but its own  *)
(* submission's registrations and is merged with the lock section next to  *)
(* it.                                                                     *)
(***************************************************************************)
EXTENDS Integers, Sequences, FiniteSets

CONSTANTS
    Capacity,       \* admission_capacity_: ops that may hold a native credit
    MaxSequence,    \* kMaxSequence: the last sequence a token can encode
    JoinFirst,      \* ~Queue joins its worker before admission closes (CPU)
    MayPark,        \* dispatch may throw AdmissionResourceUnavailable
    RetryMayThrow   \* a dispatch other than the submitter's own may throw

ASSUME DeviceOpsAssumption ==
    /\ Capacity \in Nat \ {0}
    /\ MaxSequence \in Nat \ {0}
    /\ JoinFirst \in BOOLEAN
    /\ MayPark \in BOOLEAN
    /\ RetryMayThrow \in BOOLEAN

Threads == {"host", "worker"}
Sequences1 == 1 .. MaxSequence

VARIABLES
    next,           \* next_sequence_
    completed,      \* completed_, the high-water mark wait() compares with
    failures,       \* keys of failures_
    pending,        \* keys of pending_failures_
    skipped,        \* members of the skipped_sequences_ ranges
    nodes,          \* keys of admission_nodes_
    executing,      \* those of them whose node is executing
    fifo,           \* admission_fifo_
    credits,        \* admission_credits_
    pumping,        \* admission_pumping_
    closing,        \* admission_closing_
    shutdown,       \* the concrete queue's worker shutdown flag
    tasks,          \* the worker's published task list
    live,           \* sequences whose lifetime registrations are Live
    pc,             \* where each thread is
    cur,            \* the sequence each thread is working on
    fault,          \* the exception each thread is carrying, if any
    mine,           \* the host's own submission (synchronous_sequence)
    drainList,      \* close_and_drain's snapshot of the parked sequences
    issued,         \* tokens returned to the caller
    observed        \* <<token, outcome>> pairs wait() has reported

tokenVars == <<next, completed, failures, pending, skipped>>
nodeVars  == <<nodes, executing, fifo, credits>>
callVars  == <<issued, observed>>
vars == <<next, completed, failures, pending, skipped, nodes, executing, fifo,
          credits, pumping, closing, shutdown, tasks, live, pc, cur, fault,
          mine, drainList, issued, observed>>

--------------------------------------------------------------------------------
(* The state of a new queue. *)
Init ==
    /\ next = 1 /\ completed = 0
    /\ failures = {} /\ pending = {} /\ skipped = {}
    /\ nodes = {} /\ executing = {} /\ fifo = <<>> /\ credits = 0
    /\ pumping = FALSE /\ closing = FALSE /\ shutdown = FALSE
    /\ tasks = <<>> /\ live = {}
    /\ pc = [t \in Threads |-> "idle"]
    /\ cur = [t \in Threads |-> 0]
    /\ fault = [t \in Threads |-> FALSE]
    /\ mine = 0 /\ drainList = {} /\ issued = {} /\ observed = {}

At(t, label) == pc[t] = label
Goto(t, label) == pc' = [pc EXCEPT ![t] = label]

Parked == nodes \ executing

(* The deque without one of its entries. *)
Without(q, s) ==
    LET i == CHOOSE k \in 1 .. Len(q) : q[k] = s
    IN  [k \in 1 .. Len(q) - 1 |-> IF k < i THEN q[k] ELSE q[k + 1]]

(* Seeded fault: the newest parked entry. *)
CandidateNewest == CHOOSE s \in Parked : \A o \in Parked : o <= s

(* The first deque entry whose node is not executing.  The code also drops  *)
(* entries without a node on the way; FifoMatchesNodes shows there are none. *)
Candidate ==
    LET i == CHOOSE k \in 1 .. Len(fifo) :
                 /\ fifo[k] \in Parked
                 /\ \A j \in 1 .. k - 1 : fifo[j] \notin Parked
    IN  fifo[i]

(* Seeded fault: the number is neither handed out again nor recorded. *)
AbandonForgotten(s) ==
    pending' = pending \ {s} /\ UNCHANGED <<next, completed, failures, skipped>>

(* A sequence that got no token: the newest one is handed out again. *)
AbandonSequence(s) ==
    /\ pending' = pending \ {s}
    /\ IF next = s + 1 /\ completed < s
       THEN next' = next - 1 /\ UNCHANGED skipped
       ELSE skipped' = skipped \cup {s} /\ UNCHANGED next
    /\ UNCHANGED <<completed, failures>>

(* Seeded fault: only the front of the deque is looked at. *)
EraseFrontOnly(s) ==
    /\ nodes' = nodes \ {s}
    /\ executing' = executing \ {s}
    /\ fifo' = IF Head(fifo) = s THEN Tail(fifo) ELSE fifo
    /\ credits' = IF s \in executing /\ credits # 0 THEN credits - 1 ELSE credits

(* The node, its deque entry and its credit go away together. *)
EraseNode(s) ==
    /\ nodes' = nodes \ {s}
    /\ executing' = executing \ {s}
    /\ fifo' = Without(fifo, s)
    /\ credits' = IF s \in executing /\ credits # 0 THEN credits - 1 ELSE credits

(* The lock section of complete(). *)
Complete(s, failed) ==
    /\ failures' = IF failed \/ s \in pending THEN failures \cup {s} ELSE failures
    /\ pending' = pending \ {s}
    /\ EraseNode(s)
    /\ completed' = IF completed < s THEN s ELSE completed
    /\ UNCHANGED <<next, skipped>>

--------------------------------------------------------------------------------
(* submit_prepared, on the host. *)
Submit ==
    /\ At("host", "idle") /\ ~closing
    /\ next <= MaxSequence
    /\ next' = next + 1
    /\ mine' = next
    /\ fault' = [fault EXCEPT !["host"] = FALSE]
    /\ Goto("host", "prepare")
    /\ UNCHANGED <<completed, failures, pending, skipped, nodeVars, pumping, closing,
                   shutdown, tasks, live, cur, drainList, callVars>>

(* prepare() registers the owners and leases the workspace, or undoes its  *)
(* own partial work and throws.                                            *)
Prepare(ok) ==
    /\ At("host", "prepare")
    /\ live' = IF ok THEN live \cup {mine} ELSE live
    /\ Goto("host", IF ok THEN "publish" ELSE "unwind")
    /\ UNCHANGED <<tokenVars, nodeVars, pumping, closing, shutdown, tasks, cur, fault,
                   mine, drainList, callVars>>

Publish ==
    /\ At("host", "publish")
    /\ nodes' = nodes \cup {mine}
    /\ fifo' = Append(fifo, mine)
    /\ Goto("host", "enter")
    /\ UNCHANGED <<tokenVars, executing, credits, pumping, closing, shutdown, tasks,
                   live, cur, fault, mine, drainList, callVars>>

(* The node or the deque entry could not be allocated. *)
PublishFails ==
    /\ At("host", "publish")
    /\ Goto("host", "unwind")
    /\ UNCHANGED <<tokenVars, nodeVars, pumping, closing, shutdown, tasks, live, cur,
                   fault, mine, drainList, callVars>>

(* Roll back and rethrow: the caller gets no token. *)
Unwind ==
    /\ At("host", "unwind")
    /\ live' = live \ {mine}
    /\ AbandonSequence(mine)
    /\ mine' = 0
    /\ Goto("host", "idle")
    /\ UNCHANGED <<nodeVars, pumping, closing, shutdown, tasks, cur, fault, drainList,
                   callVars>>

--------------------------------------------------------------------------------
(* pump_admission, on either thread. *)

(* Back from the pump: the host's submission returns its token unless its   *)
(* own dispatch threw; the worker looks for its next task.                  *)
LeavePump(t) ==
    /\ Goto(t, "idle")
    /\ IF t = "host"
       THEN /\ issued' = IF fault[t] THEN issued ELSE issued \cup {mine}
            /\ mine' = 0
       ELSE UNCHANGED <<issued, mine>>
    /\ UNCHANGED observed

(* Another thread is pumping, or admission is closed. *)
PumpBusy(t) ==
    /\ At(t, "enter")
    /\ pumping \/ closing
    /\ LeavePump(t)
    /\ UNCHANGED <<tokenVars, nodeVars, pumping, closing, shutdown, tasks, live, cur,
                   fault, drainList>>

(* Seeded fault: the pump is entered whether or not another thread pumps. *)
PumpEnterTwice(t) ==
    /\ At(t, "enter")
    /\ ~closing
    /\ pumping' = TRUE
    /\ Goto(t, "take")
    /\ UNCHANGED <<tokenVars, nodeVars, closing, shutdown, tasks, live, cur, fault,
                   mine, drainList, callVars>>

PumpEnter(t) ==
    /\ At(t, "enter")
    /\ ~pumping /\ ~closing
    /\ pumping' = TRUE
    /\ Goto(t, "take")
    /\ UNCHANGED <<tokenVars, nodeVars, closing, shutdown, tasks, live, cur, fault,
                   mine, drainList, callVars>>

(* Seeded fault: the pump flag stays set on the way out. *)
PumpStopStuck(t) ==
    /\ At(t, "take")
    /\ closing \/ credits >= Capacity \/ Parked = {}
    /\ LeavePump(t)
    /\ UNCHANGED <<tokenVars, nodeVars, pumping, closing, shutdown, tasks, live, cur,
                   fault, drainList>>

PumpStop(t) ==
    /\ At(t, "take")
    /\ closing \/ credits >= Capacity \/ Parked = {}
    /\ pumping' = FALSE
    /\ LeavePump(t)
    /\ UNCHANGED <<tokenVars, nodeVars, closing, shutdown, tasks, live, cur, fault,
                   drainList>>

PumpTake(t) ==
    /\ At(t, "take")
    /\ ~closing /\ credits < Capacity /\ Parked # {}
    /\ cur' = [cur EXCEPT ![t] = Candidate]
    /\ executing' = executing \cup {Candidate}
    /\ credits' = credits + 1
    /\ Goto(t, "dispatch")
    /\ UNCHANGED <<tokenVars, nodes, fifo, pumping, closing, shutdown, tasks, live,
                   fault, mine, drainList, callVars>>

(* The backend published the task to its worker. *)
DispatchAccept(t) ==
    /\ At(t, "dispatch")
    /\ ~shutdown
    /\ tasks' = Append(tasks, cur[t])
    /\ Goto(t, "take")
    /\ UNCHANGED <<tokenVars, nodeVars, pumping, closing, shutdown, live, cur, fault,
                   mine, drainList, callVars>>

(* A fixed backend resource is missing.  Nothing was locked when it was     *)
(* found missing: the node is re-parked by the later step Park.             *)
DispatchUnavailable(t) ==
    /\ At(t, "dispatch")
    /\ MayPark
    /\ Goto(t, "park")
    /\ UNCHANGED <<tokenVars, nodeVars, pumping, closing, shutdown, tasks, live, cur,
                   fault, mine, drainList, callVars>>

(* Seeded fault: the re-parked node keeps its credit. *)
ParkKeepsCredit(t) ==
    /\ At(t, "park")
    /\ executing' = executing \ {cur[t]}
    /\ pumping' = FALSE
    /\ LeavePump(t)
    /\ UNCHANGED <<tokenVars, nodes, fifo, credits, closing, shutdown, tasks, live, cur,
                   fault, drainList>>

(* Seeded fault: the re-parked node goes to the back of the deque. *)
ParkLast(t) ==
    /\ At(t, "park")
    /\ executing' = executing \ {cur[t]}
    /\ credits' = IF credits # 0 THEN credits - 1 ELSE credits
    /\ fifo' = Append(Without(fifo, cur[t]), cur[t])
    /\ pumping' = FALSE
    /\ LeavePump(t)
    /\ UNCHANGED <<tokenVars, nodes, closing, shutdown, tasks, live, cur, fault,
                   drainList>>

Park(t) ==
    /\ At(t, "park")
    /\ executing' = executing \ {cur[t]}
    /\ credits' = IF credits # 0 THEN credits - 1 ELSE credits
    /\ pumping' = FALSE
    /\ LeavePump(t)
    /\ UNCHANGED <<tokenVars, nodes, fifo, closing, shutdown, tasks, live, cur, fault,
                   drainList>>

(* The host's own submission threw before it was accepted. *)
DispatchRejected ==
    /\ At("host", "dispatch")
    /\ cur["host"] = mine
    /\ EraseNode(mine)
    /\ Goto("host", "abandon")
    /\ UNCHANGED <<tokenVars, pumping, closing, shutdown, tasks, live, cur, fault,
                   mine, drainList, callVars>>

(* Seeded fault: the rejected submission is not rolled back. *)
AbandonWithoutRollback ==
    /\ At("host", "abandon")
    /\ AbandonSequence(mine)
    /\ fault' = [fault EXCEPT !["host"] = TRUE]
    /\ Goto("host", "take")
    /\ UNCHANGED <<nodeVars, pumping, closing, shutdown, tasks, live, cur, mine,
                   drainList, callVars>>

AbandonRejected ==
    /\ At("host", "abandon")
    /\ live' = live \ {mine}
    /\ AbandonSequence(mine)
    /\ fault' = [fault EXCEPT !["host"] = TRUE]
    /\ Goto("host", "take")
    /\ UNCHANGED <<nodeVars, pumping, closing, shutdown, tasks, cur, mine, drainList,
                   callVars>>

(* Any other dispatch that throws has a token: it is completed as failed,   *)
(* whatever is still in flight before it.  The nested pump of complete()    *)
(* returns at once because this thread is pumping.                          *)
DispatchFails(t) ==
    /\ At(t, "dispatch")
    /\ ~(t = "host" /\ cur[t] = mine)
    /\ RetryMayThrow \/ shutdown
    /\ live' = live \ {cur[t]}
    /\ Complete(cur[t], TRUE)
    /\ Goto(t, "take")
    /\ UNCHANGED <<pumping, closing, shutdown, tasks, cur, fault, mine, drainList,
                   callVars>>

--------------------------------------------------------------------------------
(* Seeded fault: the worker drops what is queued when it is shut down. *)
WorkerPopOpen ==
    /\ At("worker", "idle")
    /\ tasks # <<>> /\ ~shutdown
    /\ cur' = [cur EXCEPT !["worker"] = Head(tasks)]
    /\ tasks' = Tail(tasks)
    /\ Goto("worker", "native")
    /\ UNCHANGED <<tokenVars, nodeVars, pumping, closing, shutdown, live, fault, mine,
                   drainList, callVars>>

(* The concrete queue's worker. *)
WorkerPop ==
    /\ At("worker", "idle")
    /\ tasks # <<>>
    /\ cur' = [cur EXCEPT !["worker"] = Head(tasks)]
    /\ tasks' = Tail(tasks)
    /\ Goto("worker", "native")
    /\ UNCHANGED <<tokenVars, nodeVars, pumping, closing, shutdown, live, fault, mine,
                   drainList, callVars>>

(* commit_failure: a retained failure for work that is not complete yet. *)
CommitFailure ==
    /\ At("worker", "native")
    /\ cur["worker"] < next /\ cur["worker"] > completed
    /\ cur["worker"] \notin skipped
    /\ pending' = pending \cup {cur["worker"]}
    /\ UNCHANGED <<next, completed, failures, skipped, nodeVars, pumping, closing,
                   shutdown, tasks, live, pc, cur, fault, mine, drainList, callVars>>

(* The native work is over; its registrations are released or invalidated. *)
WorkerFinish(failed) ==
    /\ At("worker", "native")
    /\ live' = live \ {cur["worker"]}
    /\ fault' = [fault EXCEPT !["worker"] = failed]
    /\ Goto("worker", "complete")
    /\ UNCHANGED <<tokenVars, nodeVars, pumping, closing, shutdown, tasks, cur, mine,
                   drainList, callVars>>

(* Seeded fault: completion does not pump. *)
WorkerCompleteNoPump ==
    /\ At("worker", "complete")
    /\ Complete(cur["worker"], fault["worker"])
    /\ Goto("worker", "idle")
    /\ UNCHANGED <<pumping, closing, shutdown, tasks, live, cur, fault, mine,
                   drainList, callVars>>

WorkerComplete ==
    /\ At("worker", "complete")
    /\ Complete(cur["worker"], fault["worker"])
    /\ Goto("worker", IF closing THEN "idle" ELSE "enter")
    /\ UNCHANGED <<pumping, closing, shutdown, tasks, live, cur, fault, mine,
                   drainList, callVars>>

--------------------------------------------------------------------------------
(* wait(token) and the sequence test hook, on the host. *)

(* The values wait() does not reject as never submitted. *)
Waitable == {s \in 1 .. next - 1 : s \notin skipped}

WaitBegin(s) ==
    /\ At("host", "idle") /\ ~closing
    /\ s \in issued \cap Waitable
    /\ cur' = [cur EXCEPT !["host"] = s]
    /\ Goto("host", "waiting")
    /\ UNCHANGED <<tokenVars, nodeVars, pumping, closing, shutdown, tasks, live, fault,
                   mine, drainList, callVars>>

(* The condition variable's predicate holds.  A retained failure is         *)
(* rethrown; otherwise the mutex is released for fence_through_sequence.    *)
WaitWake ==
    /\ At("host", "waiting")
    /\ completed >= cur["host"] \/ cur["host"] \in failures
    /\ IF cur["host"] \in failures
       THEN /\ observed' = observed \cup {<<cur["host"], "failed">>}
            /\ Goto("host", "idle")
       ELSE /\ Goto("host", "fence")
            /\ UNCHANGED observed
    /\ UNCHANGED <<tokenVars, nodeVars, pumping, closing, shutdown, tasks, live, cur,
                   fault, mine, drainList, issued>>

WaitFence ==
    /\ At("host", "fence")
    /\ observed' = observed \cup
          {<<cur["host"], IF cur["host"] \in failures THEN "failed" ELSE "ok">>}
    /\ Goto("host", "idle")
    /\ UNCHANGED <<tokenVars, nodeVars, pumping, closing, shutdown, tasks, live, cur,
                   fault, mine, drainList, issued>>

(* Seeded fault: the gap is not recorded. *)
SeekUnrecorded(n) ==
    /\ At("host", "idle") /\ ~closing
    /\ n > next /\ n <= MaxSequence + 1
    /\ next' = n
    /\ UNCHANGED <<completed, failures, pending, skipped, nodeVars, pumping, closing,
                   shutdown, tasks, live, pc, cur, fault, mine, drainList, callVars>>

(* Sequence numbers only move forward; the gap is never a valid token. *)
SeekNextSequence(n) ==
    /\ At("host", "idle") /\ ~closing
    /\ n > next /\ n <= MaxSequence + 1
    /\ skipped' = skipped \cup (next .. n - 1)
    /\ next' = n
    /\ UNCHANGED <<completed, failures, pending, nodeVars, pumping, closing, shutdown,
                   tasks, live, pc, cur, fault, mine, drainList, callVars>>

--------------------------------------------------------------------------------
(* The destructors.  ~GpuQueue and ~SyclQueue close admission, join the     *)
(* worker and close again; ~CpuQueue joins first and ~DeviceOps closes.     *)
Destroy ==
    /\ At("host", "idle") /\ ~closing
    /\ Goto("host", IF JoinFirst THEN "join" ELSE "close")
    /\ UNCHANGED <<tokenVars, nodeVars, pumping, closing, shutdown, tasks, live, cur,
                   fault, mine, drainList, callVars>>

CloseAdmission ==
    /\ At("host", "close")
    /\ closing' = TRUE
    /\ Goto("host", "snapshot")
    /\ UNCHANGED <<tokenVars, nodeVars, pumping, shutdown, tasks, live, cur, fault,
                   mine, drainList, callVars>>

SnapshotParked ==
    /\ At("host", "snapshot")
    /\ drainList' = Parked
    /\ Goto("host", "drain")
    /\ UNCHANGED <<tokenVars, nodeVars, pumping, closing, shutdown, tasks, live, cur,
                   fault, mine, callVars>>

(* One parked submission is rolled back and completed as drained. *)
DrainOne ==
    /\ At("host", "drain")
    /\ drainList # {}
    /\ LET s == CHOOSE s \in drainList : \A o \in drainList : s <= o
       IN  /\ drainList' = drainList \ {s}
           /\ IF s \in Parked
              THEN live' = live \ {s} /\ Complete(s, TRUE)
              ELSE UNCHANGED <<live, tokenVars, nodeVars>>
    /\ UNCHANGED <<pumping, closing, shutdown, tasks, pc, cur, fault, mine, callVars>>

DrainEnd ==
    /\ At("host", "drain")
    /\ drainList = {}
    /\ Goto("host", IF At("worker", "exited") THEN "destroyed" ELSE "join")
    /\ UNCHANGED <<tokenVars, nodeVars, pumping, closing, shutdown, tasks, live, cur,
                   fault, mine, drainList, callVars>>

ShutdownWorker ==
    /\ At("host", "join")
    /\ shutdown' = TRUE
    /\ Goto("host", "joining")
    /\ UNCHANGED <<tokenVars, nodeVars, pumping, closing, tasks, live, cur, fault,
                   mine, drainList, callVars>>

(* Seeded fault: admission is not drained again after the join. *)
JoinIsEnough ==
    /\ At("host", "joining")
    /\ At("worker", "idle") /\ tasks = <<>>
    /\ pc' = [pc EXCEPT !["host"] = "destroyed", !["worker"] = "exited"]
    /\ UNCHANGED <<tokenVars, nodeVars, pumping, closing, shutdown, tasks, live, cur,
                   fault, mine, drainList, callVars>>

(* The worker leaves its loop once its task list is empty. *)
JoinWorker ==
    /\ At("host", "joining")
    /\ At("worker", "idle") /\ tasks = <<>>
    /\ pc' = [pc EXCEPT !["host"] = "close", !["worker"] = "exited"]
    /\ UNCHANGED <<tokenVars, nodeVars, pumping, closing, shutdown, tasks, live, cur,
                   fault, mine, drainList, callVars>>

--------------------------------------------------------------------------------
(* What the caller may start, and what runs by itself once started. *)
Caller ==
    \/ Submit
    \/ \E s \in issued : WaitBegin(s)
    \/ \E n \in 2 .. MaxSequence + 1 : SeekNextSequence(n)
    \/ Destroy

Pump(t) ==
    \/ PumpBusy(t) \/ PumpEnter(t) \/ PumpStop(t) \/ PumpTake(t)
    \/ DispatchAccept(t) \/ DispatchUnavailable(t) \/ Park(t) \/ DispatchFails(t)

Host ==
    \/ \E ok \in BOOLEAN : Prepare(ok)
    \/ Publish \/ PublishFails \/ Unwind
    \/ Pump("host") \/ DispatchRejected \/ AbandonRejected
    \/ WaitWake \/ WaitFence
    \/ CloseAdmission \/ SnapshotParked \/ DrainOne \/ DrainEnd
    \/ ShutdownWorker \/ JoinWorker

Worker ==
    \/ WorkerPop
    \/ \E failed \in BOOLEAN : WorkerFinish(failed)
    \/ WorkerComplete
    \/ Pump("worker")

Next == Caller \/ Host \/ Worker \/ CommitFailure

Spec == Init /\ [][Next]_vars

(* Both threads keep running; nothing obliges the caller to call again. *)
FairSpec == Spec /\ WF_vars(Host) /\ WF_vars(Worker)

--------------------------------------------------------------------------------
(* Properties. *)

PumpLabels == {"take", "dispatch", "park", "abandon"}
HostLabels ==
    {"idle", "prepare", "publish", "unwind", "enter", "waiting", "fence", "close",
     "snapshot", "drain", "join", "joining", "destroyed"} \cup PumpLabels
WorkerLabels ==
    {"idle", "native", "complete", "enter", "take", "dispatch", "park", "exited"}

(* The types of the queue's fields and of the two threads' locals. *)
TypeOK ==
    /\ next \in 1 .. MaxSequence + 1
    /\ completed \in 0 .. MaxSequence
    /\ failures \subseteq Sequences1
    /\ pending \subseteq Sequences1
    /\ skipped \subseteq Sequences1
    /\ nodes \subseteq Sequences1
    /\ executing \subseteq nodes
    /\ fifo \in Seq(Sequences1)
    /\ credits \in Nat
    /\ pumping \in BOOLEAN /\ closing \in BOOLEAN /\ shutdown \in BOOLEAN
    /\ tasks \in Seq(Sequences1)
    /\ live \subseteq Sequences1
    /\ pc \in [Threads -> HostLabels \cup WorkerLabels]
    /\ pc["host"] \in HostLabels /\ pc["worker"] \in WorkerLabels
    /\ cur \in [Threads -> 0 .. MaxSequence]
    /\ fault \in [Threads -> BOOLEAN]
    /\ mine \in 0 .. MaxSequence
    /\ drainList \subseteq Sequences1
    /\ issued \subseteq Sequences1
    /\ observed \subseteq Sequences1 \X {"ok", "failed"}

(* The deque and the node map hold the same sequences, oldest first, so the *)
(* pump never meets a stale entry and FIFO order is submission order.       *)
FifoMatchesNodes ==
    /\ {fifo[i] : i \in 1 .. Len(fifo)} = nodes
    /\ \A i, j \in 1 .. Len(fifo) : i < j => fifo[i] < fifo[j]

(* The sequence a pumping thread has taken out of the deque. *)
InDispatch == {cur[t] : t \in {u \in Threads : pc[u] \in {"dispatch", "park"}}}
OnWorker == IF pc["worker"] \in {"native", "complete"} THEN {cur["worker"]} ELSE {}

(* Native credits are neither lost nor leaked: the counter is the number of *)
(* executing nodes, never above the capacity, and every executing node is   *)
(* being dispatched, queued for the worker or on the worker.                *)
CreditsExact ==
    /\ credits = Cardinality(executing)
    /\ credits <= Capacity
    /\ executing = InDispatch \cup OnWorker \cup {tasks[i] : i \in 1 .. Len(tasks)}

(* At most one thread is inside the pump, and the flag says so. *)
OnePump ==
    Cardinality({t \in Threads : pc[t] \in PumpLabels}) = IF pumping THEN 1 ELSE 0

(* The admission state that every wait, pump and destructor relies on. *)
AdmissionConsistent == TypeOK /\ FifoMatchesNodes /\ CreditsExact /\ OnePump

(* Between two calls, wait() accepts exactly the tokens submissions         *)
(* returned: an abandoned or skipped number is never a token and a token    *)
(* never stops being one, although abandoned numbers are handed out again.  *)
TokensExact == At("host", "idle") => issued = Waitable

(* While the queue is open, the high-water mark covers no unfinished work:  *)
(* wait() cannot return for a submission the backend still runs.            *)
HighWaterExact == ~closing /\ ~shutdown => \A s \in nodes : s > completed

(* Repeated waits on one token agree, in success as in failure. *)
RepeatableWait ==
    \A s \in issued : ~(<<s, "ok">> \in observed /\ <<s, "failed">> \in observed)

(* Owners stay registered from before a submission can be dispatched until  *)
(* its native work is over, and no registration outlives its submission.    *)
OwnersProtected ==
    /\ nodes \ (IF At("worker", "complete") THEN OnWorker ELSE {}) \subseteq live
    /\ live \subseteq nodes \cup (IF mine # 0 THEN {mine} ELSE {})

(* A destroyed queue left nothing behind: no parked or executing node, no   *)
(* credit, no task and no live registration, whatever the worker was doing  *)
(* when the destructor started.                                             *)
DestroyedClean ==
    At("host", "destroyed") =>
        /\ nodes = {} /\ fifo = <<>> /\ credits = 0 /\ tasks = <<>>
        /\ live = {} /\ ~pumping

(* A backend that never lacks a resource parks only for want of credits: if *)
(* a submission is parked and a credit is free, some thread is on its way   *)
(* to the pump's next look at the deque.                                    *)
NoLostWakeup ==
    Parked # {} /\ credits < Capacity /\ ~closing =>
        \E t \in Threads : pc[t] \in PumpLabels \cup {"enter"}

(* wait() returns: the sequence waited for is dispatched, finished and      *)
(* completed, or completed as failed, whatever was parked before it.        *)
WaitReturns == At("host", "waiting") ~> ~At("host", "waiting")

(* The destructor returns: the worker it joins gets through its tasks and   *)
(* nothing parked keeps it waiting.                                         *)
DestructorReturns == pc["host"] \in {"close", "join"} ~> At("host", "destroyed")

(* No caller blocks for ever in wait() or in the destructor. *)
CallersReturn == WaitReturns /\ DestructorReturns
================================================================================
