# TLA+ verification of iom

iom is a C++ inference engine: devices (CPU, CUDA, ROCm, SYCL) own arenas and
create queues; a queue accepts operations on tensors, returns ordered tokens
(`oid`) and lets the caller wait for them; a session drives a queue through the
prefill and decode steps of a TinyLlama model, from chat messages to tokens and
back. What can go wrong without a test noticing lies in three places: between
the caller's thread and a queue's worker (which numbers become tokens, who
dispatches parked work, when an event, a slot, a workspace range or a tensor's
storage may be used again after a failure); in the session, which keeps many
operations in flight over shared tensors and must come to rest after any of them
fails; and in index arithmetic, where a kernel is right on the shapes a test
uses and wrong on a view. This directory models these parts, checks them with TLC
and proves with TLAPS, for any number of credits, slots, events, tensors and
submissions, what the queues and the registry promise.

## 1. Inventory

Paths are relative to `src/` of the engine's tree.

| Part | State | Operations | Talks to | What makes it correct |
|---|---|---|---|---|
| `DeviceOps` (`src/device_ops.cpp`, `iom.hpp`) | sequence counter, high-water mark, failures, skipped numbers, node map, deque, credits, pump flag | `submit_prepared`, `pump_admission`, `complete`, `wait`, `close_and_drain` | hooks of the concrete queue | FIFO, exact credits, tokens are exactly what `wait` accepts, owners registered while work may run, waits and destructors return |
| Event ring, slot pool (`src/shared/event_ring.hpp`, `metadata_slot_pool.hpp`) | owner of each event, quarantine, slots in use or protected | `try_acquire`, `on_worker_complete`, `on_worker_destroy`, `on_queue_drain` | device events | reuse only after proven completion |
| GPU queue (`src/shared/gpu_queue*`, `detail/staged_worker.hpp`) | task list, outcomes, retained leases | dispatch, `execute`, worker stages, `~GpuQueue` | all of the above | is a `DeviceOps`; running work keeps owners and partition |
| CPU queue (`src/cpu/queue.cpp`) | task list, worker | `enqueue`, `run_worker`, `~CpuQueue` | `DeviceOps`, registry | as `DeviceOps` |
| SYCL queue (`src/sycl/queue*.{hpp,cpp}`) | two slot pools, one fence state per submission, tasks | dispatch, launch and bind, `result()`, worker, destructor | `DeviceOps`, registry, other threads' fences | slots follow the device's work, a token tells the truth, every token completes |
| Outstanding-work registry (`detail/outstanding_work_registry_core.hpp`) | entries by id and address | register, remove, invalidate, `release_or_quarantine` | queues, destructors | storage is freed only when nothing can touch it |
| Workspace leases (`detail/workspace_registry.hpp`) | leased ranges | acquire, complete, `workspace_range_retained` | queues, devices | ranges are exclusive, unproven ones stay out of use |
| Queue partitions (`src/shared/queue_resources.hpp`, `cuda/device.cpp`) | free-slot stack, queue count, retained leases | reserve, release, retain, reclaim, discard | queue constructors and destructors | aligned disjoint partitions, bounded quarantine |
| Arena allocators (`src/alloc.cpp`) | free list, allocations; free-index stack | alloc, free, reset | devices | nothing lost or shared |
| Session (`src/session.cpp`) | request, accepted tokens, history, two tensor banks, caches, poison flag | prepare, generate, drain, forward | queue, metrics, selection | operations in flight never conflict, logits come from the request's own history, the first failure is kept, everything accepted is waited for, nothing is submitted after poison |
| Metrics (`src/inference_metrics.cpp`) | last attempt, admitted request, phases, trace rows | begin, admit, phases, rows, seal | session | an observation is booked on the request it belongs to |
| Admission checks (`src/device_ops_*.cpp`), tensors and views (`src/tensor.cpp`, `iom.hpp`) | none | pure checks, derived views | `DeviceOps` | only well-formed requests are submitted, views stay inside their owner |
| Kernels (`src/cpu`, `src/cuda`, `src/rocm`, `src/sycl`, `src/shared/standard_tiled_*`) | none | index arithmetic, stores of packed words | queues | every output cell written once, no races, from the right inputs |
| Tokenizer (`src/tokenizer.cpp`), chat format (`src/chat_format.cpp`) | tables, compiled template | load, encode, decode, format | session | equal to byte-pair encoding and to running the template |
| Model loading (`src/model.cpp`, `src/safetensors.cpp`, `src/mmap.cpp`) | mapped ranges, weights, workspace | parse, plan, create, upload, publish | device, queue | complete or nothing, every weight holds its own range |
| Token selection (`src/token_selection.cpp`) | host buffer | check, wait, copy, scan | queue | the first maximum of the finished logits |

Hard behaviours: a queue has two threads that both pump; every hook (prepare,
dispatch, rollback, allocation) may throw at any point; a GPU synchronization
that fails proves nothing; destructors of tensors, workspaces, queues and devices
overlap with work; fixed resources (credits, events, slots, partitions) run out
and come back; any of the hundreds of operations of a forward may be refused or
fail later while others are in flight. `PROJECT.json` lists these hazards line by line with the
properties aimed at them.

## 2. Modules

| Module | Models | EXTENDS / INSTANCE |
|---|---|---|
| `DeviceOps` | admission, tokens and completion of any queue | |
| `OrderedTokens` | abstract: what a queue promises its caller | |
| `MCDeviceOps` | refinement mapping from `DeviceOps` to `OrderedTokens` | extends `DeviceOps`, instance of `OrderedTokens` |
| `DeviceOps_proofs` | proofs: admission, tokens, owners, destruction; order of completion, waits, wakeups, refinement of `OrderedTokens` | extends `MCDeviceOps` |
| `EventRing` | events, metadata slots, submission records | |
| `EventRing_proofs` | proofs about ring and pool | extends `EventRing` |
| `GpuQueue` | the CUDA/ROCm queue | extends `DeviceOps`, instance of `EventRing` |
| `GpuQueue_proofs` | proofs: refinement of both components, protection of running work | extends `GpuQueue`, `DeviceOps_proofs`, instance of `EventRing_proofs` |
| `SyclQueue`, `MCSyclQueue` | the SYCL queue | |
| `SyclQueue_proofs` | proofs about its pools, fences and tokens | extends `SyclQueue` |
| `OwnerRegistry`, `MCOwnerRegistry` | registry entries, workspace leases, storage of one device | |
| `OwnerRegistry_proofs` | proofs about storage and leases | extends `OwnerRegistry` |
| `QueueResources` | queue slots, partitions, unknown-lease quarantine | |
| `ListAllocator` | the data arena's allocator | |
| `MCDeviceMemory` | the fixed resources of a GPU device in one run | extends `QueueResources`, instances of `EventRing` and `ListAllocator` |
| `DeviceMemory_proofs` | proofs: partitions and leases, the arena; the ring's theorem inside that composition | extends `MCDeviceMemory`, instance of `EventRing_proofs` |
| `ForwardPlan` | tensors, views and workspace slices of one forward, and its checks | |
| `InferenceMetrics` | the recorder, as operators on its state | |
| `Session`, `MCSession` | requests, layer steps, draining, poisoning | extends `ForwardPlan`, `InferenceMetrics` |
| `Session_proofs` | the session's inductive invariant and the theorems about it | extends `Session` |
| `TensorViews` | layout, slots, derived views, aliasing | |
| `OperationAdmission` | the checks of the nine operations | extends `TensorViews` |
| `TiledKernels` | which thread of which kernel reads and writes which cell | extends `OperationAdmission` |
| `Operators`, `MCOperators` | derive, submit, run, and the contract of every operation | extends `TiledKernels` |
| `Tokenizer`, `ChatFormat`, `ModelLoading` | one component each | |
| `TokenSelection` | greedy selection beside the producer of the logits | |
| `TokenSelection_proofs` | proofs about the selected token | extends `TokenSelection` |
| `MCContent` | small inputs for these four, one of which runs at a time | extends `TokenSelection`, instances of the others |

Operators introduced by a comment `Seeded fault:` or `Mutant:` are not part of a
specification: each is a plausible bug in the definition that follows it, used to
show that the property aimed at it can fail.

### DeviceOps

Two threads: `"host"`, the caller (callers serialize their calls on a queue, so
submit, wait and destructor never overlap), and `"worker"`. `pc`, `cur`, `fault`
are their locals. A step is one section of `completion_mutex_` or one hook called
without it. Sets stand for maps whose values do not matter (`failures`,
`pending`, `skipped`), `live` for the owner registrations of all submissions
(`OwnerRegistry` looks inside them).

| Code | Actions |
|---|---|
| `submit_prepared` | `Submit`, `Prepare`, `Publish`, `PublishFails`, `Unwind`, `LeavePump` |
| `pump_admission` | `PumpBusy`, `PumpEnter`, `PumpTake`, `PumpStop`, `Park`, `AbandonRejected` and the dispatch outcomes `DispatchAccept`, `DispatchUnavailable`, `DispatchRejected`, `DispatchFails` |
| worker of the concrete queue | `WorkerPop`, `WorkerFinish`, `WorkerComplete` (`complete`) |
| `wait` | `WaitBegin`, `WaitWake`, `WaitFence` |
| `close_and_drain`, destructors | `Destroy`, `ShutdownWorker`, `JoinWorker`, `CloseAdmission`, `SnapshotParked`, `DrainOne`, `DrainEnd` |
| `commit_failure`, `seek_next_sequence` | `CommitFailure`, `SeekNextSequence` (only tests call them) |

Parameters: `Capacity` credits, `MaxSequence` (the 55-bit limit, small),
`JoinFirst` (a CPU queue joins its worker before admission closes, a GPU queue
closes first), `MayPark` (the backend may lack a resource), `RetryMayThrow` (a
dispatch on behalf of an older submission may throw).

### EventRing and GpuQueue

`EventRing` keeps what the host believes (`holder`, `quarantined`, `slotsInUse`,
`disposition`) apart from what the device does (`native`, `uses`). A
synchronization that succeeds implies that the work is done; one that fails
implies nothing. `GpuQueue` conjoins `DeviceOps` actions with ring actions: a
dispatch acquires, executes and publishes; the worker takes a task, asks its
fences, completes it, which pumps, and destroys it last. `ImplementsComponents`
states that hiding the ring leaves a behaviour of `DeviceOps` and hiding the
queue one of `EventRing`.

### SyclQueue

Everything a SYCL submission learns lives in a `SyclFenceState` that three parties
use under its mutex: the dispatch that fills it, the worker, and any thread that
asks the registry whether storage is still in use. `result()` holds the mutex
throughout and is one step. A dispatch is `Enter`, `AcquireCompletion`, `Prepare`,
`Launch`, `BindEvent`, `SetPoolEvent`, `Publish`; the worker's `Pop` and
`Process` take the task through its stages and end in the pump; the destructor
returns the partition or retains the lease, which another queue's start reclaims. `work` is what
the device really runs and `uses` what that work touches; the rest is what
the host believes. Tasks differ in what `Kind` says: whether they use a slot,
stage data, or end with a completion action (an embedding's status read). Two
constants name conditions rather than bounds: `EarlyObserver` lets a fence be
asked between the two halves of `set_event`, `LateFaults` lets an enqueue fail
on a retried task. Both are off in the passing run; section 4 says what they do.

### OwnerRegistry

All queues of a device at once, without their internal order: a submission
leases its range, registers one entry per distinct owner, is dispatched or
rolled back, finishes, is settled with or without proof. The initial state
chooses the device: with `gpu`, fences report completion and queues are destroyed
in the order of `~GpuQueue`; otherwise fences stay pending and a failed dispatch
is undone twice as in `CpuQueue`. With `early`, tensors die while work uses
them. Leases are looked up by range, as the
code does.

### QueueResources and ListAllocator

`QueueResources` keeps the free-index stack in the order the code pushes and
pops, so that the geometry check of `reserve_queue_partition` is a real
condition. A retained lease survives in two function objects; it is returned
when the array that `reclaim_retained_leases` moved it to is destroyed, which is
why `DropPending` is a step of its own. What the last reclaim leaves is discarded
one lease per step (`DiscardOne`), and only then the allocator and its backing go
(`FreeBacking`). `ListAllocator` is the allocator's arithmetic over offsets: the
search for the block that wastes least, the sorted insertion of a freed block and
the loop that merges neighbours.

### Session, ForwardPlan and InferenceMetrics

`ForwardPlan` computes the tensors of a run from the configuration, the views a
layer works on, the cut of the caller's workspace into slices aligned to 32, and
every check the stages make before they submit. `Session` runs it: one caller
thread and a queue that ends accepted operations in order, each well or with a
failure (the promise of `OrderedTokens`). A submitted operation leases the slice
the plan gave its kind (`Lease`); the operations the stages call without workspace
(`Unaided`) lease nothing, and one that a backend would need workspace for is
refused. Tensor contents are tags
`<<request, offset, layer>>`, or junk while an operation writes, after it failed,
or when one of its inputs was wrong, so a stale or overtaken read shows up in the
logits. Token values are abstracted to end of sequence, another token, or one
outside the vocabulary.

| Code | Actions |
|---|---|
| construction | `load_tinyllama_session`, `prepare_operation_trace` |
| `generate_text`, `generate_tokens`, `prepare_request` | actions of these names, `preprocessing_fails`, `BuildFails`, `Publish` |
| forward | `Upload`, `Embedding`, `EnterLayer`, `SubmitMember` (one operation of the current step), `StepSucceeds`, `StepFails`, `FinalNorm`, `AwaitNorm`, `LmHead` |
| between forwards | `PrefillReady`, `Select`, `SelectFails`, `StartDecode`, `DecodeReady` |
| draining, errors, destructor | `DrainWait`, `DrainReturns`, `Throws`, `destroy` |
| the queue | `QueueFinishes` |

### TensorViews, OperationAdmission, TiledKernels and Operators

A caller derives views (`slice`, `select`, `permute`, `reshape_leading`) of live
owners, submits one of the nine operations to a queue of one of four backends,
and admission gives the code's verdict in the code's order of checks. An admitted
request runs: `TiledKernels` gives, per backend and operation, the threads with
their launch, block and phase, the cells each loads and the words it stores. An
output element is the set of cells it was computed from; values are left out.
`Operators` states each operation's contract independently, in logical
coordinates. Leaf widths are named by their relation to the unit of exclusive
ownership (a byte on the CPU, a 32-bit word on the devices): half of it, crossing
two of them, equal, double. BF16, the one leaf attention accepts and the native
matrix paths serve, is the half word. `size_t` has a width (`SizeMax`) and its
checked arithmetic overflows.

### Tokenizer, ChatFormat, ModelLoading, TokenSelection

Each starts from a choice of input and follows the code to its result or error.
`Tokenizer`: acceptance of the file, the scan for added tokens, the merge heap
with its stale entries, pairs, decoding with or without special tokens and its
range check. `ChatFormat`: metadata, the trimming of tags, compilation of a
template to affixes, `format`. `ModelLoading`: header and
range checks, configuration, plan, creation and upload with a failure possible at
each step, publication and unwinding. `TokenSelection`: the checks, the wait,
the transfer and the scan, beside a queue that is still writing the logits. Their
reference definitions (byte-pair encoding by rank, interpretation of the
template, the checkpoint as a set of ranges, the maximum) are written without
looking at the algorithm. The template is interpreted as
`docs/BACKEND_CONTRACT/tokenizer-and-prompt-boundary.md` and
`test_chat_format.cpp:286` say, which is not Jinja in every detail: a newline at
the end stays, and `loop.last` is true behind the loop.

## 3. Runs

| Run | Question | Bounds |
|---|---|---|
| `DeviceOps_order` | is the queue an ordered token queue when retries do not throw? | 2 credits, 4 numbers: two executing, one parked, one in preparation |
| `DeviceOps_live` | do waits and destructors return on a CPU queue whose dispatches may throw? | 1 credit, 3 numbers: something is always parked |
| `GpuQueue` | do lost contexts and failing synchronizations endanger owners, partition or outcomes, and is every step one of `DeviceOps` and of `EventRing`? | 1 credit, 3 submissions, two with descriptors, 2 failing synchronizations |
| `GpuQueue_quarantine` | finding: parking races the return of the last event | 2 credits, 3 submissions, 1 failing synchronization |
| `SyclQueue` | do slots follow the device's work, are tokens true and complete? | 2 slots, 4 tasks (an embedding out of range, a binary, an embedding, a noop), 1 fault |
| `SyclQueue_early` | finding: a fence asked inside `set_event` | as above with `EarlyObserver` |
| `OwnerRegistry` | is storage safe when owners die early, and is undoing a CPU submission twice harmless? | 3 submissions on 2 queues that share a tensor and a range, one of them a copy; CPU or GPU, early or late destruction |
| `DeviceMemory` | do partitions, events, slots and arena keep their geometry, and are they reused only after a proof? | 3 partitions of 2 slots, 4 queues; a ring of 2 and 3 submissions; 26 units, alignment 4, sizes 1, 3, 4, 5, 9 |
| `Session` | does a session stay consistent, and does every call return, whatever is refused or fails? | 2 calls, prompts of 1, 3 and one too many, 0, 1 or 3 new tokens, 2 layers, 3 cache rows |
| `Operators` | does an admitted request compute its contract on every backend? | 9 operations, 4 leaf widths, matrices of 5 and 6 columns on tiles of 4, two derivations per request |
| `Operators_binary_view` | finding: the grid-stride binary ignores its output view | as above, one derivation |
| `Content` | do tokenizer, chat format, loading and selection equal their references? | every order of 3 of 8 overlapping merges on three texts; one table on every text of up to 3 units and on four longer ones; decoding of short and longer texts with and without special tokens, followed by an end of sequence or an id without a piece; templates and checkpoints with each defect; rows of 3 logits, 8 calls |

The bounds let every structure be full, overfull by one and partly returned.
Four numbers with two credits give an executing, a finishing, a parked and a
preparing submission at once; the protocol compares submissions pairwise. The
`GpuQueue` run has one credit; two submissions running at once with all of the
ring's failures are in `DeviceMemory`. A ring of two shows an event reused while
another is quarantined. Three partitions allow one live, one retained and one
being reclaimed. Two layers and two calls are the least at which a cache of
another layer or an older request can be mistaken for the right one; a prompt of
three fills the context. A matrix of five columns fills one tile and starts
another. The remaining bounds are named: `MaxSequence` is the code's own limit,
`MaxSyncErrors` and `MaxFaults` limit failing native calls, `MaxCalls` and
`MaxDerive` the caller. Deadlock is not checked where a destroyed queue or device
or a finished input really stops; in `Session` it is.

Fairness is stated in `FairSpec` (`DeviceOps`, `SyclQueue`, `Session`) and
`GpuFairSpec`: weak fairness of each thread's own steps once it has begun a call
(threads are scheduled; a mutex or condition variable does not starve them) and of
the device ending launched work. There is none for the caller's decision to
submit, wait, generate or destroy, for an observer of a fence, nor for any
failure. In `Session` the fair step is the calling thread's or the queue's,
taken together, since the thread only waits for the queue.

## 4. What the runs show

Most properties hold. Three runs show the code doing something its own comments
or documents exclude:

* `GpuQueue_quarantine`: with one event lost to an unknown completion, a
  submission can be parked after the last completion has looked for parked work
  (`device_ops.cpp:373`); `wait` never returns. While no completion is unknown a
  credit covers an event (part of `RingSound`) and the race cannot start.
* `Operators_binary_view`: the grid-stride binary kernel of CUDA and ROCm
  computes the output plane from the view and then loads and stores at the logical
  word number (`standard_tiled_add.inl:239`), so a binary into a sliced, selected
  or permuted view that no operand aliases writes other planes. The
  properties of `Operators` are stated for the other requests.
* `SyclQueue_early`: `set_event` publishes `event_bound_` before the pool has the
  event (`queue_support.hpp:262`); a fence asked in between finds nothing to wait
  for, proves a success and caches it while the kernel runs.

Further disagreements met while modelling, outside what the runs claim:

* `pump_admission` completes a parked submission whose dispatch throws on the
  worker while older ones execute (`device_ops.cpp:417`), so `completed_` jumps
  over them and repeated waits may disagree, against `ARCHITECTURE.md:864`.
  `RepeatableWait` and `HighWaterExact` are checked with `RetryMayThrow = FALSE`.
* A workspace range completed without a proof stays leased for the life of the
  device (`workspace_registry.hpp:330`), against the comment at line 42.
  `NothingLeaks` is stated for proven completions.
* A context that cannot be activated (`gpu_queue_operations.inl:725`) leaves the
  metadata slot with the task until after its completion has pumped; the next
  descriptor operation stays parked.
* The GPU attention kernels multiply zero probabilities with the padded V rows at
  or above the visible length (`cuda/sdpa_matrix.cu`, `rocm/sdpa_matrix.hip:602`),
  which the attention layout document excludes. `ComputesContract` tolerates these
  cells of V, on these backends, and no others.
* A copy whose windows overlap is admitted (`device_ops_copy.cpp:17`); its result
  depends on the order of the cells. The properties take disjoint windows.
* `MlpFailureSpool::accept` overwrites an earlier refusal of the same step
  (`session.cpp:1751`). `FirstFailureThrown` is stated for the other steps.
* A SYCL dispatch that runs below the destructor's covering wait, or on the retry of
  a parked task, is no longer covered when one of its enqueues throws: the wait is
  over, and the parking has marked the fence proved. Its slots can then be given
  back under running work; `LateFaults` is this case, off in the run and in the
  theorems.
* A SYCL submission that is parked has a fence which answers success. `TokensComplete`
  holds as long as fewer native calls fail than there are slots.

## 5. Proofs

Each theorem is about every value of the constants its assumptions allow: any
capacity, any number of events, slots, tensors, ranges, operations and failures.
They are proved from the named assumptions of the modules alone, plus the
hypotheses in the last column, which are conditions of the passing runs as well.

| Module | Theorem | Statement | Under |
|---|---|---|---|
| `DeviceOps_proofs` | `Invariance` | `Spec => []IInv` | |
| | `AdmissionCorrect` | `[]AdmissionConsistent`: types, deque against nodes, exact credits, one pump | |
| | `TokensCorrect`, `OwnersCorrect`, `DestructionCorrect` | `[]TokensExact`, `[]OwnersProtected`, `[]DestroyedClean` | |
| | `OrderInvariance`, `HighWaterCorrect`, `WaitsRepeat` | `[](IInv /\ OInv)`, `[]HighWaterExact`, `[]RepeatableWait` | `~RetryMayThrow` |
| | `TokensImplemented` | `Spec => ImplementsOrderedTokens` | `~RetryMayThrow` |
| | `WakeupsKept` | `[]NoLostWakeup` | `~MayPark` |
| `EventRing_proofs` | `RingCorrect` | `Spec => []RingSafe` | `RingConstants`: numbered submissions, a finite ring |
| `DeviceMemory_proofs` | `RingIsExact` | `MemorySpec => []RingExact` | |
| | `PartitionsInvariance`, `PartitionsAreKept` | `[]QInv`, `[]PartitionsKept` | |
| | `ArenaInvariance`, `ArenaIsExact` | `[]ArenaInv`, `[]ArenaExact` | |
| `GpuQueue_proofs` | `GpuInvariance` | `GpuSpec => []GpuInv` | |
| | `ComponentsImplemented` | `GpuSpec => ImplementsComponents` | |
| | `RunningIsProtected`, `RingIsSound` | `[]RunningProtected`, `[]RingSound` | |
| | `SuccessesAreProven` | `[]SuccessIsProven` | `~RetryMayThrow` |
| `SyclQueue_proofs` | `Invariance`, `SlotsAreSound`, `TokensAreTruthful`, `ReleasedWorkIsIdle` | `[]SInv`, `[]SlotsSound`, `[]TokenTruthful`, `[]ReleasedMeansIdle` | `~EarlyObserver`, `~LateFaults` |
| `OwnerRegistry_proofs` | `Invariance`, `StorageIsSafe`, `LeasesAreExclusive`, `NothingIsLeaked` | `[]IInv`, `[]StorageSafe`, `[]LeaseExclusive`, `[]NothingLeaks` | |
| `Session_proofs` | `Invariance`, `TypeCorrect` | `Spec => []IInv`, `[]TypeOK` | |
| | `SelectsFromHistory`, `ConflictFree` | `[]LogitsFromHistory`, `[]NoConflictInFlight` | |
| | `QuietBoundaries`, `FirstFailure`, `PoisonStays` | `[]QuietAtBoundaries`, `[]FirstFailureThrown`, `PoisonedSubmitsNothing` | |
| | `MetricsTold`, `UnpublishedBooksNothing` | `[]MetricsTellTheRequest`, `UnpublishedLeavesAdmitted` | |
| `TokenSelection_proofs` | `FirstMaximum` | `Spec => []SelectsFirstMaximum` | |

The hypotheses are not conveniences: section 4 describes what the code does when
a retried dispatch throws, when a fence is asked inside `set_event` and when a
late enqueue fails, and TLC finds the property violated in each case. `~MayPark`
is the CPU queue; a GPU queue that parks for an event can lose a wakeup, which is
the finding of `GpuQueue_quarantine`. Seven assumptions on constants exist for
the proofs: an operation has at least one owner (`OwnersOf[o] # {}`; the code's
submissions always register their output), tasks or submissions are numbered
from 1, the code's own numbering; of the SYCL tasks only an embedding has
indices that can be out of range; a backend reports a number of bytes and an
alignment for every operation in both banks (`NeedsValid`); the lengths and
limits of a session's calls are natural numbers (`CallsValid`); the sizes asked
of the data arena and its alignment are at least 1 (`ArenaAssumption`; `alloc(0)`
returns no address, and the constructor refuses an alignment of 0);
and a row of logits is not empty (`SelectionAssumption`; `validate_logits_shape`
refuses a width of 0).

The properties are not inductive alone; these invariants carry them. Each was
checked by TLC on the instances of the runs before its proof.

* `DeviceOps_proofs!IInv`: `TypeOK`; `CallOK`, what `mine` and `cur` stand for at
  each point of a call; `OrderOK`, deque and nodes agree and lie below `next`;
  `PumpOK`, pump flag against pump labels, since a thread's claim on its candidate
  rests on the other one staying out; `WorkOK`, executing nodes are in dispatch, in
  the task list (once) or on the worker; `CreditOK`, the counter as a cardinality,
  which needs `WorkOK` to know that the set changes by one element; `TokensOK`,
  `OwnersOK`; and `CloseOK`, what the destructor has established at each point.
* `DeviceOps_proofs!OInv`: `HighWaterExact` with `SerialOK`, submissions go through
  dispatch, task list and worker in their order, so that the one that ends is
  always the oldest and `completed_` passes nothing in flight; `ClosingOK`, only
  the destructor closes admission or shuts the worker down; `KnownOK`, skipped
  numbers are not submissions; `SeenOK`, an outcome a wait has returned is final.
  The refinement maps every action to a submission, a withdrawal, an end or a
  stutter. `WakeInv` adds to `NoLostWakeup` that no thread is about to park.
* `EventRing_proofs!RInv`: who holds each event (`HoldersOK`) and each slot
  (`SlotsOwned`, `SlotsUnshared`), what is known of a submission at each stage
  (`PhaseOK`), and where the event and the slot of running work are (`RunningOK`,
  `SlotsApart`).
* `DeviceMemory_proofs!QInv`: the stack of free slots, cut from its bottom, consists of
  whole aligned partitions and holds no slot twice (`StackTiled`), whatever order they
  came back in and whatever order the slots have inside one; leases hold whole
  partitions apart from each other and from the stack (`LeasesApart`), no slot is lost
  (`SlotsCovered`), the count agrees with the queues (`LivesCounted`), and every
  retained lease is in the quarantine or in the array of a reclaim, at the place the
  loop index says (`LeasesQuarantined`). That the quarantine never overflows follows
  by an injection from leases into partitions.
* `DeviceMemory_proofs!ArenaInv`: free blocks are sorted and never touch
  (`FreeListed`), allocations are aligned, disjoint and apart from the free blocks
  (`Allotted`), and no unit is lost (`NothingLost`). That blocks never touch is what
  makes exhaustion real: an aligned gap between allocations then lies in one free
  block, and the least aligned address of that block is not behind it. The merge loop
  keeps it: a least prefix on which it went wrong cannot exist (`Coalesced`).
* `GpuQueue_proofs!GInv`: ties the two: an acquired pair belongs to the thread that
  dispatches (`AcquiredOK`), launched work to the task list or the worker
  (`LaunchedOK`), untouched ring records to numbers not yet published (`FreshOK`);
  `LastTaskOK`, the worker keeps one finished task at a time; `PartitionOK`, a
  partition given back is idle; `InvalidOK` and `OutcomeOK` tie owners and outcomes
  to dispositions. That a credit always covers an event is an
  injection from executing submissions and unknown events into the ring.
* `SyclQueue_proofs!SInv`: the slots held at each stage (`HoldsOK`), what a fence can
  know (`FenceOK`), that a kept answer is true (`CachedOK`) and an unread status
  still in its cell (`StatusOK`), whose event a slot holds (`EventOK`), and which
  ended tasks pin which slots (`PinnedOK`, `PoolsOK`). `MetaNeedsComp` maps every
  metadata slot in use to a completion slot behind it, one to one; hence a dispatch
  with a completion slot never finds the partition empty, which is why the code's
  order of acquiring and releasing the two is right.
* `OwnerRegistry_proofs!IInv`: work that may touch a live tensor has an entry for it
  (`EntryOK`); the entries a destructor has copied include all work that may still
  touch its tensor (`TensorOK`, `WorkspaceOK`); leases are disjoint, owned and kept
  while needed (`LeasesDisjoint`, `LeasesOwned`, `LeasesKept`); outcomes agree with
  the backend (`NativeOK`).
* `Session_proofs!IInv` has four parts. What the caller knows of the queue: unless
  the session is poisoned, every token of the ledger ended well but the last,
  which it may still have to wait for (`LedgerSettled`, `LastIsAwaited`); a
  poisoned one only drains and throws (`PoisonStops`); the other tokens in flight
  are the members of the current step (`GroupSettled`, `GroupOfStep`), whose first
  failure is kept (`FirstFailureKept`). Where it is in the forward: bank, layer,
  step and position fit `pc`, the layers behind have the new prefix and those
  ahead the old one (`PlaceInForward`, `PrefixesInStep`, `HistoryCounted`), under
  a plan that was accepted (`PlanKept`). What the tensors hold: the inputs of the
  current step hold the tags of this row and layer (`InputsHeld`), members of the
  group that ended well have made theirs (`StepsMade`, `OutputsHeld`), and every
  row below the prefix is this request's (`CachesWritten`). A table of the
  operations with what each reads and writes reduces this to one case per
  operation. And what the recorder holds: its attempt and ordinal fit the call
  (`CallPlaced`, `AttemptPlaced`), its counters the request (`Counted`,
  `RatesEarned`), its rows the ledger (`RowsPaired`, `RowsTruthful`).
  `NoConflictInFlight` follows from it with the arithmetic of the plan: `align_up`
  never goes back, each slice begins at or after the end of the one before, the
  slices are at least as wide as the operations they serve, and inside the MLP
  slice gate and up are apart.

* `TokenSelection_proofs!SelectionInv`: the device's copy has what the producer has
  written so far, the transfer starts when that is all of it, what is scanned is what
  was written, and the winner is the first maximum of it (`Passed`). The scan is a
  recursive function; a least prefix on which its result is wrong cannot exist.

Every module has one lemma per action, split by the conjunct it can disturb, with
the effect of the action stated first; lemmas about removing from a sequence and
about finite cardinalities; the initial state; and one temporal step. The least
element of a set of numbers comes from the well-foundedness of the naturals.

Only model-checked:

* all liveness (`WaitReturns`, `TokensComplete`, `CallsReturn`...): fairness is
  outside the prover's reach;
* what the tokenizer's merge loop, the template compiler and the loader compute
  (`Content`): they are compared with recursive definitions, over which the provers
  have no induction;
* the properties of `Operators`, which are about sets of cells computed for each
  launch shape, not about steps.

## 6. Limits and what is not modelled

Callers keep the documented rules (serialized calls per queue, workspace kept
while leased); host memory exhaustion is modelled where the code handles it.
Exceptions carry no text, failures no identity except in `Session`. The device runs
a stream in order. Only CUDA's device code is modelled where ROCm's is its copy.

* `DeviceOps_live` has `MayPark = FALSE`, the CPU queue. No run checks
  liveness of the GPU queue when nothing fails; `WaitReturns` is
  stated and refuted by one failing synchronization.
* `SyclQueue` shows safety with observers that ask outside `set_event`.
* `Operators` leaves out numeric values, the AVX-512 paths and the check that the
  bytes of a BOOL upload are 0 or 1.
* `ModelLoading` leaves out the BF16 capability check of the device and the
  identity of the views bound to an owner.
* `Tokenizer` decodes its own encodings, alone or followed by one more id; it
  leaves out texts that literally spell a byte piece; the word boundary U+2581
  is one unit; the first pass of decoding, which only reserves memory, is not a
  step.
* `ChatFormat` takes what the expression lexer and the JSON helpers read as facts
  about a tag or a file.
* Not modelled: the command-line tools (arguments and printing), the bump
  `LinearAllocator`, device discovery and other driver calls, the list of cleanup
  actions a device keeps for quarantined storage.

## 7. Plan

1. Proofs: `RaceFree` of `Operators`, kernel by kernel, with cells as arithmetic on
   tile and thread indices.
2. A liveness run of the GPU queue without failing synchronizations.
3. `Session` over `OrderedTokens` as an explicit composition.
