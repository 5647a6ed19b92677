---------------------------- MODULE MCDeviceMemory ----------------------------
(***************************************************************************)
(* What a GPU device hands out and takes back: the metadata partitions of  *)
(* its queues, the events and slots a queue lends to its submissions, and  *)
(* the data arena of tensors and workspaces.  The three share a mutex and  *)
(* nothing else, so each is explored while the others are untouched.       *)
(***************************************************************************)
EXTENDS QueueResources

CONSTANTS DataCapacity, DataAlignment, DataSizes, RingSubmissions

(* A submission's number is its place on the stream, from 1. *)
ASSUME RingSubmissionsAssumption == RingSubmissions \subseteq Nat \ {0}

(* alloc(0) returns no address and is not a step; the alignment is checked  *)
(* to be a power of two.                                                    *)
ASSUME ArenaAssumption ==
    /\ DataCapacity \in Nat /\ DataAlignment \in Nat \ {0}
    /\ DataSizes \subseteq Nat \ {0}

VARIABLES
    dataFree, dataAllocated,
    holder, quarantined, slotsInUse, slotsProtected, unknowns, submission, eventOf,
    slotOf, leaseOf, mark, disposition, result, native, uses

Data == INSTANCE ListAllocator WITH
    Capacity <- DataCapacity, Alignment <- DataAlignment, Sizes <- DataSizes,
    free <- dataFree, allocated <- dataAllocated

Ring == INSTANCE EventRing WITH
    RingSize <- C, Submissions <- RingSubmissions, UsesSlot <- RingSubmissions,
    stage <- submission

dataVars == <<dataFree, dataAllocated>>
ringVars == <<holder, quarantined, slotsInUse, slotsProtected, unknowns, submission,
              eventOf, slotOf, leaseOf, mark, disposition, result, native, uses>>

MemoryInit == Init /\ Data!Init /\ Ring!Init

RingUntouched == \A s \in RingSubmissions : submission[s] = "new"

MemoryNext ==
    \/ RingUntouched /\ Data!Init /\ Next /\ UNCHANGED <<dataVars, ringVars>>
    \/ RingUntouched /\ Init /\ Data!Next /\ UNCHANGED <<vars, ringVars>>
    \/ Init /\ Data!Init /\ Ring!Next /\ UNCHANGED <<vars, dataVars>>

MemorySpec == MemoryInit /\ [][MemoryNext]_<<vars, dataVars, ringVars>>

(* Every metadata slot has one place and partitions keep their geometry; a  *)
(* lease no drain has proven always finds room in the quarantine, and none  *)
(* is left when the device frees what it points into.                       *)
PartitionsKept ==
    /\ ResourcesTypeOK /\ SlotsPartitioned /\ GeometryKept
    /\ QuarantineFits /\ NoLeaseOutlivesDevice

(* The ring and the pool never hand out what running work uses, never call  *)
(* such work complete, and account for every event and slot they withhold.  *)
RingExact ==
    /\ Ring!RingTypeOK /\ Ring!RunningHoldsResources /\ Ring!RunningDisjoint
    /\ Ring!ProofIsSound /\ Ring!UnknownsCounted /\ Ring!IdleMeansFree

(* Allocations of the data arena are aligned and inside it, no unit is lost *)
(* or given out twice, and bad_alloc is thrown only when no aligned gap is  *)
(* long enough.                                                             *)
ArenaExact == Data!AllocatorTypeOK /\ Data!EveryCellOnce /\ Data!ExhaustionIsReal
================================================================================
