-------------------------- MODULE OwnerRegistry_proofs --------------------------
(***************************************************************************)
(* Proofs that storage is safe, leases are exclusive and nothing leaks in  *)
(* OwnerRegistry, for any number of submissions, owners and queues of one  *)
(* device, whatever they share.                                            *)
(***************************************************************************)
EXTENDS OwnerRegistry, TLAPS

EntryStates == {"absent", "live", "invalid"}
Outcome == {"settled", "finishing", "completed"}
Launched == {"running"} \cup Outcome
Stages == {"new", "leased", "parked", "caught", "undo", "undone", "rolledback"} \cup Launched

(* The stages in which a submission's workspace lease is certainly its own. *)
Leasing == {"leased", "parked", "caught", "undone", "running", "settled", "finishing"}

RegistryTypeOK ==
    /\ gpu \in BOOLEAN /\ early \in BOOLEAN
    /\ entry \in [Ops -> [Tensors -> EntryStates]]
    /\ rangeEntry \in [Ops -> EntryStates]
    /\ leases \subseteq Ops /\ held \subseteq Ops
    /\ stage \in [Ops -> Stages]
    /\ native \in [Ops -> {"none", "running", "done"}]
    /\ result \in [Ops -> {"pending", "success", "failed"}]
    /\ proven \in [Ops -> BOOLEAN]
    /\ tensor \in [Tensors -> {"alive", "checking", "releasing", "quarantining",
                               "released", "quarantined"}]
    /\ snap \in [Tensors -> SUBSET Ops]
    /\ invalidSeen \in [Tensors -> BOOLEAN]
    /\ workspace \in {"alive", "released", "quarantined"}
    /\ queue \in [Queues -> {"open", "joining", "closing", "closed", "unproven"}]

(* What the host says about an outcome agrees with the backend: work exists *)
(* only after the dispatch, a success is proven, and proven work is over.   *)
NativeOK ==
    \A o \in Ops :
        /\ native[o] # "none" => stage[o] \in Launched
        /\ result[o] # "pending" => stage[o] \in Outcome
        /\ result[o] = "success" => proven[o]
        /\ proven[o] => native[o] = "done" /\ stage[o] \in Outcome
        /\ ~gpu /\ stage[o] \in Outcome => proven[o]

(* Leases are disjoint, so that the lookup by range finds at most one       *)
(* record,                                                                  *)
LeasesDisjoint == \A a, b \in leases : a # b => RangeOf[a] \cap RangeOf[b] = {}

(* belong to submissions that asked for cells,                              *)
LeasesOwned == \A o \in leases : RangeOf[o] # {} /\ stage[o] # "new"

(* and are there while the submission, the backend or a waiter needs them.  *)
LeasesKept ==
    \A o \in Ops : RangeOf[o] # {} =>
        (stage[o] \in Leasing \/ native[o] = "running" \/ o \in held => o \in leases)

(* Only a proven success of a GPU queue is held for its waiter.             *)
HeldProven == \A o \in held : gpu /\ stage[o] = "completed" /\ proven[o] /\ RangeOf[o] # {}

(* Work that may touch a live tensor has an entry for it; a submission that *)
(* is being undone for the second time misses one.                          *)
EntryOK ==
    \A o \in Ops :
        /\ stage[o] \in {"new", "leased", "caught"} => \A t \in Tensors : entry[o][t] = "absent"
        /\ o \in Using => \A t \in OwnersOf[o] : tensor[t] = "alive" => entry[o][t] # "absent"
        /\ stage[o] = "undo" /\ o \notin Copies =>
              \E t \in OwnersOf[o] : entry[o][t] = "absent"

(* Once a destructor has begun, no submission starts on the tensor, and the *)
(* copied entries include everything that may still touch it.               *)
TensorOK ==
    \A o \in Ops : \A t \in OwnersOf[o] : tensor[t] # "alive" =>
        /\ stage[o] # "leased"
        /\ tensor[t] = "checking" /\ o \in Using => o \in snap[t]
        /\ tensor[t] \in {"releasing", "released"} => o \notin Using
        /\ ~early => Settled(o)

(* The same of the workspace. *)
WorkspaceOK ==
    workspace # "alive" => \A o \in Ops : RangeOf[o] # {} =>
        /\ stage[o] # "leased"
        /\ workspace = "released" => o \notin Using

(* A CPU device whose callers keep their tensors. *)
CpuOK ==
    ~gpu /\ ~early => \A o \in Ops :
        /\ stage[o] \in {"completed", "rolledback", "undo"} => o \notin leases
        /\ \A t \in Tensors : entry[o][t] = "live" => stage[o] \in {"parked", "running", "settled"}

IInv ==
    /\ RegistryTypeOK /\ NativeOK
    /\ LeasesDisjoint /\ LeasesOwned /\ LeasesKept /\ HeldProven
    /\ EntryOK /\ TensorOK /\ WorkspaceOK /\ CpuOK

(* What the steps need of the constants. *)
LEMMA Owners ==
    /\ OwnersOf \in [Ops -> SUBSET Tensors]
    /\ \A o \in Ops : OwnersOf[o] # {}
    /\ QueueOf \in [Ops -> Queues]
    /\ \A o \in Copies : RangeOf[o] = {}
BY OwnerRegistryAssumption

(* A submission whose lease is there completes its own lease and no other: *)
(* the record with its range is its record.                                *)
LEMMA CompleteOwn ==
    ASSUME IInv, NEW o \in Ops, NEW proof \in BOOLEAN, CompleteLease(o, proof),
           RangeOf[o] # {} => o \in leases
    PROVE  /\ leases' = IF proof THEN leases \ {o} ELSE leases
           /\ rangeEntry' \in [Ops -> EntryStates]
  <1>1. {l \in leases : RangeOf[o] # {} /\ RangeOf[l] = RangeOf[o]}
          = IF RangeOf[o] = {} THEN {} ELSE {o}
    BY DEF IInv, LeasesDisjoint, LeasesOwned
  <1>2. RangeOf[o] = {} => o \notin leases
    BY DEF IInv, LeasesOwned
  <1>3. rangeEntry' \in [Ops -> EntryStates]
    <2>1. rangeEntry \in [Ops -> EntryStates]
      BY DEF IInv, RegistryTypeOK
    <2>2. \/ rangeEntry' = rangeEntry
          \/ rangeEntry' = [rangeEntry EXCEPT ![o] = "absent"]
          \/ rangeEntry' = [rangeEntry EXCEPT ![o] = IF @ = "live" THEN "invalid" ELSE @]
      BY DEF CompleteLease
    <2> QED
      BY <2>1, <2>2 DEF EntryStates
  <1>4. leases' = IF proof THEN leases \ {o} ELSE leases
    BY <1>1, <1>2 DEF CompleteLease
  <1> QED
    BY <1>3, <1>4

(* What setting all entries of one submission does. *)
LEMMA SetEntries ==
    ASSUME IInv, NEW o \in Ops, NEW s \in EntryStates,
           entry' = [entry EXCEPT ![o] = Entries(o, s)]
    PROVE  /\ entry' \in [Ops -> [Tensors -> EntryStates]]
           /\ \A p \in Ops : p # o => entry'[p] = entry[p]
           /\ \A t \in Tensors : entry'[o][t] = IF t \in OwnersOf[o] THEN s ELSE "absent"
  <1>1. entry \in [Ops -> [Tensors -> EntryStates]]
    BY DEF IInv, RegistryTypeOK
  <1>2. Entries(o, s) \in [Tensors -> EntryStates]
    BY DEF Entries, EntryStates
  <1>3. entry'[o] = Entries(o, s)
    BY <1>1
  <1>4. \A t \in Tensors : Entries(o, s)[t] = IF t \in OwnersOf[o] THEN s ELSE "absent"
    BY DEF Entries
  <1> QED
    BY <1>1, <1>2, <1>3, <1>4

(* Taking a lease, only where no leased range overlaps, keeps the invariant. *)
LEMMA LeaseStep ==
    ASSUME IInv, NEW o \in Ops, Lease(o), UNCHANGED deviceVars
    PROVE  IInv'
  <1>1. RegistryTypeOK'
    BY DEF IInv, Lease, Stage, Overlaps, RegistryTypeOK, ownerVars, deviceVars,
       EntryStates, Stages, Launched, Outcome
  <1>2. NativeOK'
    BY DEF IInv, Lease, Stage, Overlaps, RegistryTypeOK, NativeOK, ownerVars,
       deviceVars, Launched, Outcome
  <1>3. LeasesDisjoint'
    BY DEF IInv, Lease, Stage, Overlaps, RegistryTypeOK, LeasesDisjoint, ownerVars
  <1>4. LeasesOwned'
    <2>1. leases' \subseteq leases \cup {o} /\ (o \in leases' => o \in leases \/ RangeOf[o] # {})
      BY DEF Lease
    <2>2. stage' = [stage EXCEPT ![o] = "leased"]
      BY DEF Lease, Stage
    <2> QED
      BY <2>1, <2>2 DEF IInv, LeasesOwned, RegistryTypeOK
  <1>5. LeasesKept'
    BY DEF IInv, Lease, Stage, Overlaps, RegistryTypeOK, NativeOK, LeasesKept,
       HeldProven, ownerVars, Launched, Outcome, Leasing
  <1>6. HeldProven'
    BY DEF IInv, Lease, Stage, Overlaps, RegistryTypeOK, NativeOK, HeldProven,
       ownerVars, deviceVars, Launched, Outcome
  <1>7. EntryOK'
    BY Owners DEF IInv, Lease, Stage, Overlaps, RegistryTypeOK, NativeOK, EntryOK,
       TensorOK, Using, ownerVars, Launched, Outcome
  <1>8. TensorOK'
    BY Owners DEF IInv, Lease, Stage, Overlaps, RegistryTypeOK, NativeOK, EntryOK,
       TensorOK, Using, Settled, ownerVars, deviceVars, Launched, Outcome
  <1>9. WorkspaceOK'
    BY Owners DEF IInv, Lease, Stage, Overlaps, RegistryTypeOK, NativeOK, LeasesKept,
       WorkspaceOK, Using, ownerVars, Launched, Outcome, Leasing
  <1>10. CpuOK'
    BY Owners DEF IInv, Lease, Stage, Overlaps, RegistryTypeOK, NativeOK, LeasesOwned,
       EntryOK, TensorOK, CpuOK, Using, Settled, ownerVars, deviceVars, Launched, Outcome
  <1> QED
    BY <1>1, <1>2, <1>3, <1>4, <1>5, <1>6, <1>7, <1>8, <1>9, <1>10 DEF IInv

(* Registering the owners, or giving the lease back, keeps the invariant.   *)
LEMMA RegisterStep ==
    ASSUME IInv, NEW o \in Ops, NEW ok \in BOOLEAN, Register(o, ok), UNCHANGED deviceVars
    PROVE  IInv'
  <1>01. /\ stage[o] = "leased"
         /\ stage' = [stage EXCEPT ![o] = IF ok THEN "parked" ELSE "new"]
         /\ UNCHANGED <<held, native, result, proven, ownerVars, queue>>
    BY DEF Register, Stage
  <1>02. rangeEntry' \in [Ops -> EntryStates] /\ leases' = IF ok THEN leases ELSE leases \ {o}
    <2>1. CASE ok
      BY <2>1 DEF Register, IInv, RegistryTypeOK
    <2>2. CASE ~ok
      BY <2>2, CompleteOwn DEF Register, IInv, Leasing, LeasesKept
    <2> QED
      BY <2>1, <2>2
  <1>03. /\ entry' \in [Ops -> [Tensors -> EntryStates]]
         /\ \A p \in Ops : p # o => entry'[p] = entry[p]
         /\ ok => \A t \in Tensors :
                     entry'[o][t] = IF t \in OwnersOf[o] THEN "live" ELSE "absent"
         /\ ~ok => entry' = entry
    <2>1. CASE ok
      BY <2>1, SetEntries DEF Register, EntryStates
    <2>2. CASE ~ok
      BY <2>2 DEF Register, IInv, RegistryTypeOK
    <2> QED
      BY <2>1, <2>2
  <1>1. RegistryTypeOK'
    BY <1>01, <1>02, <1>03 DEF IInv, RegistryTypeOK, ownerVars, deviceVars, EntryStates,
       Stages, Launched, Outcome
  <1>2. NativeOK'
    BY <1>01, <1>02, <1>03 DEF IInv, RegistryTypeOK, NativeOK, ownerVars, deviceVars,
       Launched, Outcome
  <1>3. LeasesDisjoint'
    BY <1>01, <1>02, <1>03 DEF IInv, RegistryTypeOK, LeasesDisjoint, ownerVars
  <1>4. LeasesOwned'
    BY <1>01, <1>02, <1>03 DEF IInv, RegistryTypeOK, LeasesOwned, ownerVars
  <1>5. LeasesKept'
    BY <1>01, <1>02, <1>03 DEF IInv, RegistryTypeOK, NativeOK, LeasesKept, HeldProven,
       ownerVars, Launched, Outcome, Leasing
  <1>6. HeldProven'
    BY <1>01, <1>02, <1>03 DEF IInv, RegistryTypeOK, NativeOK, HeldProven, ownerVars,
       deviceVars, Launched, Outcome
  <1>7. EntryOK'
    <2> SUFFICES ASSUME NEW p \in Ops
                 PROVE  /\ stage'[p] \in {"new", "leased", "caught"} =>
                              \A t \in Tensors : entry'[p][t] = "absent"
                        /\ p \in Using' => \A t \in OwnersOf[p] :
                              tensor'[t] = "alive" => entry'[p][t] # "absent"
                        /\ stage'[p] = "undo" /\ p \notin Copies =>
                              \E t \in OwnersOf[p] : entry'[p][t] = "absent"
      BY DEF EntryOK
    <2>1. CASE p = o
      <3>1. stage'[o] = (IF ok THEN "parked" ELSE "new") /\ native'[o] = native[o] /\ tensor' = tensor
        BY <1>01 DEF IInv, RegistryTypeOK, ownerVars
      <3>2. OwnersOf[o] \subseteq Tensors /\ OwnersOf[o] # {}
        BY Owners
      <3>3. stage'[o] \in {"new", "leased", "caught"} => \A t \in Tensors : entry'[o][t] = "absent"
        BY <1>01, <1>03, <3>1 DEF IInv, EntryOK
      <3>4. o \in Using' => \A t \in OwnersOf[o] : tensor'[t] = "alive" => entry'[o][t] # "absent"
        BY <1>01, <1>03, <3>1, <3>2 DEF IInv, NativeOK, Launched, Outcome, Using
      <3>5. stage'[o] = "undo" /\ o \notin Copies => \E t \in OwnersOf[o] : entry'[o][t] = "absent"
        BY <3>1
      <3> QED
        BY <2>1, <3>3, <3>4, <3>5
    <2>2. CASE p # o
      BY Owners, <1>01, <1>03, <2>2
         DEF IInv, RegistryTypeOK, NativeOK, EntryOK, Using, ownerVars
    <2> QED
      BY <2>1, <2>2
  <1>8. TensorOK'
    BY Owners, <1>01, <1>02, <1>03 DEF IInv, RegistryTypeOK, NativeOK, EntryOK,
       TensorOK, Using, Settled, ownerVars, deviceVars, Launched, Outcome
  <1>9. WorkspaceOK'
    BY Owners, <1>01, <1>02, <1>03 DEF IInv, RegistryTypeOK, NativeOK, LeasesKept,
       WorkspaceOK, Using, ownerVars, Launched, Outcome, Leasing
  <1>10. CpuOK'
    <2> SUFFICES ASSUME ~gpu, ~early, NEW p \in Ops
                 PROVE  /\ stage'[p] \in {"completed", "rolledback", "undo"} => p \notin leases'
                        /\ \A t \in Tensors : entry'[p][t] = "live" =>
                              stage'[p] \in {"parked", "running", "settled"}
      BY DEF CpuOK, deviceVars
    <2>1. CASE p = o
      <3>1. stage'[o] = (IF ok THEN "parked" ELSE "new")
        BY <1>01 DEF IInv, RegistryTypeOK
      <3>2. ~ok => \A t \in Tensors : entry'[o][t] = "absent"
        BY <1>01, <1>03 DEF IInv, EntryOK
      <3> QED
        BY <2>1, <3>1, <3>2
    <2>2. CASE p # o
      BY Owners, <1>01, <1>02, <1>03, <2>2 DEF IInv, RegistryTypeOK, CpuOK
    <2> QED
      BY <2>1, <2>2
  <1> QED
    BY <1>1, <1>2, <1>3, <1>4, <1>5, <1>6, <1>7, <1>8, <1>9, <1>10 DEF IInv

(* The dispatch's own removal of the entries keeps the invariant.           *)
LEMMA CatchRemoveStep ==
    ASSUME IInv, NEW o \in Ops, CatchRemove(o), UNCHANGED deviceVars
    PROVE  IInv'
  <1>01. /\ ~gpu /\ stage[o] = "parked"
         /\ UNCHANGED <<rangeEntry, leases, held, native, result, proven, ownerVars, queue>>
    BY DEF CatchRemove
  <1>02. \/ /\ Removable(o)
            /\ stage' = [stage EXCEPT ![o] = "caught"]
            /\ entry' = [entry EXCEPT ![o] = Entries(o, "absent")]
         \/ /\ ~Removable(o)
            /\ stage' = [stage EXCEPT ![o] = "undo"]
            /\ entry' = entry
    BY DEF CatchRemove, Stage
  <1>03. /\ stage' = [stage EXCEPT ![o] = IF Removable(o) THEN "caught" ELSE "undo"]
         /\ entry' \in [Ops -> [Tensors -> EntryStates]]
         /\ \A p \in Ops : p # o => entry'[p] = entry[p]
         /\ Removable(o) => \A t \in Tensors : entry'[o][t] = "absent"
         /\ ~Removable(o) => entry' = entry
    <2>1. CASE Removable(o)
      <3>1. entry' = [entry EXCEPT ![o] = Entries(o, "absent")]
        BY <1>02, <2>1
      <3> QED
        BY <1>02, <2>1, <3>1, SetEntries DEF EntryStates
    <2>2. CASE ~Removable(o)
      BY <1>02, <2>2 DEF IInv, RegistryTypeOK
    <2> QED
      BY <2>1, <2>2
  <1>04. ~Removable(o) => /\ o \notin Copies
                          /\ \E t \in OwnersOf[o] : entry[o][t] = "absent" /\ tensor[t] # "alive"
    BY <1>01, Owners DEF Removable, AllPresent, IInv, EntryOK, Using
  <1>1. RegistryTypeOK'
    BY <1>01, <1>03, <1>04 DEF IInv, RegistryTypeOK, ownerVars, deviceVars, EntryStates,
       Stages, Launched, Outcome
  <1>2. NativeOK'
    BY <1>01, <1>03, <1>04 DEF IInv, RegistryTypeOK, NativeOK, ownerVars, deviceVars,
       Launched, Outcome
  <1>3. LeasesDisjoint'
    BY <1>01, <1>03, <1>04 DEF IInv, RegistryTypeOK, LeasesDisjoint, ownerVars
  <1>4. LeasesOwned'
    BY <1>01, <1>03, <1>04 DEF IInv, RegistryTypeOK, LeasesOwned, ownerVars
  <1>5. LeasesKept'
    BY <1>01, <1>03, <1>04 DEF IInv, RegistryTypeOK, NativeOK, LeasesKept, HeldProven,
       ownerVars, Launched, Outcome, Leasing
  <1>6. HeldProven'
    BY <1>01, <1>03, <1>04 DEF IInv, RegistryTypeOK, NativeOK, HeldProven, ownerVars,
       deviceVars, Launched, Outcome
  <1>7. EntryOK'
    <2> SUFFICES ASSUME NEW p \in Ops
                 PROVE  /\ stage'[p] \in {"new", "leased", "caught"} =>
                              \A t \in Tensors : entry'[p][t] = "absent"
                        /\ p \in Using' => \A t \in OwnersOf[p] :
                              tensor'[t] = "alive" => entry'[p][t] # "absent"
                        /\ stage'[p] = "undo" /\ p \notin Copies =>
                              \E t \in OwnersOf[p] : entry'[p][t] = "absent"
      BY DEF EntryOK
    <2>1. CASE p = o
      <3>1. stage'[o] = (IF Removable(o) THEN "caught" ELSE "undo") /\ native'[o] = native[o] /\ tensor' = tensor
        BY <1>01, <1>03 DEF IInv, RegistryTypeOK, ownerVars
      <3>2. OwnersOf[o] \subseteq Tensors /\ OwnersOf[o] # {}
        BY Owners
      <3>3. stage'[o] \in {"new", "leased", "caught"} => \A t \in Tensors : entry'[o][t] = "absent"
        BY <1>03, <3>1
      <3>4. o \in Using' => \A t \in OwnersOf[o] : tensor'[t] = "alive" => entry'[o][t] # "absent"
        BY <1>01, <1>03, <3>1, <3>2 DEF IInv, NativeOK, Launched, Outcome, Using
      <3>5. stage'[o] = "undo" /\ o \notin Copies => \E t \in OwnersOf[o] : entry'[o][t] = "absent"
        BY <1>03, <1>04, <3>1
      <3> QED
        BY <2>1, <3>3, <3>4, <3>5
    <2>2. CASE p # o
      BY Owners, <1>01, <1>03, <1>04, <2>2
         DEF IInv, RegistryTypeOK, NativeOK, EntryOK, Using, ownerVars
    <2> QED
      BY <2>1, <2>2
  <1>8. TensorOK'
    BY Owners, <1>01, <1>03, <1>04 DEF IInv, RegistryTypeOK, NativeOK, EntryOK,
       TensorOK, Using, Settled, ownerVars, deviceVars, Launched, Outcome
  <1>9. WorkspaceOK'
    BY Owners, <1>01, <1>03, <1>04 DEF IInv, RegistryTypeOK, NativeOK, LeasesKept,
       WorkspaceOK, Using, ownerVars, Launched, Outcome, Leasing
  <1>10. CpuOK'
    BY Owners, <1>01, <1>03, <1>04 DEF IInv, RegistryTypeOK, NativeOK, LeasesOwned,
       EntryOK, TensorOK, CpuOK, Using, Settled, ownerVars, deviceVars, Launched, Outcome
  <1> QED
    BY <1>1, <1>2, <1>3, <1>4, <1>5, <1>6, <1>7, <1>8, <1>9, <1>10 DEF IInv

(* The dispatch's own return of the lease keeps the invariant.              *)
LEMMA CatchLeaseStep ==
    ASSUME IInv, NEW o \in Ops, CatchLease(o), UNCHANGED deviceVars
    PROVE  IInv'
  <1>01. /\ stage[o] = "caught" /\ stage' = [stage EXCEPT ![o] = "undo"]
         /\ UNCHANGED <<entry, held, native, result, proven, ownerVars, queue>>
    BY DEF CatchLease, Stage
  <1>02. leases' = leases \ {o} /\ rangeEntry' \in [Ops -> EntryStates]
    BY CompleteOwn DEF IInv, CatchLease, Leasing, LeasesKept
  <1>1. RegistryTypeOK'
    BY <1>01, <1>02 DEF IInv, RegistryTypeOK, ownerVars, deviceVars, EntryStates,
       Stages, Launched, Outcome
  <1>2. NativeOK'
    BY <1>01, <1>02 DEF IInv, RegistryTypeOK, NativeOK, ownerVars, deviceVars, Launched,
       Outcome
  <1>3. LeasesDisjoint'
    BY <1>01, <1>02 DEF IInv, RegistryTypeOK, LeasesDisjoint, ownerVars
  <1>4. LeasesOwned'
    BY <1>01, <1>02 DEF IInv, RegistryTypeOK, LeasesOwned, ownerVars
  <1>5. LeasesKept'
    <2>1. stage'[o] = "undo" /\ native'[o] # "running" /\ o \notin held'
      BY <1>01 DEF IInv, RegistryTypeOK, NativeOK, HeldProven, Launched, Outcome
    <2> QED
      BY <1>01, <1>02, <2>1 DEF IInv, RegistryTypeOK, LeasesKept, Leasing
  <1>6. HeldProven'
    BY <1>01, <1>02 DEF IInv, RegistryTypeOK, NativeOK, HeldProven, ownerVars,
       deviceVars, Launched, Outcome
  <1>7. EntryOK'
    <2> SUFFICES ASSUME NEW p \in Ops
                 PROVE  /\ stage'[p] \in {"new", "leased", "caught"} =>
                              \A t \in Tensors : entry'[p][t] = "absent"
                        /\ p \in Using' => \A t \in OwnersOf[p] :
                              tensor'[t] = "alive" => entry'[p][t] # "absent"
                        /\ stage'[p] = "undo" /\ p \notin Copies =>
                              \E t \in OwnersOf[p] : entry'[p][t] = "absent"
      BY DEF EntryOK
    <2>1. CASE p = o
      <3>1. stage'[o] = "undo" /\ native'[o] = native[o] /\ tensor' = tensor
        BY <1>01 DEF IInv, RegistryTypeOK, ownerVars
      <3>2. OwnersOf[o] \subseteq Tensors /\ OwnersOf[o] # {}
        BY Owners
      <3>3. stage'[o] \in {"new", "leased", "caught"} => \A t \in Tensors : entry'[o][t] = "absent"
        BY <3>1
      <3>4. o \in Using' => \A t \in OwnersOf[o] : tensor'[t] = "alive" => entry'[o][t] # "absent"
        BY <1>01, <3>1 DEF IInv, NativeOK, Launched, Outcome, Using
      <3>5. stage'[o] = "undo" /\ o \notin Copies => \E t \in OwnersOf[o] : entry'[o][t] = "absent"
        BY <1>01, <3>2 DEF IInv, EntryOK
      <3> QED
        BY <2>1, <3>3, <3>4, <3>5
    <2>2. CASE p # o
      BY Owners, <1>01, <2>2
         DEF IInv, RegistryTypeOK, NativeOK, EntryOK, Using, ownerVars
    <2> QED
      BY <2>1, <2>2
  <1>8. TensorOK'
    BY Owners, <1>01, <1>02 DEF IInv, RegistryTypeOK, NativeOK, EntryOK, TensorOK,
       Using, Settled, ownerVars, deviceVars, Launched, Outcome
  <1>9. WorkspaceOK'
    BY Owners, <1>01, <1>02 DEF IInv, RegistryTypeOK, NativeOK, LeasesKept, WorkspaceOK,
       Using, ownerVars, Launched, Outcome, Leasing
  <1>10. CpuOK'
    BY Owners, <1>01, <1>02 DEF IInv, RegistryTypeOK, NativeOK, LeasesOwned, EntryOK,
       TensorOK, CpuOK, Using, Settled, ownerVars, deviceVars, Launched, Outcome
  <1> QED
    BY <1>1, <1>2, <1>3, <1>4, <1>5, <1>6, <1>7, <1>8, <1>9, <1>10 DEF IInv

(* The rollback's removal, all or nothing, keeps the invariant.             *)
LEMMA RollbackRemoveStep ==
    ASSUME IInv, NEW o \in Ops, RollbackRemove(o), UNCHANGED deviceVars
    PROVE  IInv'
  <1>01. /\ stage[o] = "undo" \/ stage[o] = "parked"
         /\ UNCHANGED <<rangeEntry, leases, held, native, result, proven, ownerVars, queue>>
    BY DEF RollbackRemove
  <1>02. \/ /\ Removable(o)
            /\ stage' = [stage EXCEPT ![o] = "undone"]
            /\ entry' = [entry EXCEPT ![o] = Entries(o, "absent")]
         \/ /\ ~Removable(o)
            /\ stage' = [stage EXCEPT ![o] = "rolledback"]
            /\ entry' = entry
    BY DEF RollbackRemove, Stage
  <1>03. /\ stage' = [stage EXCEPT ![o] = IF Removable(o) THEN "undone" ELSE "rolledback"]
         /\ entry' \in [Ops -> [Tensors -> EntryStates]]
         /\ \A p \in Ops : p # o => entry'[p] = entry[p]
         /\ Removable(o) => \A t \in Tensors : entry'[o][t] = "absent"
         /\ ~Removable(o) => entry' = entry
    <2>1. CASE Removable(o)
      <3>1. entry' = [entry EXCEPT ![o] = Entries(o, "absent")]
        BY <1>02, <2>1
      <3> QED
        BY <1>02, <2>1, <3>1, SetEntries DEF EntryStates
    <2>2. CASE ~Removable(o)
      BY <1>02, <2>2 DEF IInv, RegistryTypeOK
    <2> QED
      BY <2>1, <2>2
  <1>04. /\ Removable(o) /\ RangeOf[o] # {} => stage[o] = "parked"
         /\ ~Removable(o) => \E t \in OwnersOf[o] : entry[o][t] = "absent"
    BY <1>01, Owners DEF Removable, AllPresent, IInv, EntryOK
  <1>1. RegistryTypeOK'
    BY <1>01, <1>03, <1>04 DEF IInv, RegistryTypeOK, ownerVars, deviceVars, EntryStates,
       Stages, Launched, Outcome
  <1>2. NativeOK'
    BY <1>01, <1>03, <1>04 DEF IInv, RegistryTypeOK, NativeOK, ownerVars, deviceVars,
       Launched, Outcome
  <1>3. LeasesDisjoint'
    BY <1>01, <1>03, <1>04 DEF IInv, RegistryTypeOK, LeasesDisjoint, ownerVars
  <1>4. LeasesOwned'
    BY <1>01, <1>03, <1>04 DEF IInv, RegistryTypeOK, LeasesOwned, ownerVars
  <1>5. LeasesKept'
    BY <1>01, <1>03, <1>04 DEF IInv, RegistryTypeOK, NativeOK, LeasesKept, HeldProven,
       ownerVars, Launched, Outcome, Leasing
  <1>6. HeldProven'
    BY <1>01, <1>03, <1>04 DEF IInv, RegistryTypeOK, NativeOK, HeldProven, ownerVars,
       deviceVars, Launched, Outcome
  <1>7. EntryOK'
    <2> SUFFICES ASSUME NEW p \in Ops
                 PROVE  /\ stage'[p] \in {"new", "leased", "caught"} =>
                              \A t \in Tensors : entry'[p][t] = "absent"
                        /\ p \in Using' => \A t \in OwnersOf[p] :
                              tensor'[t] = "alive" => entry'[p][t] # "absent"
                        /\ stage'[p] = "undo" /\ p \notin Copies =>
                              \E t \in OwnersOf[p] : entry'[p][t] = "absent"
      BY DEF EntryOK
    <2>1. CASE p = o
      <3>1. stage'[o] = (IF Removable(o) THEN "undone" ELSE "rolledback") /\ native'[o] = native[o] /\ tensor' = tensor
        BY <1>01, <1>03 DEF IInv, RegistryTypeOK, ownerVars
      <3>2. OwnersOf[o] \subseteq Tensors /\ OwnersOf[o] # {}
        BY Owners
      <3>3. stage'[o] \in {"new", "leased", "caught"} => \A t \in Tensors : entry'[o][t] = "absent"
        BY <3>1
      <3>4. o \in Using' => \A t \in OwnersOf[o] : tensor'[t] = "alive" => entry'[o][t] # "absent"
        BY <1>01, <1>03, <3>1, <3>2 DEF IInv, NativeOK, Launched, Outcome, Using
      <3>5. stage'[o] = "undo" /\ o \notin Copies => \E t \in OwnersOf[o] : entry'[o][t] = "absent"
        BY <3>1
      <3> QED
        BY <2>1, <3>3, <3>4, <3>5
    <2>2. CASE p # o
      BY Owners, <1>01, <1>03, <1>04, <2>2
         DEF IInv, RegistryTypeOK, NativeOK, EntryOK, Using, ownerVars
    <2> QED
      BY <2>1, <2>2
  <1>8. TensorOK'
    BY Owners, <1>01, <1>03, <1>04 DEF IInv, RegistryTypeOK, NativeOK, EntryOK,
       TensorOK, Using, Settled, ownerVars, deviceVars, Launched, Outcome
  <1>9. WorkspaceOK'
    BY Owners, <1>01, <1>03, <1>04 DEF IInv, RegistryTypeOK, NativeOK, LeasesKept,
       WorkspaceOK, Using, ownerVars, Launched, Outcome, Leasing
  <1>10. CpuOK'
    BY Owners, <1>01, <1>03, <1>04 DEF IInv, RegistryTypeOK, NativeOK, LeasesOwned,
       EntryOK, TensorOK, CpuOK, Using, Settled, ownerVars, deviceVars, Launched, Outcome
  <1> QED
    BY <1>1, <1>2, <1>3, <1>4, <1>5, <1>6, <1>7, <1>8, <1>9, <1>10 DEF IInv

(* The rollback's return of the lease keeps the invariant.                  *)
LEMMA RollbackLeaseStep ==
    ASSUME IInv, NEW o \in Ops, RollbackLease(o), UNCHANGED deviceVars
    PROVE  IInv'
  <1>0. leases' = leases \ {o} /\ rangeEntry' \in [Ops -> EntryStates]
    BY CompleteOwn DEF IInv, RollbackLease, Leasing, LeasesKept
  <1>1. RegistryTypeOK'
    BY <1>0 DEF IInv, RollbackLease, Stage, RegistryTypeOK, ownerVars, deviceVars,
       EntryStates, Stages, Launched, Outcome
  <1>2. NativeOK'
    BY <1>0 DEF IInv, RollbackLease, Stage, RegistryTypeOK, NativeOK, ownerVars,
       deviceVars, Launched, Outcome
  <1>3. LeasesDisjoint'
    BY <1>0 DEF IInv, RollbackLease, Stage, RegistryTypeOK, LeasesDisjoint, ownerVars
  <1>4. LeasesOwned'
    BY <1>0 DEF IInv, RollbackLease, Stage, RegistryTypeOK, LeasesOwned, ownerVars
  <1>5. LeasesKept'
    BY <1>0 DEF IInv, RollbackLease, Stage, RegistryTypeOK, NativeOK, LeasesKept,
       HeldProven, ownerVars, Launched, Outcome, Leasing
  <1>6. HeldProven'
    BY <1>0 DEF IInv, RollbackLease, Stage, RegistryTypeOK, NativeOK, HeldProven,
       ownerVars, deviceVars, Launched, Outcome
  <1>7. EntryOK'
    BY Owners, <1>0 DEF IInv, RollbackLease, Stage, RegistryTypeOK, NativeOK, EntryOK,
       TensorOK, Using, ownerVars, Launched, Outcome
  <1>8. TensorOK'
    BY Owners, <1>0 DEF IInv, RollbackLease, Stage, RegistryTypeOK, NativeOK, EntryOK,
       TensorOK, Using, Settled, ownerVars, deviceVars, Launched, Outcome
  <1>9. WorkspaceOK'
    BY Owners, <1>0 DEF IInv, RollbackLease, Stage, RegistryTypeOK, NativeOK,
       LeasesKept, WorkspaceOK, Using, ownerVars, Launched, Outcome, Leasing
  <1>10. CpuOK'
    BY Owners, <1>0 DEF IInv, RollbackLease, Stage, RegistryTypeOK, NativeOK,
       LeasesOwned, EntryOK, TensorOK, CpuOK, Using, Settled, ownerVars, deviceVars,
       Launched, Outcome
  <1> QED
    BY <1>1, <1>2, <1>3, <1>4, <1>5, <1>6, <1>7, <1>8, <1>9, <1>10 DEF IInv

(* Handing a parked submission to the backend keeps the invariant.          *)
LEMMA DispatchStep ==
    ASSUME IInv, NEW o \in Ops, Dispatch(o), UNCHANGED deviceVars
    PROVE  IInv'
  <1>1. RegistryTypeOK'
    BY DEF IInv, Dispatch, Stage, RegistryTypeOK, entryVars, ownerVars, deviceVars,
       EntryStates, Stages, Launched, Outcome
  <1>2. NativeOK'
    BY DEF IInv, Dispatch, Stage, RegistryTypeOK, NativeOK, entryVars, ownerVars,
       deviceVars, Launched, Outcome
  <1>3. LeasesDisjoint'
    BY DEF IInv, Dispatch, Stage, RegistryTypeOK, LeasesDisjoint, entryVars, ownerVars
  <1>4. LeasesOwned'
    BY DEF IInv, Dispatch, Stage, RegistryTypeOK, LeasesOwned, entryVars, ownerVars
  <1>5. LeasesKept'
    BY DEF IInv, Dispatch, Stage, RegistryTypeOK, NativeOK, LeasesKept, HeldProven,
       entryVars, ownerVars, Launched, Outcome, Leasing
  <1>6. HeldProven'
    BY DEF IInv, Dispatch, Stage, RegistryTypeOK, NativeOK, HeldProven, entryVars,
       ownerVars, deviceVars, Launched, Outcome
  <1>7. EntryOK'
    BY Owners DEF IInv, Dispatch, Stage, RegistryTypeOK, NativeOK, EntryOK, TensorOK,
       Using, entryVars, ownerVars, Launched, Outcome
  <1>8. TensorOK'
    BY Owners DEF IInv, Dispatch, Stage, RegistryTypeOK, NativeOK, EntryOK, TensorOK,
       Using, Settled, entryVars, ownerVars, deviceVars, Launched, Outcome
  <1>9. WorkspaceOK'
    BY Owners DEF IInv, Dispatch, Stage, RegistryTypeOK, NativeOK, LeasesKept,
       WorkspaceOK, Using, entryVars, ownerVars, Launched, Outcome, Leasing
  <1>10. CpuOK'
    BY Owners DEF IInv, Dispatch, Stage, RegistryTypeOK, NativeOK, LeasesOwned, EntryOK,
       TensorOK, CpuOK, Using, Settled, entryVars, ownerVars, deviceVars, Launched, Outcome
  <1> QED
    BY <1>1, <1>2, <1>3, <1>4, <1>5, <1>6, <1>7, <1>8, <1>9, <1>10 DEF IInv

(* The backend's completion keeps the invariant.                            *)
LEMMA NativeFinishStep ==
    ASSUME IInv, NEW o \in Ops, NativeFinish(o), UNCHANGED deviceVars
    PROVE  IInv'
  <1>1. RegistryTypeOK'
    BY DEF IInv, NativeFinish, RegistryTypeOK, entryVars, ownerVars, deviceVars,
       EntryStates, Stages, Launched, Outcome
  <1>2. NativeOK'
    BY DEF IInv, NativeFinish, RegistryTypeOK, NativeOK, entryVars, ownerVars,
       deviceVars, Launched, Outcome
  <1>3. LeasesDisjoint'
    BY DEF IInv, NativeFinish, RegistryTypeOK, LeasesDisjoint, entryVars, ownerVars
  <1>4. LeasesOwned'
    BY DEF IInv, NativeFinish, RegistryTypeOK, LeasesOwned, entryVars, ownerVars
  <1>5. LeasesKept'
    BY DEF IInv, NativeFinish, RegistryTypeOK, NativeOK, LeasesKept, HeldProven,
       entryVars, ownerVars, Launched, Outcome, Leasing
  <1>6. HeldProven'
    BY DEF IInv, NativeFinish, RegistryTypeOK, NativeOK, HeldProven, entryVars,
       ownerVars, deviceVars, Launched, Outcome
  <1>7. EntryOK'
    BY Owners DEF IInv, NativeFinish, RegistryTypeOK, NativeOK, EntryOK, TensorOK,
       Using, entryVars, ownerVars, Launched, Outcome
  <1>8. TensorOK'
    BY Owners DEF IInv, NativeFinish, RegistryTypeOK, NativeOK, EntryOK, TensorOK,
       Using, Settled, entryVars, ownerVars, deviceVars, Launched, Outcome
  <1>9. WorkspaceOK'
    BY Owners DEF IInv, NativeFinish, RegistryTypeOK, NativeOK, LeasesKept, WorkspaceOK,
       Using, entryVars, ownerVars, Launched, Outcome, Leasing
  <1>10. CpuOK'
    BY Owners DEF IInv, NativeFinish, RegistryTypeOK, NativeOK, LeasesOwned, EntryOK,
       TensorOK, CpuOK, Using, Settled, entryVars, ownerVars, deviceVars, Launched, Outcome
  <1> QED
    BY <1>1, <1>2, <1>3, <1>4, <1>5, <1>6, <1>7, <1>8, <1>9, <1>10 DEF IInv

(* The outcome keeps the invariant.                                         *)
LEMMA SettleStep ==
    ASSUME IInv, NEW o \in Ops, NEW isProven \in BOOLEAN, NEW failed \in BOOLEAN,
           Settle(o, isProven, failed), UNCHANGED deviceVars
    PROVE  IInv'
  <1>1. RegistryTypeOK'
    BY DEF IInv, Settle, Stage, RegistryTypeOK, entryVars, ownerVars, deviceVars,
       EntryStates, Stages, Launched, Outcome
  <1>2. NativeOK'
    BY DEF IInv, Settle, Stage, RegistryTypeOK, NativeOK, entryVars, ownerVars,
       deviceVars, Launched, Outcome
  <1>3. LeasesDisjoint'
    BY DEF IInv, Settle, Stage, RegistryTypeOK, LeasesDisjoint, entryVars, ownerVars
  <1>4. LeasesOwned'
    BY DEF IInv, Settle, Stage, RegistryTypeOK, LeasesOwned, entryVars, ownerVars
  <1>5. LeasesKept'
    BY DEF IInv, Settle, Stage, RegistryTypeOK, NativeOK, LeasesKept, HeldProven,
       entryVars, ownerVars, Launched, Outcome, Leasing
  <1>6. HeldProven'
    BY DEF IInv, Settle, Stage, RegistryTypeOK, NativeOK, HeldProven, entryVars,
       ownerVars, deviceVars, Launched, Outcome
  <1>7. EntryOK'
    BY Owners DEF IInv, Settle, Stage, RegistryTypeOK, NativeOK, EntryOK, TensorOK,
       Using, entryVars, ownerVars, Launched, Outcome
  <1>8. TensorOK'
    BY Owners DEF IInv, Settle, Stage, RegistryTypeOK, NativeOK, EntryOK, TensorOK,
       Using, Settled, entryVars, ownerVars, deviceVars, Launched, Outcome
  <1>9. WorkspaceOK'
    BY Owners DEF IInv, Settle, Stage, RegistryTypeOK, NativeOK, LeasesKept,
       WorkspaceOK, Using, entryVars, ownerVars, Launched, Outcome, Leasing
  <1>10. CpuOK'
    BY Owners DEF IInv, Settle, Stage, RegistryTypeOK, NativeOK, LeasesOwned, EntryOK,
       TensorOK, CpuOK, Using, Settled, entryVars, ownerVars, deviceVars, Launched, Outcome
  <1> QED
    BY <1>1, <1>2, <1>3, <1>4, <1>5, <1>6, <1>7, <1>8, <1>9, <1>10 DEF IInv

(* Releasing or invalidating the entries keeps the invariant.               *)
LEMMA FinishOwnersStep ==
    ASSUME IInv, NEW o \in Ops, FinishOwners(o), UNCHANGED deviceVars
    PROVE  IInv'
  <1>01. /\ stage[o] = "settled" /\ stage' = [stage EXCEPT ![o] = "finishing"]
         /\ UNCHANGED <<rangeEntry, leases, held, native, result, proven, ownerVars, queue>>
    BY DEF FinishOwners, Stage
  <1>02. PICK s \in {"absent", "invalid"} :
            /\ entry' = Changed(o, {"live"}, s)
            /\ s = IF result[o] = "failed" \/ ~proven[o] THEN "invalid" ELSE "absent"
    BY DEF FinishOwners
  <1>03. /\ entry' \in [Ops -> [Tensors -> EntryStates]]
         /\ \A p \in Ops : p # o => entry'[p] = entry[p]
         /\ \A t \in Tensors : entry'[o][t] = IF entry[o][t] = "live" THEN s ELSE entry[o][t]
    BY <1>02 DEF IInv, RegistryTypeOK, Changed, EntryStates
  <1>04. native[o] = "running" => s = "invalid"
    BY <1>02 DEF IInv, NativeOK
  <1>1. RegistryTypeOK'
    BY <1>01, <1>03, <1>04 DEF IInv, RegistryTypeOK, ownerVars, deviceVars, EntryStates,
       Stages, Launched, Outcome
  <1>2. NativeOK'
    BY <1>01, <1>03, <1>04 DEF IInv, RegistryTypeOK, NativeOK, ownerVars, deviceVars,
       Launched, Outcome
  <1>3. LeasesDisjoint'
    BY <1>01, <1>03, <1>04 DEF IInv, RegistryTypeOK, LeasesDisjoint, ownerVars
  <1>4. LeasesOwned'
    BY <1>01, <1>03, <1>04 DEF IInv, RegistryTypeOK, LeasesOwned, ownerVars
  <1>5. LeasesKept'
    BY <1>01, <1>03, <1>04 DEF IInv, RegistryTypeOK, NativeOK, LeasesKept, HeldProven,
       ownerVars, Launched, Outcome, Leasing
  <1>6. HeldProven'
    BY <1>01, <1>03, <1>04 DEF IInv, RegistryTypeOK, NativeOK, HeldProven, ownerVars,
       deviceVars, Launched, Outcome
  <1>7. EntryOK'
    <2> SUFFICES ASSUME NEW p \in Ops
                 PROVE  /\ stage'[p] \in {"new", "leased", "caught"} =>
                              \A t \in Tensors : entry'[p][t] = "absent"
                        /\ p \in Using' => \A t \in OwnersOf[p] :
                              tensor'[t] = "alive" => entry'[p][t] # "absent"
                        /\ stage'[p] = "undo" /\ p \notin Copies =>
                              \E t \in OwnersOf[p] : entry'[p][t] = "absent"
      BY DEF EntryOK
    <2>1. CASE p = o
      <3>1. stage'[o] = "finishing" /\ native'[o] = native[o] /\ tensor' = tensor
        BY <1>01 DEF IInv, RegistryTypeOK, ownerVars
      <3>2. OwnersOf[o] \subseteq Tensors /\ OwnersOf[o] # {}
        BY Owners
      <3>3. stage'[o] \in {"new", "leased", "caught"} => \A t \in Tensors : entry'[o][t] = "absent"
        BY <3>1
      <3>4. o \in Using' => \A t \in OwnersOf[o] : tensor'[t] = "alive" => entry'[o][t] # "absent"
        BY <1>01, <1>03, <1>04, <3>1, <3>2 DEF EntryOK, IInv, NativeOK, Launched, Outcome, Using
      <3>5. stage'[o] = "undo" /\ o \notin Copies => \E t \in OwnersOf[o] : entry'[o][t] = "absent"
        BY <3>1
      <3> QED
        BY <2>1, <3>3, <3>4, <3>5
    <2>2. CASE p # o
      BY Owners, <1>01, <1>03, <1>04, <2>2
         DEF IInv, RegistryTypeOK, NativeOK, EntryOK, Using, ownerVars
    <2> QED
      BY <2>1, <2>2
  <1>8. TensorOK'
    BY Owners, <1>01, <1>03, <1>04 DEF IInv, RegistryTypeOK, NativeOK, EntryOK,
       TensorOK, Using, Settled, ownerVars, deviceVars, Launched, Outcome
  <1>9. WorkspaceOK'
    BY Owners, <1>01, <1>03, <1>04 DEF IInv, RegistryTypeOK, NativeOK, LeasesKept,
       WorkspaceOK, Using, ownerVars, Launched, Outcome, Leasing
  <1>10. CpuOK'
    BY Owners, <1>01, <1>03, <1>04 DEF IInv, RegistryTypeOK, NativeOK, LeasesOwned,
       EntryOK, TensorOK, CpuOK, Using, Settled, ownerVars, deviceVars, Launched, Outcome
  <1> QED
    BY <1>1, <1>2, <1>3, <1>4, <1>5, <1>6, <1>7, <1>8, <1>9, <1>10 DEF IInv

(* Releasing, invalidating or holding the lease keeps the invariant.        *)
LEMMA FinishLeaseStep ==
    ASSUME IInv, NEW o \in Ops, NEW kept \in BOOLEAN, FinishLease(o, kept),
           UNCHANGED deviceVars
    PROVE  IInv'
  <1>0. /\ rangeEntry' \in [Ops -> EntryStates]
        /\ \/ o \in HoldsRange /\ gpu /\ RangeOf[o] # {} /\ result[o] = "success"
              /\ held' = held \cup {o} /\ leases' = leases
           \/ held' = held /\ leases' = IF proven[o] THEN leases \ {o} ELSE leases
    <2>1. CASE gpu /\ o \in HoldsRange /\ RangeOf[o] # {} /\ result[o] = "success" /\ kept
      BY <2>1 DEF FinishLease, IInv, RegistryTypeOK
    <2>2. CASE ~(gpu /\ o \in HoldsRange /\ RangeOf[o] # {} /\ result[o] = "success" /\ kept)
      <3>1. CompleteLease(o, proven[o]) /\ UNCHANGED held
        BY <2>2 DEF FinishLease
      <3>2. RangeOf[o] # {} => o \in leases
        BY DEF FinishLease, IInv, Leasing, LeasesKept
      <3>3. proven[o] \in BOOLEAN
        BY DEF IInv, RegistryTypeOK
      <3> QED
        BY <3>1, <3>2, <3>3, CompleteOwn
    <2> QED
      BY <2>1, <2>2
  <1>00. /\ stage[o] = "finishing" /\ stage' = [stage EXCEPT ![o] = "completed"]
         /\ UNCHANGED <<entry, native, result, proven, ownerVars, queue>>
    BY DEF FinishLease, Stage
  <1>1. RegistryTypeOK'
    BY <1>0, <1>00 DEF IInv, RegistryTypeOK, ownerVars, deviceVars, EntryStates, Stages,
       Launched, Outcome
  <1>2. NativeOK'
    BY <1>0, <1>00 DEF IInv, RegistryTypeOK, NativeOK, ownerVars, deviceVars, Launched,
       Outcome
  <1>3. LeasesDisjoint'
    BY <1>0, <1>00 DEF IInv, RegistryTypeOK, LeasesDisjoint, ownerVars
  <1>4. LeasesOwned'
    BY <1>0, <1>00 DEF IInv, RegistryTypeOK, LeasesOwned, ownerVars
  <1>5. LeasesKept'
    BY <1>0, <1>00 DEF IInv, RegistryTypeOK, NativeOK, LeasesKept, HeldProven,
       ownerVars, Launched, Outcome, Leasing
  <1>6. HeldProven'
    BY Owners, <1>0, <1>00 DEF IInv, RegistryTypeOK, NativeOK, HeldProven, entryVars,
       opVars, ownerVars, deviceVars, EntryStates, Stages, Launched, Outcome, Leasing
  <1>7. EntryOK'
    BY Owners, <1>0, <1>00 DEF IInv, RegistryTypeOK, NativeOK, EntryOK, TensorOK, Using,
       ownerVars, Launched, Outcome
  <1>8. TensorOK'
    BY Owners, <1>0, <1>00 DEF IInv, RegistryTypeOK, NativeOK, EntryOK, TensorOK, Using,
       Settled, ownerVars, deviceVars, Launched, Outcome
  <1>9. WorkspaceOK'
    BY Owners, <1>0, <1>00 DEF IInv, RegistryTypeOK, NativeOK, LeasesKept, WorkspaceOK,
       Using, ownerVars, Launched, Outcome, Leasing
  <1>10. CpuOK'
    BY Owners, <1>0, <1>00 DEF IInv, RegistryTypeOK, NativeOK, LeasesOwned, EntryOK,
       TensorOK, CpuOK, Using, Settled, ownerVars, deviceVars, Launched, Outcome
  <1> QED
    BY <1>1, <1>2, <1>3, <1>4, <1>5, <1>6, <1>7, <1>8, <1>9, <1>10 DEF IInv

(* wait() giving a held lease back keeps the invariant.                     *)
LEMMA ObserveStep ==
    ASSUME IInv, NEW o \in Ops, Observe(o), UNCHANGED deviceVars
    PROVE  IInv'
  <1>0. leases' = leases \ {o} /\ rangeEntry' \in [Ops -> EntryStates]
    BY CompleteOwn DEF IInv, Observe, Leasing, LeasesKept
  <1>1. RegistryTypeOK'
    BY <1>0 DEF IInv, Observe, RegistryTypeOK, opVars, ownerVars, deviceVars,
       EntryStates, Stages, Launched, Outcome
  <1>2. NativeOK'
    BY <1>0 DEF IInv, Observe, RegistryTypeOK, NativeOK, opVars, ownerVars, deviceVars,
       Launched, Outcome
  <1>3. LeasesDisjoint'
    BY <1>0 DEF IInv, Observe, RegistryTypeOK, LeasesDisjoint, opVars, ownerVars
  <1>4. LeasesOwned'
    BY <1>0 DEF IInv, Observe, RegistryTypeOK, LeasesOwned, opVars, ownerVars
  <1>5. LeasesKept'
    BY <1>0 DEF IInv, Observe, RegistryTypeOK, NativeOK, LeasesKept, HeldProven, opVars,
       ownerVars, Launched, Outcome, Leasing
  <1>6. HeldProven'
    BY <1>0 DEF IInv, Observe, RegistryTypeOK, NativeOK, HeldProven, opVars, ownerVars,
       deviceVars, Launched, Outcome
  <1>7. EntryOK'
    BY Owners, <1>0 DEF IInv, Observe, RegistryTypeOK, NativeOK, EntryOK, TensorOK,
       Using, opVars, ownerVars, Launched, Outcome
  <1>8. TensorOK'
    BY Owners, <1>0 DEF IInv, Observe, RegistryTypeOK, NativeOK, EntryOK, TensorOK,
       Using, Settled, opVars, ownerVars, deviceVars, Launched, Outcome
  <1>9. WorkspaceOK'
    BY Owners, <1>0 DEF IInv, Observe, RegistryTypeOK, NativeOK, LeasesKept,
       WorkspaceOK, Using, opVars, ownerVars, Launched, Outcome, Leasing
  <1>10. CpuOK'
    BY Owners, <1>0 DEF IInv, Observe, RegistryTypeOK, NativeOK, LeasesOwned, EntryOK,
       TensorOK, CpuOK, Using, Settled, opVars, ownerVars, deviceVars, Launched, Outcome
  <1> QED
    BY <1>1, <1>2, <1>3, <1>4, <1>5, <1>6, <1>7, <1>8, <1>9, <1>10 DEF IInv

(* A destructor's copy of the entries keeps the invariant.                  *)
LEMMA DestroyTensorStep ==
    ASSUME IInv, NEW t \in Tensors, DestroyTensor(t), UNCHANGED deviceVars
    PROVE  IInv'
  <1>1. RegistryTypeOK'
    BY DEF IInv, DestroyTensor, Settled, RegistryTypeOK, entryVars, opVars, deviceVars,
       EntryStates, Stages, Launched, Outcome
  <1>2. NativeOK'
    BY DEF IInv, DestroyTensor, Settled, RegistryTypeOK, NativeOK, entryVars, opVars,
       deviceVars, Launched, Outcome
  <1>3. LeasesDisjoint'
    BY DEF IInv, DestroyTensor, Settled, RegistryTypeOK, LeasesDisjoint, entryVars,
       opVars
  <1>4. LeasesOwned'
    BY DEF IInv, DestroyTensor, Settled, RegistryTypeOK, LeasesOwned, entryVars, opVars
  <1>5. LeasesKept'
    BY DEF IInv, DestroyTensor, Settled, RegistryTypeOK, NativeOK, LeasesKept,
       HeldProven, entryVars, opVars, Launched, Outcome, Leasing
  <1>6. HeldProven'
    BY DEF IInv, DestroyTensor, Settled, RegistryTypeOK, NativeOK, HeldProven,
       entryVars, opVars, deviceVars, Launched, Outcome
  <1>7. EntryOK'
    BY Owners DEF IInv, DestroyTensor, Settled, RegistryTypeOK, NativeOK, EntryOK,
       TensorOK, Using, entryVars, opVars, Launched, Outcome
  <1>8. TensorOK'
    BY Owners DEF IInv, DestroyTensor, Settled, RegistryTypeOK, NativeOK, EntryOK,
       TensorOK, Using, entryVars, opVars, deviceVars, Launched, Outcome
  <1>9. WorkspaceOK'
    BY Owners DEF IInv, DestroyTensor, Settled, RegistryTypeOK, NativeOK, LeasesKept,
       WorkspaceOK, Using, entryVars, opVars, Launched, Outcome, Leasing
  <1>10. CpuOK'
    BY Owners DEF IInv, DestroyTensor, Settled, RegistryTypeOK, NativeOK, LeasesOwned,
       EntryOK, TensorOK, CpuOK, Using, entryVars, opVars, deviceVars, Launched, Outcome
  <1> QED
    BY <1>1, <1>2, <1>3, <1>4, <1>5, <1>6, <1>7, <1>8, <1>9, <1>10 DEF IInv

(* A destructor that cannot copy them keeps the invariant.                  *)
LEMMA SnapshotFailsStep ==
    ASSUME IInv, NEW t \in Tensors, SnapshotFails(t), UNCHANGED deviceVars
    PROVE  IInv'
  <1>1. RegistryTypeOK'
    BY DEF IInv, SnapshotFails, Settled, RegistryTypeOK, entryVars, opVars, deviceVars,
       EntryStates, Stages, Launched, Outcome
  <1>2. NativeOK'
    BY DEF IInv, SnapshotFails, Settled, RegistryTypeOK, NativeOK, entryVars, opVars,
       deviceVars, Launched, Outcome
  <1>3. LeasesDisjoint'
    BY DEF IInv, SnapshotFails, Settled, RegistryTypeOK, LeasesDisjoint, entryVars,
       opVars
  <1>4. LeasesOwned'
    BY DEF IInv, SnapshotFails, Settled, RegistryTypeOK, LeasesOwned, entryVars, opVars
  <1>5. LeasesKept'
    BY DEF IInv, SnapshotFails, Settled, RegistryTypeOK, NativeOK, LeasesKept,
       HeldProven, entryVars, opVars, Launched, Outcome, Leasing
  <1>6. HeldProven'
    BY DEF IInv, SnapshotFails, Settled, RegistryTypeOK, NativeOK, HeldProven,
       entryVars, opVars, deviceVars, Launched, Outcome
  <1>7. EntryOK'
    BY Owners DEF IInv, SnapshotFails, Settled, RegistryTypeOK, NativeOK, EntryOK,
       TensorOK, Using, entryVars, opVars, Launched, Outcome
  <1>8. TensorOK'
    BY Owners DEF IInv, SnapshotFails, Settled, RegistryTypeOK, NativeOK, EntryOK,
       TensorOK, Using, entryVars, opVars, deviceVars, Launched, Outcome
  <1>9. WorkspaceOK'
    BY Owners DEF IInv, SnapshotFails, Settled, RegistryTypeOK, NativeOK, LeasesKept,
       WorkspaceOK, Using, entryVars, opVars, Launched, Outcome, Leasing
  <1>10. CpuOK'
    BY Owners DEF IInv, SnapshotFails, Settled, RegistryTypeOK, NativeOK, LeasesOwned,
       EntryOK, TensorOK, CpuOK, Using, entryVars, opVars, deviceVars, Launched, Outcome
  <1> QED
    BY <1>1, <1>2, <1>3, <1>4, <1>5, <1>6, <1>7, <1>8, <1>9, <1>10 DEF IInv

(* A destructor's look at the fences keeps the invariant.                   *)
LEMMA CheckFencesStep ==
    ASSUME IInv, NEW t \in Tensors, CheckFences(t), UNCHANGED deviceVars
    PROVE  IInv'
  <1>1. RegistryTypeOK'
    BY DEF IInv, CheckFences, FenceSucceeds, RegistryTypeOK, entryVars, opVars,
       deviceVars, EntryStates, Stages, Launched, Outcome
  <1>2. NativeOK'
    BY DEF IInv, CheckFences, FenceSucceeds, RegistryTypeOK, NativeOK, entryVars,
       opVars, deviceVars, Launched, Outcome
  <1>3. LeasesDisjoint'
    BY DEF IInv, CheckFences, FenceSucceeds, RegistryTypeOK, LeasesDisjoint, entryVars,
       opVars
  <1>4. LeasesOwned'
    BY DEF IInv, CheckFences, FenceSucceeds, RegistryTypeOK, LeasesOwned, entryVars,
       opVars
  <1>5. LeasesKept'
    BY DEF IInv, CheckFences, FenceSucceeds, RegistryTypeOK, NativeOK, LeasesKept,
       HeldProven, entryVars, opVars, Launched, Outcome, Leasing
  <1>6. HeldProven'
    BY DEF IInv, CheckFences, FenceSucceeds, RegistryTypeOK, NativeOK, HeldProven,
       entryVars, opVars, deviceVars, Launched, Outcome
  <1>7. EntryOK'
    BY Owners DEF IInv, CheckFences, FenceSucceeds, RegistryTypeOK, NativeOK, EntryOK,
       TensorOK, Using, entryVars, opVars, Launched, Outcome
  <1>8. TensorOK'
    <2> SUFFICES ASSUME NEW p \in Ops, NEW u \in OwnersOf[p], tensor'[u] # "alive"
                 PROVE  /\ stage'[p] # "leased"
                        /\ tensor'[u] = "checking" /\ p \in Using' => p \in snap'[u]
                        /\ tensor'[u] \in {"releasing", "released"} => p \notin Using'
                        /\ ~early' => Settled(p)'
      BY DEF TensorOK
    <2>0. u \in Tensors /\ Using' = Using /\ stage' = stage /\ snap' = snap /\ early' = early
      BY Owners DEF CheckFences, Using, opVars, deviceVars
    <2>1. CASE u # t
      BY <2>0, <2>1 DEF CheckFences, IInv, RegistryTypeOK, TensorOK, Settled
    <2>2. CASE u = t
      <3>1. tensor[t] = "checking" /\ tensor'[t] \in {"releasing", "quarantining"}
        BY DEF CheckFences, IInv, RegistryTypeOK
      <3>2. tensor'[t] = "releasing" => \A q \in snap[t] : FenceSucceeds(q)
        BY DEF CheckFences, IInv, RegistryTypeOK
      <3>3. \A q \in snap[t] : FenceSucceeds(q) => q \notin Using
        BY DEF FenceSucceeds, IInv, RegistryTypeOK, NativeOK, Using, Outcome
      <3>4. p \in Using => p \in snap[t]
        BY <2>0, <2>2, <3>1 DEF IInv, TensorOK
      <3> QED
        BY <2>0, <2>2, <3>1, <3>2, <3>3, <3>4 DEF IInv, TensorOK, Settled
    <2> QED
      BY <2>1, <2>2
  <1>9. WorkspaceOK'
    BY Owners DEF IInv, CheckFences, FenceSucceeds, RegistryTypeOK, NativeOK,
       LeasesKept, WorkspaceOK, Using, entryVars, opVars, Launched, Outcome, Leasing
  <1>10. CpuOK'
    BY Owners DEF IInv, CheckFences, FenceSucceeds, RegistryTypeOK, NativeOK,
       LeasesOwned, EntryOK, TensorOK, CpuOK, Using, Settled, entryVars, opVars,
       deviceVars, Launched, Outcome
  <1> QED
    BY <1>1, <1>2, <1>3, <1>4, <1>5, <1>6, <1>7, <1>8, <1>9, <1>10 DEF IInv

(* A destructor's removal of the copied entries keeps the invariant.        *)
LEMMA DropEntriesStep ==
    ASSUME IInv, NEW t \in Tensors, DropEntries(t), UNCHANGED deviceVars
    PROVE  IInv'
  <1>1. RegistryTypeOK'
    BY DEF IInv, DropEntries, RegistryTypeOK, opVars, deviceVars, EntryStates, Stages,
       Launched, Outcome
  <1>2. NativeOK'
    BY DEF IInv, DropEntries, RegistryTypeOK, NativeOK, opVars, deviceVars, Launched,
       Outcome
  <1>3. LeasesDisjoint'
    BY DEF IInv, DropEntries, RegistryTypeOK, LeasesDisjoint, opVars
  <1>4. LeasesOwned'
    BY DEF IInv, DropEntries, RegistryTypeOK, LeasesOwned, opVars
  <1>5. LeasesKept'
    BY DEF IInv, DropEntries, RegistryTypeOK, NativeOK, LeasesKept, HeldProven, opVars,
       Launched, Outcome, Leasing
  <1>6. HeldProven'
    BY DEF IInv, DropEntries, RegistryTypeOK, NativeOK, HeldProven, opVars, deviceVars,
       Launched, Outcome
  <1>7. EntryOK'
    BY Owners DEF IInv, DropEntries, RegistryTypeOK, NativeOK, EntryOK, TensorOK, Using,
       opVars, Launched, Outcome
  <1>8. TensorOK'
    BY Owners DEF IInv, DropEntries, RegistryTypeOK, NativeOK, EntryOK, TensorOK, Using,
       Settled, opVars, deviceVars, Launched, Outcome
  <1>9. WorkspaceOK'
    BY Owners DEF IInv, DropEntries, RegistryTypeOK, NativeOK, LeasesKept, WorkspaceOK,
       Using, opVars, Launched, Outcome, Leasing
  <1>10. CpuOK'
    BY Owners DEF IInv, DropEntries, RegistryTypeOK, NativeOK, LeasesOwned, EntryOK,
       TensorOK, CpuOK, Using, Settled, opVars, deviceVars, Launched, Outcome
  <1> QED
    BY <1>1, <1>2, <1>3, <1>4, <1>5, <1>6, <1>7, <1>8, <1>9, <1>10 DEF IInv

(* The workspace's destructor keeps the invariant.                          *)
LEMMA DestroyWorkspaceStep ==
    ASSUME IInv, DestroyWorkspace, UNCHANGED deviceVars
    PROVE  IInv'
  <1>1. RegistryTypeOK'
    BY DEF IInv, DestroyWorkspace, RegistryTypeOK, entryVars, opVars, deviceVars,
       EntryStates, Stages, Launched, Outcome
  <1>2. NativeOK'
    BY DEF IInv, DestroyWorkspace, RegistryTypeOK, NativeOK, entryVars, opVars,
       deviceVars, Launched, Outcome
  <1>3. LeasesDisjoint'
    BY DEF IInv, DestroyWorkspace, RegistryTypeOK, LeasesDisjoint, entryVars, opVars
  <1>4. LeasesOwned'
    BY DEF IInv, DestroyWorkspace, RegistryTypeOK, LeasesOwned, entryVars, opVars
  <1>5. LeasesKept'
    BY DEF IInv, DestroyWorkspace, RegistryTypeOK, NativeOK, LeasesKept, HeldProven,
       entryVars, opVars, Launched, Outcome, Leasing
  <1>6. HeldProven'
    BY DEF IInv, DestroyWorkspace, RegistryTypeOK, NativeOK, HeldProven, entryVars,
       opVars, deviceVars, Launched, Outcome
  <1>7. EntryOK'
    BY Owners DEF IInv, DestroyWorkspace, RegistryTypeOK, NativeOK, EntryOK, TensorOK,
       Using, entryVars, opVars, Launched, Outcome
  <1>8. TensorOK'
    BY Owners DEF IInv, DestroyWorkspace, RegistryTypeOK, NativeOK, EntryOK, TensorOK,
       Using, Settled, entryVars, opVars, deviceVars, Launched, Outcome
  <1>9. WorkspaceOK'
    BY Owners DEF IInv, DestroyWorkspace, RegistryTypeOK, NativeOK, LeasesKept,
       WorkspaceOK, Using, entryVars, opVars, Launched, Outcome, Leasing
  <1>10. CpuOK'
    BY Owners DEF IInv, DestroyWorkspace, RegistryTypeOK, NativeOK, LeasesOwned,
       EntryOK, TensorOK, CpuOK, Using, Settled, entryVars, opVars, deviceVars, Launched,
       Outcome
  <1> QED
    BY <1>1, <1>2, <1>3, <1>4, <1>5, <1>6, <1>7, <1>8, <1>9, <1>10 DEF IInv

(* The begin of a queue's destructor keeps the invariant.                   *)
LEMMA BeginDestroyQueueStep ==
    ASSUME IInv, NEW q \in Queues, BeginDestroyQueue(q), UNCHANGED deviceVars
    PROVE  IInv'
  <1>1. RegistryTypeOK'
    BY DEF IInv, BeginDestroyQueue, InvalidateQueue, Changed, OpsOf, RegistryTypeOK,
       opVars, ownerVars, deviceVars, EntryStates, Stages, Launched, Outcome
  <1>2. NativeOK'
    BY DEF IInv, BeginDestroyQueue, InvalidateQueue, Changed, OpsOf, RegistryTypeOK,
       NativeOK, opVars, ownerVars, deviceVars, Launched, Outcome
  <1>3. LeasesDisjoint'
    BY DEF IInv, BeginDestroyQueue, InvalidateQueue, Changed, OpsOf, RegistryTypeOK,
       LeasesDisjoint, opVars, ownerVars
  <1>4. LeasesOwned'
    BY DEF IInv, BeginDestroyQueue, InvalidateQueue, Changed, OpsOf, RegistryTypeOK,
       LeasesOwned, opVars, ownerVars
  <1>5. LeasesKept'
    BY DEF IInv, BeginDestroyQueue, InvalidateQueue, Changed, OpsOf, RegistryTypeOK,
       NativeOK, LeasesKept, HeldProven, opVars, ownerVars, Launched, Outcome, Leasing
  <1>6. HeldProven'
    BY DEF IInv, BeginDestroyQueue, InvalidateQueue, Changed, OpsOf, RegistryTypeOK,
       NativeOK, HeldProven, opVars, ownerVars, deviceVars, Launched, Outcome
  <1>7. EntryOK'
    BY Owners DEF IInv, BeginDestroyQueue, InvalidateQueue, Changed, OpsOf,
       RegistryTypeOK, NativeOK, EntryOK, TensorOK, Using, entryVars, opVars, ownerVars,
       deviceVars, EntryStates, Stages, Launched, Outcome, Leasing
  <1>8. TensorOK'
    BY Owners DEF IInv, BeginDestroyQueue, InvalidateQueue, Changed, OpsOf,
       RegistryTypeOK, NativeOK, EntryOK, TensorOK, Using, Settled, opVars, ownerVars,
       deviceVars, Launched, Outcome
  <1>9. WorkspaceOK'
    BY Owners DEF IInv, BeginDestroyQueue, InvalidateQueue, Changed, OpsOf,
       RegistryTypeOK, NativeOK, LeasesKept, WorkspaceOK, Using, opVars, ownerVars,
       Launched, Outcome, Leasing
  <1>10. CpuOK'
    BY Owners DEF IInv, BeginDestroyQueue, InvalidateQueue, Changed, OpsOf,
       RegistryTypeOK, NativeOK, LeasesOwned, EntryOK, TensorOK, CpuOK, Using, Settled,
       opVars, ownerVars, deviceVars, Launched, Outcome
  <1> QED
    BY <1>1, <1>2, <1>3, <1>4, <1>5, <1>6, <1>7, <1>8, <1>9, <1>10 DEF IInv

(* The CPU queue's joined worker keeps the invariant.                       *)
LEMMA JoinedStep ==
    ASSUME IInv, NEW q \in Queues, Joined(q), UNCHANGED deviceVars
    PROVE  IInv'
  <1>1. RegistryTypeOK'
    BY DEF IInv, Joined, InvalidateQueue, Changed, OpsOf, Settled, RegistryTypeOK,
       opVars, ownerVars, deviceVars, EntryStates, Stages, Launched, Outcome
  <1>2. NativeOK'
    BY DEF IInv, Joined, InvalidateQueue, Changed, OpsOf, Settled, RegistryTypeOK,
       NativeOK, opVars, ownerVars, deviceVars, Launched, Outcome
  <1>3. LeasesDisjoint'
    BY DEF IInv, Joined, InvalidateQueue, Changed, OpsOf, Settled, RegistryTypeOK,
       LeasesDisjoint, opVars, ownerVars
  <1>4. LeasesOwned'
    BY DEF IInv, Joined, InvalidateQueue, Changed, OpsOf, Settled, RegistryTypeOK,
       LeasesOwned, opVars, ownerVars
  <1>5. LeasesKept'
    BY DEF IInv, Joined, InvalidateQueue, Changed, OpsOf, Settled, RegistryTypeOK,
       NativeOK, LeasesKept, HeldProven, opVars, ownerVars, Launched, Outcome, Leasing
  <1>6. HeldProven'
    BY DEF IInv, Joined, InvalidateQueue, Changed, OpsOf, Settled, RegistryTypeOK,
       NativeOK, HeldProven, opVars, ownerVars, deviceVars, Launched, Outcome
  <1>7. EntryOK'
    BY Owners DEF IInv, Joined, InvalidateQueue, Changed, OpsOf, Settled,
       RegistryTypeOK, NativeOK, EntryOK, TensorOK, Using, opVars, ownerVars, Launched,
       Outcome
  <1>8. TensorOK'
    BY Owners DEF IInv, Joined, InvalidateQueue, Changed, OpsOf, Settled,
       RegistryTypeOK, NativeOK, EntryOK, TensorOK, Using, opVars, ownerVars, deviceVars,
       Launched, Outcome
  <1>9. WorkspaceOK'
    BY Owners DEF IInv, Joined, InvalidateQueue, Changed, OpsOf, Settled,
       RegistryTypeOK, NativeOK, LeasesKept, WorkspaceOK, Using, opVars, ownerVars,
       Launched, Outcome, Leasing
  <1>10. CpuOK'
    BY Owners DEF IInv, Joined, InvalidateQueue, Changed, OpsOf, Settled,
       RegistryTypeOK, NativeOK, LeasesOwned, EntryOK, TensorOK, CpuOK, Using, opVars,
       ownerVars, deviceVars, Launched, Outcome
  <1> QED
    BY <1>1, <1>2, <1>3, <1>4, <1>5, <1>6, <1>7, <1>8, <1>9, <1>10 DEF IInv

(* The end of a queue's destructor keeps the invariant.                     *)
LEMMA CloseQueueStep ==
    ASSUME IInv, NEW q \in Queues, NEW ok \in BOOLEAN, CloseQueue(q, ok),
           UNCHANGED deviceVars
    PROVE  IInv'
  <1>1. RegistryTypeOK'
    BY DEF IInv, CloseQueue, OpsOf, Settled, RegistryTypeOK, opVars, ownerVars,
       deviceVars, EntryStates, Stages, Launched, Outcome
  <1>2. NativeOK'
    BY DEF IInv, CloseQueue, OpsOf, Settled, RegistryTypeOK, NativeOK, opVars,
       ownerVars, deviceVars, Launched, Outcome
  <1>3. LeasesDisjoint'
    BY DEF IInv, CloseQueue, OpsOf, Settled, RegistryTypeOK, LeasesDisjoint, opVars,
       ownerVars
  <1>4. LeasesOwned'
    BY DEF IInv, CloseQueue, OpsOf, Settled, RegistryTypeOK, LeasesOwned, opVars,
       ownerVars
  <1>5. LeasesKept'
    <2>1. /\ stage' = stage /\ native' = native /\ held' \subseteq held
          /\ held' = held \ (held \cap OpsOf(q))
      BY DEF CloseQueue, opVars
    <2>2. \A p \in leases : p \notin leases' => p \in held /\ p \in OpsOf(q)
      <3>1. \A p, r \in leases : RangeOf[p] = RangeOf[r] => p = r
        BY DEF IInv, LeasesDisjoint, LeasesOwned
      <3>2. held \subseteq leases
        BY DEF IInv, RegistryTypeOK, HeldProven, LeasesKept
      <3>3. \A p \in leases : p \notin leases' =>
               \E r \in held \cap OpsOf(q) : RangeOf[p] = RangeOf[r]
        BY DEF CloseQueue
      <3> QED
        BY <3>1, <3>2, <3>3
    <2>3. \A p \in held : stage[p] \notin Leasing /\ native[p] # "running"
      BY DEF IInv, RegistryTypeOK, HeldProven, NativeOK, Leasing
    <2> QED
      BY <2>1, <2>2, <2>3 DEF IInv, LeasesKept
  <1>6. HeldProven'
    BY DEF IInv, CloseQueue, OpsOf, Settled, RegistryTypeOK, NativeOK, HeldProven,
       opVars, ownerVars, deviceVars, Launched, Outcome
  <1>7. EntryOK'
    BY Owners DEF IInv, CloseQueue, OpsOf, Settled, RegistryTypeOK, NativeOK, EntryOK,
       TensorOK, Using, opVars, ownerVars, Launched, Outcome
  <1>8. TensorOK'
    BY Owners DEF IInv, CloseQueue, OpsOf, Settled, RegistryTypeOK, NativeOK, EntryOK,
       TensorOK, Using, opVars, ownerVars, deviceVars, Launched, Outcome
  <1>9. WorkspaceOK'
    BY Owners DEF IInv, CloseQueue, OpsOf, Settled, RegistryTypeOK, NativeOK,
       LeasesKept, WorkspaceOK, Using, opVars, ownerVars, Launched, Outcome, Leasing
  <1>10. CpuOK'
    BY Owners DEF IInv, CloseQueue, OpsOf, Settled, RegistryTypeOK, NativeOK,
       LeasesOwned, EntryOK, TensorOK, CpuOK, Using, opVars, ownerVars, deviceVars,
       Launched, Outcome
  <1> QED
    BY <1>1, <1>2, <1>3, <1>4, <1>5, <1>6, <1>7, <1>8, <1>9, <1>10 DEF IInv

(* The device's late proof keeps the invariant.                             *)
LEMMA ReclaimStep ==
    ASSUME IInv, NEW q \in Queues, Reclaim(q), UNCHANGED deviceVars
    PROVE  IInv'
  <1>1. RegistryTypeOK'
    BY DEF IInv, Reclaim, OpsOf, RegistryTypeOK, entryVars, opVars, ownerVars,
       deviceVars, EntryStates, Stages, Launched, Outcome
  <1>2. NativeOK'
    BY DEF IInv, Reclaim, OpsOf, RegistryTypeOK, NativeOK, entryVars, opVars, ownerVars,
       deviceVars, Launched, Outcome
  <1>3. LeasesDisjoint'
    BY DEF IInv, Reclaim, OpsOf, RegistryTypeOK, LeasesDisjoint, entryVars, opVars,
       ownerVars
  <1>4. LeasesOwned'
    BY DEF IInv, Reclaim, OpsOf, RegistryTypeOK, LeasesOwned, entryVars, opVars,
       ownerVars
  <1>5. LeasesKept'
    BY DEF IInv, Reclaim, OpsOf, RegistryTypeOK, NativeOK, LeasesKept, HeldProven,
       entryVars, opVars, ownerVars, Launched, Outcome, Leasing
  <1>6. HeldProven'
    BY DEF IInv, Reclaim, OpsOf, RegistryTypeOK, NativeOK, HeldProven, entryVars,
       opVars, ownerVars, deviceVars, Launched, Outcome
  <1>7. EntryOK'
    BY Owners DEF IInv, Reclaim, OpsOf, RegistryTypeOK, NativeOK, EntryOK, TensorOK,
       Using, entryVars, opVars, ownerVars, Launched, Outcome
  <1>8. TensorOK'
    BY Owners DEF IInv, Reclaim, OpsOf, RegistryTypeOK, NativeOK, EntryOK, TensorOK,
       Using, Settled, entryVars, opVars, ownerVars, deviceVars, Launched, Outcome
  <1>9. WorkspaceOK'
    BY Owners DEF IInv, Reclaim, OpsOf, RegistryTypeOK, NativeOK, LeasesKept,
       WorkspaceOK, Using, entryVars, opVars, ownerVars, Launched, Outcome, Leasing
  <1>10. CpuOK'
    BY Owners DEF IInv, Reclaim, OpsOf, RegistryTypeOK, NativeOK, LeasesOwned, EntryOK,
       TensorOK, CpuOK, Using, Settled, entryVars, opVars, ownerVars, deviceVars, Launched,
       Outcome
  <1> QED
    BY <1>1, <1>2, <1>3, <1>4, <1>5, <1>6, <1>7, <1>8, <1>9, <1>10 DEF IInv

(* The invariant holds when the device is created. *)
LEMMA InitIInv == Init => IInv
  <1> SUFFICES ASSUME Init PROVE IInv
    OBVIOUS
  <1>1. RegistryTypeOK
    BY DEF Init, RegistryTypeOK, EntryStates, Stages, Launched, Outcome
  <1>2. NativeOK /\ LeasesDisjoint /\ LeasesOwned /\ LeasesKept /\ HeldProven
    BY DEF Init, NativeOK, LeasesDisjoint, LeasesOwned, LeasesKept, HeldProven, Outcome, Leasing
  <1>3. EntryOK /\ TensorOK /\ WorkspaceOK /\ CpuOK
    BY Owners DEF Init, EntryOK, TensorOK, WorkspaceOK, CpuOK, Using
  <1> QED
    BY <1>1, <1>2, <1>3 DEF IInv

(* Every step of a submission, a tensor, a queue or the workspace keeps it. *)
LEMMA NextIInv == IInv /\ [Next]_vars => IInv'
  <1> SUFFICES ASSUME IInv, [Next]_vars PROVE IInv'
    OBVIOUS
  <1>1. ASSUME UNCHANGED deviceVars, NEW o \in Ops, OpStep(o) PROVE IInv'
    BY <1>1, LeaseStep, RegisterStep, CatchRemoveStep, CatchLeaseStep, RollbackRemoveStep,
       RollbackLeaseStep, DispatchStep, NativeFinishStep, SettleStep, FinishOwnersStep,
       FinishLeaseStep, ObserveStep DEF OpStep
  <1>2. ASSUME UNCHANGED deviceVars, NEW t \in Tensors, TensorStep(t) PROVE IInv'
    BY <1>2, DestroyTensorStep, SnapshotFailsStep, CheckFencesStep, DropEntriesStep
       DEF TensorStep
  <1>3. ASSUME UNCHANGED deviceVars, NEW q \in Queues, QueueStep(q) PROVE IInv'
    BY <1>3, BeginDestroyQueueStep, JoinedStep, ReclaimStep, CloseQueueStep DEF QueueStep
  <1>4. ASSUME UNCHANGED deviceVars, DestroyWorkspace PROVE IInv'
    BY <1>4, DestroyWorkspaceStep
  <1>5. CASE UNCHANGED vars
    <2> USE <1>5 DEF vars, entryVars, opVars, ownerVars, deviceVars
    <2>1. RegistryTypeOK'
      BY DEF IInv, RegistryTypeOK
    <2>2. NativeOK' /\ LeasesDisjoint' /\ LeasesOwned' /\ LeasesKept' /\ HeldProven'
      BY DEF IInv, NativeOK, LeasesDisjoint, LeasesOwned, LeasesKept, HeldProven
    <2>3. Using' = Using
      BY DEF Using
    <2>4. EntryOK' /\ TensorOK'
      BY <2>3 DEF IInv, EntryOK, TensorOK, Settled
    <2>5. WorkspaceOK' /\ CpuOK'
      BY <2>3 DEF IInv, WorkspaceOK, CpuOK
    <2> QED
      BY <2>1, <2>2, <2>4, <2>5 DEF IInv
  <1> QED
    BY <1>1, <1>2, <1>3, <1>4, <1>5 DEF Next

(* The registry's invariant holds in every reachable state. *)
THEOREM Invariance == Spec => []IInv
BY InitIInv, NextIInv, PTL DEF Spec

(* No allocator gets storage back that a parked or running submission can   *)
(* touch, however early its tensor or workspace is destroyed                *)
(* (release_or_quarantine and release_workspace).                           *)
THEOREM StorageIsSafe == Spec => []StorageSafe
  <1>1. IInv => StorageSafe
    <2> SUFFICES ASSUME IInv PROVE StorageSafe
      OBVIOUS
    <2>1. \A o \in Using : \A t \in OwnersOf[o] : tensor[t] # "released"
      BY DEF IInv, TensorOK, Using
    <2>2. \A o \in Using : RangeOf[o] # {} => workspace # "released"
      BY DEF IInv, WorkspaceOK, Using
    <2> QED
      BY <2>1, <2>2 DEF StorageSafe
  <1> QED
    BY <1>1, Invariance, PTL

(* The lease of a submission that uses its cells, or whose cells wait for   *)
(* a token to be observed, is in the table and overlaps no other, although  *)
(* complete_workspace_lease looks a lease up by its range.                  *)
THEOREM LeasesAreExclusive == Spec => []LeaseExclusive
  <1>1. IInv => LeaseExclusive
    <2> SUFFICES ASSUME IInv PROVE LeaseExclusive
      OBVIOUS
    <2>1. \A o \in Using \cup held : RangeOf[o] # {} => o \in leases
      BY DEF IInv, RegistryTypeOK, LeasesKept, Using, Leasing
    <2> QED
      BY <2>1 DEF IInv, LeasesDisjoint, LeaseExclusive
  <1> QED
    BY <1>1, Invariance, PTL

(* On a CPU device whose callers keep their tensors, a submission that is   *)
(* over leaves no Live entry and no lease, also when its dispatch and the   *)
(* pump both roll it back.                                                  *)
THEOREM NothingIsLeaked == Spec => []NothingLeaks
  <1>1. IInv => NothingLeaks
    BY DEF IInv, CpuOK, LeasesOwned, NothingLeaks, Settled
  <1> QED
    BY <1>1, Invariance, PTL
================================================================================
