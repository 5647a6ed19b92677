---------------------------- MODULE EventRing_proofs ----------------------------
(***************************************************************************)
(* Proofs about the completion resources of a GPU queue, for rings of any  *)
(* size and any set of submissions.                                        *)
(***************************************************************************)
EXTENDS EventRing, FiniteSetTheorems, WellFoundedInduction, TLAPS

(* What the ring needs of its constants: C is a number, and the id that     *)
(* stands for "nobody" is no submission's.                                  *)
RingConstants == RingSize \in Nat /\ Submissions \subseteq Nat \ {0}

Active == {"acquired", "executed", "completed"}
Ended == {"destroyed", "retired", "gone"}

(* An event is held by the submission that is in between with it, or was    *)
(* left behind in the quarantine by one that ended unproven.                *)
HoldersOK ==
    /\ \A s \in Submissions : stage[s] \in Active =>
          /\ eventOf[s] # None /\ holder[eventOf[s]] = s
          /\ eventOf[s] \in quarantined <=> disposition[s] = "unknown"
    /\ \A e \in Resources : holder[e] # None =>
          \/ stage[holder[e]] \in Active /\ eventOf[holder[e]] = e
          \/ stage[holder[e]] \in Ended /\ e \in quarantined
    /\ \A e \in quarantined : holder[e] # None

(* What is known of a submission at each stage of its life. *)
PhaseOK ==
    \A s \in Submissions :
        /\ stage[s] \in {"new", "acquired"} =>
              native[s] = "none" /\ disposition[s] = "pending" /\ mark[s] = "none"
        /\ stage[s] \in {"new", "acquired"} \cup Ended => slotOf[s] = None
        /\ stage[s] \in {"new", "gone"} => leaseOf[s] = None
        /\ stage[s] \in {"executed", "completed"} /\ mark[s] = "none" =>
              disposition[s] = "unknown"
        /\ stage[s] = "executed" /\ mark[s] # "none" => disposition[s] = "pending"
        /\ stage[s] \in {"completed"} \cup Ended => disposition[s] # "pending"
        /\ mark[s] = "drained" => native[s] # "running"
        /\ disposition[s] = "complete" =>
              native[s] # "running" /\ stage[s] \in {"completed"} \cup Ended

(* A slot in use is protected or has one owner: a submission's record or    *)
(* its task's lease.                                                        *)
SlotsOwned ==
    /\ \A s \in Submissions : slotOf[s] # None => slotOf[s] \in slotsInUse \ slotsProtected
    /\ \A s \in Submissions : leaseOf[s] # None => leaseOf[s] \in slotsInUse \ slotsProtected
    /\ \A m \in slotsInUse \ slotsProtected :
          \E s \in Submissions : slotOf[s] = m \/ leaseOf[s] = m

(* No two owners have the same slot. *)
SlotsUnshared ==
    /\ \A s, r \in Submissions : slotOf[s] # None => slotOf[s] # leaseOf[r]
    /\ \A s, r \in Submissions : s # r /\ slotOf[s] # None => slotOf[s] # slotOf[r]
    /\ \A s, r \in Submissions : s # r /\ leaseOf[s] # None => leaseOf[s] # leaseOf[r]

(* Running work keeps its event; its slot is its record's until the record  *)
(* ends, and protected from then on.                                        *)
RunningOK ==
    \A s \in Running :
        /\ uses[s][1] # None /\ holder[uses[s][1]] = s
        /\ stage[s] \in {"executed", "completed"} => uses[s] = <<eventOf[s], slotOf[s]>>
        /\ stage[s] \in Ended =>
              /\ uses[s][1] \in quarantined
              /\ uses[s][2] # None => uses[s][2] \in slotsProtected

(* Two running submissions use different slots. *)
SlotsApart ==
    \A s, r \in Running : s # r /\ uses[s][2] # None => uses[s][2] # uses[r][2]

RInv ==
    /\ RingTypeOK /\ UnknownsCounted /\ HoldersOK /\ PhaseOK /\ SlotsOwned /\ SlotsUnshared
    /\ RunningOK /\ SlotsApart

--------------------------------------------------------------------------------
(* What the steps need of the constants. *)
LEMMA RingFacts ==
    ASSUME RingConstants
    PROVE  /\ None \notin Resources /\ None \notin Submissions
           /\ Resources \subseteq Nat /\ IsFiniteSet(Resources)
  <1>1. IsFiniteSet(Resources)
    BY FS_Interval DEF RingConstants, Resources
  <1> QED
    BY <1>1 DEF RingConstants, None, Resources

(* The lowest free index exists. *)
LEMMA FirstIn ==
    ASSUME NEW T \in SUBSET Nat, T # {}
    PROVE  First(T) \in T
  <1> DEFINE R == OpToRel(<, Nat)
  <1>1. IsWellFoundedOn(R, Nat)
    BY NatLessThanWellFounded
  <1>2. \A x, y \in Nat : <<y, x>> \in R <=> y < x
    BY DEF OpToRel
  <1> HIDE DEF R
  <1>3. PICK x \in T : \A y \in T : ~(<<y, x>> \in R)
    BY <1>1, WFMin, Zenon
  <1>4. ASSUME NEW y \in T PROVE ~(y < x)
    BY <1>2, <1>3, Zenon
  <1>5. \A y \in T : x <= y
    BY <1>4
  <1> QED
    BY <1>5 DEF First

(* The counter follows the quarantine one event at a time. *)
LEMMA CountLemma ==
    ASSUME RingConstants, NEW Q \in SUBSET Resources, NEW e \in Resources
    PROVE  /\ Cardinality(Q) \in Nat
           /\ e \notin Q => Cardinality(Q \cup {e}) = Cardinality(Q) + 1
           /\ e \in Q => Cardinality(Q \ {e}) = Cardinality(Q) - 1 /\ Cardinality(Q) # 0
  <1>1. IsFiniteSet(Q)
    BY RingFacts, FS_Subset
  <1>2. Cardinality(Q) \in Nat
    BY <1>1, FS_CardinalityType
  <1>3. e \notin Q => Cardinality(Q \cup {e}) = Cardinality(Q) + 1
    BY <1>1, FS_AddElement
  <1>4. e \in Q => Cardinality(Q \ {e}) = Cardinality(Q) - 1
    BY <1>1, FS_RemoveElement
  <1>5. e \in Q => Cardinality(Q) # 0
    BY <1>1, FS_EmptySet
  <1> QED
    BY <1>2, <1>3, <1>4, <1>5

(* An event goes back to the ring from its owner, unless it is quarantined. *)
LEMMA ReturnedIs ==
    ASSUME RInv, RingConstants, NEW s \in Submissions, NEW q \in SUBSET Resources
    PROVE  /\ Returned(s, q) \in [Resources -> Optional(Submissions)]
           /\ \A e \in Resources : Returned(s, q)[e] =
                 IF e = eventOf[s] /\ holder[e] = s /\ e \notin q THEN None ELSE holder[e]
  <1>1. holder \in [Resources -> Optional(Submissions)] /\ eventOf[s] \in Optional(Resources)
    BY DEF RInv, RingTypeOK
  <1> QED
    BY <1>1, RingFacts DEF Returned, Optional

(* Taking an event and a slot keeps the invariant.                          *)
LEMMA TryAcquireStep ==
    ASSUME RInv, RingConstants, NEW s \in Submissions, TryAcquire(s)
    PROVE  RInv'
  <1>01. /\ stage[s] = "new" /\ stage' = [stage EXCEPT ![s] = "acquired"]
         /\ UNCHANGED <<quarantined, slotsProtected, unknowns, slotOf, mark, disposition,
                        result, native, uses>>
    BY DEF TryAcquire
  <1>02. PICK e \in Resources, m \in Optional(Resources) :
            /\ holder[e] = None /\ holder' = [holder EXCEPT ![e] = s]
            /\ eventOf' = [eventOf EXCEPT ![s] = e]
            /\ leaseOf' = [leaseOf EXCEPT ![s] = m]
            /\ m # None => m \notin slotsInUse
            /\ slotsInUse' = IF m = None THEN slotsInUse ELSE slotsInUse \cup {m}
    <2> DEFINE e == First(FreeEvents)
               m == IF s \in UsesSlot THEN First(FreeSlots) ELSE None
    <2>1. FreeEvents # {} /\ (s \in UsesSlot => FreeSlots # {})
      BY DEF TryAcquire, CanAcquire
    <2>2. FreeEvents \subseteq Nat /\ FreeSlots \subseteq Nat
      BY RingFacts DEF FreeEvents, FreeSlots
    <2>3. e \in FreeEvents /\ (s \in UsesSlot => m \in FreeSlots)
      BY <2>1, <2>2, FirstIn
    <2>4. e \in Resources /\ holder[e] = None /\ m \in Optional(Resources)
          /\ (m # None => m \notin slotsInUse)
      BY <2>3 DEF FreeEvents, FreeSlots, Optional
    <2>5. /\ holder' = [holder EXCEPT ![e] = s] /\ eventOf' = [eventOf EXCEPT ![s] = e]
          /\ leaseOf' = [leaseOf EXCEPT ![s] = m]
          /\ slotsInUse' = IF m = None THEN slotsInUse ELSE slotsInUse \cup {m}
      BY DEF TryAcquire
    <2> HIDE DEF e, m
    <2> QED
      BY <2>4, <2>5
  <1>1. RingTypeOK'
    BY RingFacts, <1>01, <1>02 DEF RInv, RingTypeOK, Optional, Stages
  <1>2. UnknownsCounted'
    BY <1>01 DEF RInv, UnknownsCounted
  <1>3. HoldersOK'
    BY RingFacts, <1>01, <1>02 DEF RInv, RingTypeOK, Optional, HoldersOK, PhaseOK,
       Active, Ended
  <1>4. PhaseOK'
    BY RingFacts, <1>01, <1>02 DEF RInv, RingTypeOK, Optional, PhaseOK, Ended
  <1>5. SlotsOwned'
    BY RingFacts, <1>01, <1>02 DEF RInv, RingTypeOK, Optional, SlotsOwned, PhaseOK,
       Ended, SlotsUnshared
  <1>6. SlotsUnshared'
    BY RingFacts, <1>01, <1>02 DEF RInv, RingTypeOK, Optional, SlotsUnshared,
       SlotsOwned, PhaseOK, Ended
  <1>7. RunningOK'
    BY RingFacts, <1>01, <1>02 DEF RInv, RingTypeOK, Optional, RunningOK, HoldersOK,
       PhaseOK, SlotsOwned, SlotsUnshared, Running, Active, Ended
  <1>8. SlotsApart'
    BY RingFacts, <1>01, <1>02 DEF RInv, RingTypeOK, Optional, SlotsApart, RunningOK,
       PhaseOK, SlotsOwned, SlotsUnshared, Running, Ended
  <1> QED
    BY <1>1, <1>2, <1>3, <1>4, <1>5, <1>6, <1>7, <1>8 DEF RInv

(* Giving both back before anything ran keeps the invariant.                *)
LEMMA DropStep ==
    ASSUME RInv, RingConstants, NEW s \in Submissions, Drop(s)
    PROVE  RInv'
  <1>01. /\ stage[s] = "acquired" /\ stage' = [stage EXCEPT ![s] = "new"]
         /\ eventOf' = [eventOf EXCEPT ![s] = None] /\ leaseOf' = [leaseOf EXCEPT ![s] = None]
         /\ slotsInUse' = slotsInUse \ {leaseOf[s]}
         /\ UNCHANGED <<quarantined, unknowns, slotOf, mark, disposition, result, native, uses>>
    BY DEF Drop
  <1>02. slotsProtected' = slotsProtected /\ leaseOf[s] \notin slotsProtected
    BY RingFacts DEF Drop, RInv, RingTypeOK, SlotsOwned
  <1>03. /\ eventOf[s] \in Resources /\ holder[eventOf[s]] = s
         /\ eventOf[s] \notin quarantined
    BY <1>01 DEF RInv, RingTypeOK, Optional, HoldersOK, PhaseOK, Active
  <1>04. holder' = [holder EXCEPT ![eventOf[s]] = None]
    BY <1>03, RingFacts DEF Drop, Returned
  <1>1. RingTypeOK'
    BY RingFacts, <1>01, <1>02, <1>03, <1>04 DEF RInv, RingTypeOK, Optional, Stages
  <1>2. UnknownsCounted'
    BY <1>01 DEF RInv, UnknownsCounted
  <1>3. HoldersOK'
    BY RingFacts, <1>01, <1>02, <1>03, <1>04 DEF RInv, RingTypeOK, Optional, HoldersOK,
       PhaseOK, Active, Ended
  <1>4. PhaseOK'
    BY RingFacts, <1>01, <1>02, <1>03, <1>04 DEF RInv, RingTypeOK, Optional, PhaseOK,
       Ended
  <1>5. SlotsOwned'
    BY RingFacts, <1>01, <1>02, <1>03, <1>04 DEF RInv, RingTypeOK, Optional, SlotsOwned,
       PhaseOK, Ended, SlotsUnshared
  <1>6. SlotsUnshared'
    BY RingFacts, <1>01, <1>02, <1>03, <1>04 DEF RInv, RingTypeOK, Optional,
       SlotsUnshared, SlotsOwned, PhaseOK, Ended
  <1>7. RunningOK'
    BY RingFacts, <1>01, <1>02, <1>03, <1>04 DEF RInv, RingTypeOK, Optional, RunningOK,
       HoldersOK, PhaseOK, SlotsOwned, SlotsUnshared, Running, Active, Ended
  <1>8. SlotsApart'
    BY RingFacts, <1>01, <1>02, <1>03, <1>04 DEF RInv, RingTypeOK, Optional, SlotsApart,
       RunningOK, PhaseOK, SlotsOwned, SlotsUnshared, Running, Ended
  <1> QED
    BY <1>1, <1>2, <1>3, <1>4, <1>5, <1>6, <1>7, <1>8 DEF RInv

(* An execute() that launches nothing keeps the invariant.                  *)
LEMMA ExecuteNothingStep ==
    ASSUME RInv, RingConstants, NEW s \in Submissions, NEW attached \in BOOLEAN,
           ExecuteNothing(s, attached)
    PROVE  RInv'
  <1>1. RingTypeOK'
    BY RingFacts DEF RInv, ExecuteNothing, RingTypeOK, Optional, Stages
  <1>2. UnknownsCounted'
    BY RingFacts DEF RInv, ExecuteNothing, UnknownsCounted
  <1>3. HoldersOK'
    BY RingFacts DEF RInv, ExecuteNothing, RingTypeOK, Optional, HoldersOK, PhaseOK,
       Active, Ended
  <1>4. PhaseOK'
    BY RingFacts DEF RInv, ExecuteNothing, RingTypeOK, Optional, PhaseOK, Ended
  <1>5. SlotsOwned'
    BY RingFacts DEF RInv, ExecuteNothing, RingTypeOK, Optional, SlotsOwned, PhaseOK,
       Ended, SlotsUnshared
  <1>6. SlotsUnshared'
    BY RingFacts DEF RInv, ExecuteNothing, RingTypeOK, Optional, SlotsUnshared,
       SlotsOwned, PhaseOK, Ended
  <1>7. RunningOK'
    BY RingFacts DEF RInv, ExecuteNothing, RingTypeOK, Optional, RunningOK, HoldersOK,
       PhaseOK, SlotsOwned, SlotsUnshared, Running, Active, Ended
  <1>8. SlotsApart'
    BY RingFacts DEF RInv, ExecuteNothing, RingTypeOK, Optional, SlotsApart, RunningOK,
       PhaseOK, SlotsOwned, SlotsUnshared, Running, Ended
  <1> QED
    BY <1>1, <1>2, <1>3, <1>4, <1>5, <1>6, <1>7, <1>8 DEF RInv

(* A launch keeps the invariant.                                            *)
LEMMA ExecuteNativeStep ==
    ASSUME RInv, RingConstants, NEW s \in Submissions, NEW how \in {"recorded",
           "drained", "unknown"}, ExecuteNative(s, how)
    PROVE  RInv'
  <1>01. /\ stage[s] = "acquired" /\ stage' = [stage EXCEPT ![s] = "executed"]
         /\ slotOf' = [slotOf EXCEPT ![s] = leaseOf[s]]
         /\ leaseOf' = [leaseOf EXCEPT ![s] = None]
         /\ uses' = [uses EXCEPT ![s] = <<eventOf[s], leaseOf[s]>>]
         /\ UNCHANGED <<holder, slotsInUse, slotsProtected, eventOf, result>>
    BY DEF ExecuteNative
  <1>02. /\ native' \in [Submissions -> {"none", "running", "done"}]
         /\ native'[s] = IF how = "drained" THEN "done" ELSE "running"
         /\ \A r \in Submissions : r # s =>
               native'[r] = IF how = "drained" /\ native[r] = "running" THEN "done"
                            ELSE native[r]
    BY DEF ExecuteNative, RInv, RingTypeOK
  <1>03. /\ eventOf[s] \in Resources /\ holder[eventOf[s]] = s /\ eventOf[s] \notin quarantined
         /\ disposition[s] = "pending" /\ slotOf[s] = None /\ mark[s] = "none"
    BY <1>01 DEF RInv, RingTypeOK, Optional, HoldersOK, PhaseOK, Active
  <1>04. /\ disposition' = [disposition EXCEPT ![s] = IF how = "unknown" THEN "unknown" ELSE @]
         /\ mark' = [mark EXCEPT ![s] = IF how = "unknown" THEN @ ELSE how]
         /\ quarantined' = IF how = "unknown" THEN quarantined \cup {eventOf[s]}
                           ELSE quarantined
         /\ unknowns' = IF how = "unknown" THEN unknowns + 1 ELSE unknowns
    <2>1. CASE how = "unknown"
      BY <1>03, <2>1 DEF ExecuteNative, RetireUnknown, RInv, RingTypeOK
    <2>2. CASE how # "unknown"
      BY <2>2 DEF ExecuteNative, RInv, RingTypeOK
    <2> QED
      BY <2>1, <2>2
  <1>1. RingTypeOK'
    BY RingFacts, <1>01, <1>02, <1>03, <1>04 DEF RInv, RingTypeOK, Optional, Stages
  <1>2. UnknownsCounted'
    BY <1>03, <1>04, CountLemma DEF RInv, RingTypeOK, UnknownsCounted
  <1>3. HoldersOK'
    BY RingFacts, <1>01, <1>02, <1>03, <1>04 DEF RInv, RingTypeOK, Optional, HoldersOK,
       PhaseOK, Active, Ended
  <1>4. PhaseOK'
    BY RingFacts, <1>01, <1>02, <1>03, <1>04 DEF RInv, RingTypeOK, Optional, PhaseOK,
       Ended
  <1>5. SlotsOwned'
    BY RingFacts, <1>01, <1>02, <1>03, <1>04 DEF RInv, RingTypeOK, Optional, SlotsOwned,
       PhaseOK, Ended, SlotsUnshared
  <1>6. SlotsUnshared'
    BY RingFacts, <1>01, <1>02, <1>03, <1>04 DEF RInv, RingTypeOK, Optional,
       SlotsUnshared, SlotsOwned, PhaseOK, Ended
  <1>7. RunningOK'
    BY RingFacts, <1>01, <1>02, <1>03, <1>04 DEF RInv, RingTypeOK, Optional, RunningOK,
       HoldersOK, PhaseOK, SlotsOwned, SlotsUnshared, Running, Active, Ended
  <1>8. SlotsApart'
    <2> SUFFICES ASSUME NEW p \in Running', NEW r \in Running', p # r, uses'[p][2] # None
                 PROVE  uses'[p][2] # uses'[r][2]
      BY DEF SlotsApart
    <2>1. how # "drained"
      BY <1>02, RingFacts DEF Running
    <2>2. p \in Submissions /\ r \in Submissions
          /\ (p # s => p \in Running) /\ (r # s => r \in Running)
      BY <1>02, <2>1 DEF Running
    <2>3. \A q \in Running : q # s => uses'[q] = uses[q]
      BY <1>01 DEF Running, RInv, RingTypeOK
    <2>4. uses'[s][2] = leaseOf[s]
      BY <1>01 DEF RInv, RingTypeOK
    <2>5. \A q \in Running : leaseOf[s] # None => uses[q][2] # leaseOf[s]
      <3> SUFFICES ASSUME NEW q \in Running, leaseOf[s] # None
                   PROVE  uses[q][2] # leaseOf[s]
        OBVIOUS
      <3>1. q \in Submissions /\ stage[q] \in {"executed", "completed"} \cup Ended
        BY DEF Running, RInv, RingTypeOK, Stages, PhaseOK, Ended
      <3>2. CASE stage[q] \in {"executed", "completed"}
        BY <3>1, <3>2 DEF RInv, RunningOK, SlotsUnshared
      <3>3. CASE stage[q] \in Ended
        BY <3>1, <3>3 DEF RInv, RunningOK, SlotsOwned
      <3> QED
        BY <3>1, <3>2, <3>3
    <2>6. CASE p # s /\ r # s
      BY <2>2, <2>3, <2>6 DEF RInv, SlotsApart
    <2>7. CASE p = s
      BY <2>2, <2>3, <2>4, <2>5, <2>7
    <2>8. CASE r = s
      BY <2>2, <2>3, <2>4, <2>5, <2>8
    <2> QED
      BY <2>6, <2>7, <2>8
  <1> QED
    BY <1>1, <1>2, <1>3, <1>4, <1>5, <1>6, <1>7, <1>8 DEF RInv

(* The device's completion keeps the invariant.                             *)
LEMMA NativeFinishStep ==
    ASSUME RInv, RingConstants, NEW s \in Submissions, NativeFinish(s)
    PROVE  RInv'
  <1>1. RingTypeOK'
    BY RingFacts DEF RInv, NativeFinish, RingTypeOK, Optional, Stages
  <1>2. UnknownsCounted'
    BY RingFacts DEF RInv, NativeFinish, UnknownsCounted
  <1>3. HoldersOK'
    BY RingFacts DEF RInv, NativeFinish, RingTypeOK, Optional, HoldersOK, PhaseOK,
       Active, Ended
  <1>4. PhaseOK'
    BY RingFacts DEF RInv, NativeFinish, RingTypeOK, Optional, PhaseOK, Ended
  <1>5. SlotsOwned'
    BY RingFacts DEF RInv, NativeFinish, RingTypeOK, Optional, SlotsOwned, PhaseOK,
       Ended, SlotsUnshared
  <1>6. SlotsUnshared'
    BY RingFacts DEF RInv, NativeFinish, RingTypeOK, Optional, SlotsUnshared,
       SlotsOwned, PhaseOK, Ended
  <1>7. RunningOK'
    BY RingFacts DEF RInv, NativeFinish, RingTypeOK, Optional, RunningOK, HoldersOK,
       PhaseOK, SlotsOwned, SlotsUnshared, Running, Active, Ended
  <1>8. SlotsApart'
    BY RingFacts DEF RInv, NativeFinish, RingTypeOK, Optional, SlotsApart, RunningOK,
       PhaseOK, SlotsOwned, SlotsUnshared, Running, Ended
  <1> QED
    BY <1>1, <1>2, <1>3, <1>4, <1>5, <1>6, <1>7, <1>8 DEF RInv

(* The completion callback keeps the invariant.                             *)
LEMMA OnWorkerCompleteStep ==
    ASSUME RInv, RingConstants, NEW s \in Submissions, NEW ok \in BOOLEAN,
           OnWorkerComplete(s, ok)
    PROVE  RInv'
  <1>01. /\ stage[s] = "executed" /\ stage' = [stage EXCEPT ![s] = "completed"]
         /\ result' = [result EXCEPT ![s] = IF ok THEN "success" ELSE "failed"]
         /\ UNCHANGED <<holder, slotsInUse, slotsProtected, eventOf, slotOf, leaseOf, mark,
                        native, uses>>
    BY DEF OnWorkerComplete
  <1>02. /\ eventOf[s] \in Resources
         /\ eventOf[s] \in quarantined <=> disposition[s] = "unknown"
    BY <1>01 DEF RInv, RingTypeOK, Optional, HoldersOK, Active
  <1>03. ok => native[s] # "running" /\ disposition[s] # "unknown"
    BY <1>01 DEF OnWorkerComplete, SyncEvent, RInv, PhaseOK
  <1>04. /\ disposition' = [disposition EXCEPT ![s] = IF ok THEN "complete" ELSE "unknown"]
         /\ quarantined' = IF ok THEN quarantined ELSE quarantined \cup {eventOf[s]}
         /\ unknowns' = IF ok \/ eventOf[s] \in quarantined THEN unknowns ELSE unknowns + 1
    <2>1. CASE ok
      BY <2>1 DEF OnWorkerComplete
    <2>2. CASE ~ok
      BY <1>02, <2>2 DEF OnWorkerComplete, RetireUnknown
    <2> QED
      BY <2>1, <2>2
  <1>1. RingTypeOK'
    BY RingFacts, <1>01, <1>02, <1>03, <1>04 DEF RInv, RingTypeOK, Optional, Stages
  <1>2. UnknownsCounted'
    <2>1. eventOf[s] \in quarantined => quarantined \cup {eventOf[s]} = quarantined
      OBVIOUS
    <2> QED
      BY <1>02, <1>04, <2>1, CountLemma DEF RInv, RingTypeOK, UnknownsCounted
  <1>3. HoldersOK'
    BY RingFacts, <1>01, <1>02, <1>03, <1>04 DEF RInv, RingTypeOK, Optional, HoldersOK,
       PhaseOK, Active, Ended
  <1>4. PhaseOK'
    BY RingFacts, <1>01, <1>02, <1>03, <1>04 DEF RInv, RingTypeOK, Optional, PhaseOK,
       Ended
  <1>5. SlotsOwned'
    BY RingFacts, <1>01, <1>02, <1>03, <1>04 DEF RInv, RingTypeOK, Optional, SlotsOwned,
       PhaseOK, Ended, SlotsUnshared
  <1>6. SlotsUnshared'
    BY RingFacts, <1>01, <1>02, <1>03, <1>04 DEF RInv, RingTypeOK, Optional,
       SlotsUnshared, SlotsOwned, PhaseOK, Ended
  <1>7. RunningOK'
    BY RingFacts, <1>01, <1>02, <1>03, <1>04 DEF RInv, RingTypeOK, Optional, RunningOK,
       HoldersOK, PhaseOK, SlotsOwned, SlotsUnshared, Running, Active, Ended
  <1>8. SlotsApart'
    BY RingFacts, <1>01, <1>02, <1>03, <1>04 DEF RInv, RingTypeOK, Optional, SlotsApart,
       RunningOK, PhaseOK, SlotsOwned, SlotsUnshared, Running, Ended
  <1> QED
    BY <1>1, <1>2, <1>3, <1>4, <1>5, <1>6, <1>7, <1>8 DEF RInv

(* The late proof, and what it releases keeps the invariant.                *)
LEMMA OnWorkerDestroyStep ==
    ASSUME RInv, RingConstants, NEW s \in Submissions, NEW ok \in BOOLEAN,
           OnWorkerDestroy(s, ok)
    PROVE  RInv'
  <1>01. /\ stage[s] \in {"executed", "completed"} /\ stage' = [stage EXCEPT ![s] = "destroyed"]
         /\ slotOf' = [slotOf EXCEPT ![s] = None]
         /\ UNCHANGED <<eventOf, leaseOf, mark, native, uses>>
    BY DEF OnWorkerDestroy
  <1>02. /\ eventOf[s] \in Resources /\ holder[eventOf[s]] = s
         /\ eventOf[s] \in quarantined <=> disposition[s] = "unknown"
    BY <1>01 DEF RInv, RingTypeOK, Optional, HoldersOK, Active
  <1>03. /\ ok => native[s] # "running"
         /\ ~ok => disposition[s] = "unknown" \/ mark[s] = "recorded"
    BY <1>01 DEF OnWorkerDestroy, DestroyProof, SyncEvent, RInv, PhaseOK
  <1>04. slotOf[s] # None => slotOf[s] \in slotsInUse /\ slotOf[s] \notin slotsProtected
    BY DEF RInv, SlotsOwned
  <1>05. /\ disposition' = [disposition EXCEPT ![s] = IF ok THEN "complete" ELSE "unknown"]
         /\ result' \in [Submissions -> {"pending", "success", "failed"}]
    BY <1>03 DEF OnWorkerDestroy, RInv, RingTypeOK
  <1>06. /\ quarantined' = IF ok THEN quarantined \ {eventOf[s]} ELSE quarantined \cup {eventOf[s]}
         /\ unknowns' = IF ok
                        THEN IF eventOf[s] \in quarantined /\ unknowns # 0 THEN unknowns - 1
                             ELSE unknowns
                        ELSE IF eventOf[s] \in quarantined THEN unknowns ELSE unknowns + 1
    BY <1>02, <1>03 DEF OnWorkerDestroy
  <1>07. /\ slotsProtected' = IF ok \/ slotOf[s] = None THEN slotsProtected
                              ELSE slotsProtected \cup {slotOf[s]}
         /\ slotsInUse' = IF ok THEN slotsInUse \ {slotOf[s]} ELSE slotsInUse
    <2>1. None \notin slotsInUse
      BY RingFacts DEF RInv, RingTypeOK
    <2> QED
      BY <1>03, <1>04, <2>1 DEF OnWorkerDestroy
  <1>08. holder' = IF ok THEN [holder EXCEPT ![eventOf[s]] = None] ELSE holder
    <2>1. eventOf[s] # None
      BY <1>02, RingFacts
    <2>2. CASE ok
      <3>1. holder' = Returned(s, quarantined')
        BY <2>2 DEF OnWorkerDestroy
      <3>2. eventOf[s] \notin quarantined'
        BY <1>06, <2>2
      <3> QED
        BY <1>02, <2>1, <2>2, <3>1, <3>2 DEF Returned
    <2>3. CASE ~ok
      BY <2>3 DEF OnWorkerDestroy
    <2> QED
      BY <2>2, <2>3
  <1>1. RingTypeOK'
    BY RingFacts, <1>01, <1>02, <1>03, <1>04, <1>05, <1>06, <1>07, <1>08 DEF RInv,
       RingTypeOK, Optional, Stages
  <1>2. UnknownsCounted'
    <2>1. /\ eventOf[s] \in quarantined => quarantined \cup {eventOf[s]} = quarantined
          /\ eventOf[s] \notin quarantined => quarantined \ {eventOf[s]} = quarantined
      OBVIOUS
    <2>2. CASE ok
      BY <1>02, <1>06, <2>1, <2>2, CountLemma DEF RInv, RingTypeOK, UnknownsCounted
    <2>3. CASE ~ok
      BY <1>02, <1>06, <2>1, <2>3, CountLemma DEF RInv, RingTypeOK, UnknownsCounted
    <2> QED
      BY <2>2, <2>3
  <1>3. HoldersOK'
    BY RingFacts, <1>01, <1>02, <1>03, <1>04, <1>05, <1>06, <1>07, <1>08 DEF RInv,
       RingTypeOK, Optional, HoldersOK, PhaseOK, Active, Ended
  <1>4. PhaseOK'
    BY RingFacts, <1>01, <1>02, <1>03, <1>04, <1>05, <1>06, <1>07, <1>08 DEF RInv,
       RingTypeOK, Optional, PhaseOK, Ended
  <1>5. SlotsOwned'
    BY RingFacts, <1>01, <1>02, <1>03, <1>04, <1>05, <1>06, <1>07, <1>08 DEF RInv,
       RingTypeOK, Optional, SlotsOwned, PhaseOK, Ended, SlotsUnshared
  <1>6. SlotsUnshared'
    BY RingFacts, <1>01, <1>02, <1>03, <1>04, <1>05, <1>06, <1>07, <1>08 DEF RInv,
       RingTypeOK, Optional, SlotsUnshared, SlotsOwned, PhaseOK, Ended
  <1>7. RunningOK'
    BY RingFacts, <1>01, <1>02, <1>03, <1>04, <1>05, <1>06, <1>07, <1>08 DEF RInv,
       RingTypeOK, Optional, RunningOK, HoldersOK, PhaseOK, SlotsOwned, SlotsUnshared,
       Running, Active, Ended
  <1>8. SlotsApart'
    BY RingFacts, <1>01, <1>02, <1>03, <1>04, <1>05, <1>06, <1>07, <1>08 DEF RInv,
       RingTypeOK, Optional, SlotsApart, RunningOK, PhaseOK, SlotsOwned, SlotsUnshared,
       Running, Ended
  <1> QED
    BY <1>1, <1>2, <1>3, <1>4, <1>5, <1>6, <1>7, <1>8 DEF RInv

(* The end of the submission's record keeps the invariant.                  *)
LEMMA RetireStep ==
    ASSUME RInv, RingConstants, NEW s \in Submissions, Retire(s)
    PROVE  RInv'
  <1>01. /\ stage[s] = "destroyed" /\ stage' = [stage EXCEPT ![s] = "retired"]
         /\ eventOf' = [eventOf EXCEPT ![s] = None]
         /\ UNCHANGED <<quarantined, slotsInUse, slotsProtected, unknowns, slotOf, leaseOf,
                        mark, disposition, result, native, uses>>
    BY DEF Retire
  <1>02. holder' = holder
    <2>1. eventOf[s] \in Resources /\ holder[eventOf[s]] = s => eventOf[s] \in quarantined
      BY <1>01, RingFacts DEF RInv, HoldersOK, Active
    <2>2. eventOf[s] # None => eventOf[s] \in Resources
      BY DEF RInv, RingTypeOK, Optional
    <2> QED
      BY <2>1, <2>2 DEF Retire, Returned
  <1>1. RingTypeOK'
    BY RingFacts, <1>01, <1>02 DEF RInv, RingTypeOK, Optional, Stages
  <1>2. UnknownsCounted'
    BY <1>01 DEF RInv, UnknownsCounted
  <1>3. HoldersOK'
    BY RingFacts, <1>01, <1>02 DEF RInv, RingTypeOK, Optional, HoldersOK, PhaseOK,
       Active, Ended
  <1>4. PhaseOK'
    BY RingFacts, <1>01, <1>02 DEF RInv, RingTypeOK, Optional, PhaseOK, Ended
  <1>5. SlotsOwned'
    BY RingFacts, <1>01, <1>02 DEF RInv, RingTypeOK, Optional, SlotsOwned, PhaseOK,
       Ended, SlotsUnshared
  <1>6. SlotsUnshared'
    BY RingFacts, <1>01, <1>02 DEF RInv, RingTypeOK, Optional, SlotsUnshared,
       SlotsOwned, PhaseOK, Ended
  <1>7. RunningOK'
    BY RingFacts, <1>01, <1>02 DEF RInv, RingTypeOK, Optional, RunningOK, HoldersOK,
       PhaseOK, SlotsOwned, SlotsUnshared, Running, Active, Ended
  <1>8. SlotsApart'
    BY RingFacts, <1>01, <1>02 DEF RInv, RingTypeOK, Optional, SlotsApart, RunningOK,
       PhaseOK, SlotsOwned, SlotsUnshared, Running, Ended
  <1> QED
    BY <1>1, <1>2, <1>3, <1>4, <1>5, <1>6, <1>7, <1>8 DEF RInv

(* The end of the worker's task keeps the invariant.                        *)
LEMMA DestroyTaskStep ==
    ASSUME RInv, RingConstants, NEW s \in Submissions, DestroyTask(s)
    PROVE  RInv'
  <1>01. /\ stage[s] = "retired" /\ stage' = [stage EXCEPT ![s] = "gone"]
         /\ slotsInUse' = slotsInUse \ {leaseOf[s]}
         /\ leaseOf' = [leaseOf EXCEPT ![s] = None]
         /\ UNCHANGED <<holder, quarantined, unknowns, eventOf, slotOf, mark, disposition,
                        result, native, uses>>
    BY DEF DestroyTask
  <1>02. slotsProtected' = slotsProtected /\ leaseOf[s] \notin slotsProtected
    BY RingFacts DEF DestroyTask, RInv, RingTypeOK, SlotsOwned
  <1>1. RingTypeOK'
    BY RingFacts, <1>01, <1>02 DEF RInv, RingTypeOK, Optional, Stages
  <1>2. UnknownsCounted'
    BY <1>01 DEF RInv, UnknownsCounted
  <1>3. HoldersOK'
    BY RingFacts, <1>01, <1>02 DEF RInv, RingTypeOK, Optional, HoldersOK, PhaseOK,
       Active, Ended
  <1>4. PhaseOK'
    BY RingFacts, <1>01, <1>02 DEF RInv, RingTypeOK, Optional, PhaseOK, Ended
  <1>5. SlotsOwned'
    BY RingFacts, <1>01, <1>02 DEF RInv, RingTypeOK, Optional, SlotsOwned, PhaseOK,
       Ended, SlotsUnshared
  <1>6. SlotsUnshared'
    BY RingFacts, <1>01, <1>02 DEF RInv, RingTypeOK, Optional, SlotsUnshared,
       SlotsOwned, PhaseOK, Ended
  <1>7. RunningOK'
    BY RingFacts, <1>01, <1>02 DEF RInv, RingTypeOK, Optional, RunningOK, HoldersOK,
       PhaseOK, SlotsOwned, SlotsUnshared, Running, Active, Ended
  <1>8. SlotsApart'
    BY RingFacts, <1>01, <1>02 DEF RInv, RingTypeOK, Optional, SlotsApart, RunningOK,
       PhaseOK, SlotsOwned, SlotsUnshared, Running, Ended
  <1> QED
    BY <1>1, <1>2, <1>3, <1>4, <1>5, <1>6, <1>7, <1>8 DEF RInv

(* The stream's drain keeps the invariant.                                  *)
LEMMA DrainStep ==
    ASSUME RInv, RingConstants, NEW ok \in BOOLEAN, Drain(ok)
    PROVE  RInv'
  <1>01. /\ \A s \in Submissions : stage[s] \in {"new", "gone"}
         /\ UNCHANGED <<stage, eventOf, slotOf, leaseOf, mark, disposition, result, uses>>
    BY DEF Drain, Idle, OnQueueDrain
  <1>02. /\ native' \in [Submissions -> {"none", "running", "done"}]
         /\ \A s \in Submissions : native'[s] =
               IF ok /\ native[s] = "running" THEN "done" ELSE native[s]
    BY DEF Drain, OnQueueDrain, RInv, RingTypeOK
  <1>03. /\ unknowns' = IF ok THEN 0 ELSE unknowns
         /\ quarantined' = IF ok THEN {} ELSE quarantined
         /\ slotsInUse' = IF ok THEN slotsInUse \ slotsProtected ELSE slotsInUse
         /\ slotsProtected' = IF ok THEN {} ELSE slotsProtected
    BY DEF Drain, OnQueueDrain
  <1>04. /\ holder' \in [Resources -> Optional(Submissions)]
         /\ \A e \in Resources : holder'[e] =
               IF ok /\ e \in quarantined THEN None ELSE holder[e]
    BY DEF Drain, OnQueueDrain, RInv, RingTypeOK, Optional
  <1>1. RingTypeOK'
    BY RingFacts, <1>01, <1>02, <1>03, <1>04 DEF RInv, RingTypeOK, Optional, Stages
  <1>2. UnknownsCounted'
    BY <1>03, FS_EmptySet DEF RInv, UnknownsCounted
  <1>3. HoldersOK'
    BY RingFacts, <1>01, <1>02, <1>03, <1>04 DEF RInv, RingTypeOK, Optional, HoldersOK,
       PhaseOK, Active, Ended
  <1>4. PhaseOK'
    BY RingFacts, <1>01, <1>02, <1>03, <1>04 DEF RInv, RingTypeOK, Optional, PhaseOK,
       Ended
  <1>5. SlotsOwned'
    BY RingFacts, <1>01, <1>02, <1>03, <1>04 DEF RInv, RingTypeOK, Optional, SlotsOwned,
       PhaseOK, Ended, SlotsUnshared
  <1>6. SlotsUnshared'
    BY RingFacts, <1>01, <1>02, <1>03, <1>04 DEF RInv, RingTypeOK, Optional,
       SlotsUnshared, SlotsOwned, PhaseOK, Ended
  <1>7. RunningOK'
    BY RingFacts, <1>01, <1>02, <1>03, <1>04 DEF RInv, RingTypeOK, Optional, RunningOK,
       HoldersOK, PhaseOK, SlotsOwned, SlotsUnshared, Running, Active, Ended
  <1>8. SlotsApart'
    BY RingFacts, <1>01, <1>02, <1>03, <1>04 DEF RInv, RingTypeOK, Optional, SlotsApart,
       RunningOK, PhaseOK, SlotsOwned, SlotsUnshared, Running, Ended
  <1> QED
    BY <1>1, <1>2, <1>3, <1>4, <1>5, <1>6, <1>7, <1>8 DEF RInv

(* A new queue holds nothing. *)
LEMMA InitRInv == ASSUME RingConstants, Init PROVE RInv
  <1>1. RingTypeOK
    BY DEF Init, RingTypeOK, Optional, Stages
  <1>2. UnknownsCounted
    BY FS_EmptySet DEF Init, UnknownsCounted
  <1>3. HoldersOK /\ PhaseOK
    BY DEF Init, HoldersOK, PhaseOK, Active, Ended
  <1>4. SlotsOwned /\ SlotsUnshared
    BY DEF Init, SlotsOwned, SlotsUnshared
  <1>5. RunningOK /\ SlotsApart
    BY DEF Init, RunningOK, SlotsApart, Running
  <1> QED
    BY <1>1, <1>2, <1>3, <1>4, <1>5 DEF RInv

(* Every step of a submission, and the drain, keep the invariant. *)
LEMMA NextRInv == ASSUME RingConstants, RInv, [Next]_ringVars PROVE RInv'
  <1>1. ASSUME NEW s \in Submissions, Step(s) PROVE RInv'
    BY <1>1, TryAcquireStep, DropStep, ExecuteNothingStep, ExecuteNativeStep,
       NativeFinishStep, OnWorkerCompleteStep, OnWorkerDestroyStep, RetireStep,
       DestroyTaskStep DEF Step
  <1>2. ASSUME NEW ok \in BOOLEAN, Drain(ok) PROVE RInv'
    BY <1>2, DrainStep
  <1>3. CASE UNCHANGED ringVars
    <2> USE <1>3 DEF ringVars
    <2>1. RingTypeOK' /\ UnknownsCounted'
      BY DEF RInv, RingTypeOK, UnknownsCounted
    <2>2. HoldersOK' /\ PhaseOK' /\ SlotsOwned' /\ SlotsUnshared'
      BY DEF RInv, HoldersOK, PhaseOK, SlotsOwned, SlotsUnshared
    <2>3. RunningOK' /\ SlotsApart'
      BY DEF RInv, RunningOK, SlotsApart, Running
    <2> QED
      BY <2>1, <2>2, <2>3 DEF RInv
  <1> QED
    BY <1>1, <1>2, <1>3 DEF Next

(* What the properties of the ring say together. *)
RingSafe ==
    /\ RingTypeOK /\ RunningHoldsResources /\ RunningDisjoint
    /\ ProofIsSound /\ UnknownsCounted /\ IdleMeansFree

(* The invariant decides about running work and idle resources. *)
LEMMA RInvSafe ==
    ASSUME RingConstants, RInv
    PROVE  RingSafe
  <1>1. RunningHoldsResources
    <2> SUFFICES ASSUME NEW s \in Running
                 PROVE  /\ uses[s][1] # None /\ holder[uses[s][1]] = s
                        /\ uses[s][2] # None => uses[s][2] \in slotsInUse
      BY DEF RunningHoldsResources
    <2>1. s \in Submissions /\ stage[s] \in {"executed", "completed"} \cup Ended
      BY DEF Running, RInv, RingTypeOK, Stages, PhaseOK, Ended
    <2>2. CASE stage[s] \in {"executed", "completed"}
      BY <2>1, <2>2 DEF RInv, RunningOK, SlotsOwned
    <2>3. CASE stage[s] \in Ended
      BY <2>1, <2>3 DEF RInv, RunningOK, RingTypeOK
    <2> QED
      BY <2>1, <2>2, <2>3
  <1>2. RunningDisjoint
    BY <1>1 DEF RInv, RunningDisjoint, RunningHoldsResources, SlotsApart
  <1>3. ProofIsSound
    BY DEF RInv, PhaseOK, ProofIsSound
  <1>4. IdleMeansFree
    <2> SUFFICES ASSUME Idle
                 PROVE  /\ {e \in Resources : holder[e] # None} = quarantined
                        /\ slotsInUse = slotsProtected
      BY DEF IdleMeansFree
    <2>1. \A e \in Resources : holder[e] # None => holder[e] \in Submissions
      BY DEF RInv, RingTypeOK, Optional
    <2>2. \A e \in Resources : holder[e] # None => e \in quarantined
      BY <2>1 DEF Idle, RInv, HoldersOK, Active
    <2>3. slotsInUse \ slotsProtected = {}
      BY RingFacts DEF Idle, RInv, RingTypeOK, SlotsOwned, PhaseOK, Ended
    <2> QED
      BY <2>2, <2>3 DEF RInv, RingTypeOK, HoldersOK
  <1> QED
    BY <1>1, <1>2, <1>3, <1>4 DEF RInv, RingSafe

(* In every reachable state of the ring and the pool, running work keeps    *)
(* its event and slot to itself and is never called complete, the counter   *)
(* is the size of the quarantine, and what an idle queue does not have free *)
(* is quarantined (event_ring.hpp, metadata_slot_pool.hpp).                 *)
THEOREM RingCorrect ==
    ASSUME RingConstants
    PROVE  Spec => []RingSafe
  <1>1. Init => RInv
    BY InitRInv
  <1>2. RInv /\ [Next]_ringVars => RInv'
    BY NextRInv
  <1>3. RInv => RingSafe
    BY RInvSafe
  <1> QED
    BY <1>1, <1>2, <1>3, PTL DEF Spec
================================================================================
