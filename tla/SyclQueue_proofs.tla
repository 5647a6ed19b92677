---------------------------- MODULE SyclQueue_proofs ----------------------------
(***************************************************************************)
(* Proofs about the SYCL queue, for any number of slots, any sequence of   *)
(* operations and any number of failing native calls.  The theorems        *)
(* suppose that no fence is asked inside set_event (EarlyObserver) and     *)
(* that no retried or last dispatch throws (LateFaults), as the run does;  *)
(* with an early observer TLC refutes the contract of the fence.           *)
(***************************************************************************)
EXTENDS SyclQueue, FiniteSetTheorems, TLAPS

Stages == {"new", "queued", "entered", "slotted", "described", "launched", "bound", "ended",
           "published", "popped", "waited", "cleared", "destroyed", "done", "refused"}
Optional(S) == S \cup {None}
FenceStates == [bound : BOOLEAN, proved : BOOLEAN, retained : BOOLEAN,
                cached : {"none", "success", "failed"}, action : BOOLEAN, cleanup : BOOLEAN]

(* The types of the queue's state. *)
TypeOK ==
    /\ stage \in [Tasks -> Stages]
    /\ comp \in [Tasks -> Optional(Slots)] /\ meta \in [Tasks -> Optional(Slots)]
    /\ compUse \subseteq Slots /\ metaUse \subseteq Slots
    /\ event \in [Slots -> Optional(Tasks)]
    /\ fence \in [Tasks -> FenceStates]
    /\ work \in [Tasks -> {"none", "running", "done", "error"}]
    /\ uses \in [Tasks -> SUBSET ({"comp", "meta"} \X Slots)]
    /\ cell \in [Slots -> BOOLEAN]
    /\ owners \in [Tasks -> {"none", "held", "released", "invalidated"}]
    /\ lease \in [Tasks -> {"none", "held", "returned"}]
    /\ token \in [Tasks -> {"none", "pending", "ok", "failed"}]
    /\ dtor \in {"open", "waited", "shutdown", "returned", "retained"}
    /\ drained \in BOOLEAN

Native(t) == Kind[t] # "noop"
Described(t) == Kind[t] \in {"copy", "embedding"}
Unlaunched == {"new", "queued", "entered", "slotted", "described", "refused"}
Enqueued == {"launched", "bound", "ended", "published", "popped", "waited"}
Over == {"cleared", "destroyed", "done"}

(* The slots a submission holds at each stage of its life. *)
HoldsOK ==
    \A t \in Tasks :
        /\ comp[t] # None <=> Native(t) /\ stage[t] \in {"slotted", "described", "cleared"}
                                                        \cup Enqueued
        /\ meta[t] # None <=> Described(t) /\ stage[t] \in {"described"} \cup Enqueued
        /\ ~Native(t) => stage[t] \in {"new", "queued", "published", "destroyed", "done",
                                       "refused"}

(* What is running, and what its fence knows. *)
FenceOK ==
    \A t \in Tasks :
        LET f == fence[t] IN
        /\ stage[t] \in Unlaunched \/ ~Native(t) =>
              /\ work[t] = "none" /\ uses[t] = {} /\ f.cached = "none"
              /\ ~f.bound /\ ~f.retained /\ ~f.action
        /\ stage[t] \notin Unlaunched /\ Native(t) => work[t] # "none"
        /\ f.retained => /\ ~f.bound /\ ~f.action /\ ~f.proved /\ f.cached = "none"
                         /\ stage[t] \notin {"launched", "bound"}
        /\ f.bound => stage[t] # "launched"
        /\ stage[t] \in {"bound", "ended", "published", "popped", "waited"} \cup Over
           /\ Native(t) => f.bound \/ f.retained
        /\ stage[t] \in Over /\ Native(t) /\ ~f.retained => f.cached # "none"
        /\ f.cached # "none" => stage[t] \notin {"launched", "bound"}

(* A kept result is the truth about work that is over. *)
CachedOK ==
    \A t \in Tasks :
        /\ fence[t].cached # "none" => work[t] \in {"done", "error"}
        /\ fence[t].cached = "success" => work[t] = "done" /\ t \notin OutOfRange
        /\ fence[t].cached = "failed" => work[t] = "error" \/ t \in OutOfRange

(* The status of an embedding waits in its cell until it is read. *)
StatusOK ==
    \A t \in Tasks :
        /\ fence[t].action => Kind[t] = "embedding"
        /\ /\ stage[t] \notin Unlaunched /\ Kind[t] = "embedding"
           /\ ~fence[t].retained /\ fence[t].cached = "none"
           => /\ fence[t].action
              /\ work[t] = "done" => cell[meta[t]] = (t \in OutOfRange)

(* A completion slot holds the event of the task that bound it. *)
EventOK ==
    /\ \A c \in Slots : event[c] # None =>
          fence[event[c]].bound /\ stage[event[c]] \notin Unlaunched \cup {"launched", "bound"}
    /\ \A t \in Tasks :
          /\ fence[t].bound /\ comp[t] # None /\ stage[t] # "bound" => event[comp[t]] = t

(* The work of a task uses one slot of each pool, its own until its slots   *)
(* are given back or protected.                                             *)
UsesOK ==
    \A t \in Tasks :
        /\ stage[t] \in Enqueued /\ Native(t) => uses[t] = SlotsOf(t)
        /\ stage[t] = "cleared" => <<"comp", comp[t]>> \in uses[t]
        /\ \A k \in {"comp", "meta"}, a, b \in Slots :
              <<k, a>> \in uses[t] /\ <<k, b>> \in uses[t] => a = b
        /\ stage[t] \in Over /\ Native(t) => \E c \in Slots : <<"comp", c>> \in uses[t]

(* The tasks whose slots are protected: they ended without proof. *)
Pinned == {t \in Tasks : stage[t] \in Over /\ Native(t) /\ ~fence[t].proved
                         /\ dtor # "returned"}

(* They keep what they use to themselves, and nothing else is protected.    *)
PinnedOK ==
    /\ \A t \in Pinned, s \in Slots :
          /\ <<"meta", s>> \in uses[t] => s \in metaProt
          /\ <<"comp", s>> \in uses[t] => s \in compProt \/ (stage[t] = "cleared" /\ s = comp[t])
    /\ \A m \in metaProt : \E t \in Pinned : <<"meta", m>> \in uses[t]
    /\ \A t, u \in Pinned : t # u => uses[t] \cap uses[u] = {}

(* A slot in use is protected or held by one task.                          *)
PoolsOK ==
    /\ compUse = compProt \cup {comp[t] : t \in {u \in Tasks : comp[u] # None}}
    /\ metaUse = metaProt \cup {meta[t] : t \in {u \in Tasks : meta[u] # None}}
    /\ \A t \in Tasks : comp[t] # None => comp[t] \notin compProt
    /\ \A t \in Tasks : meta[t] # None => meta[t] \notin metaProt
    /\ \A t, u \in Tasks : t # u /\ comp[t] # None => comp[t] # comp[u]
    /\ \A t, u \in Tasks : t # u /\ meta[t] # None => meta[t] # meta[u]

(* The destructor: a covering wait that succeeded left nothing running that *)
(* has no event of its own, and the partition goes when all is settled.     *)
DrainOK ==
    /\ drained => dtor # "open" /\ \A t \in Tasks : fence[t].retained => work[t] # "running"
    /\ dtor \in {"returned", "retained"} => Settled
    /\ dtor = "returned" => \A t \in Tasks : work[t] # "running"

(* Tokens, owners and leases after the completion. *)
SettledOK ==
    \A t \in Tasks :
        /\ token[t] \in {"ok", "failed"} <=> stage[t] \in {"done", "refused"}
        /\ token[t] = "ok" /\ Native(t) => work[t] = "done" /\ ~fence[t].retained
                                           /\ t \notin OutOfRange
        /\ token[t] = "failed" => \/ stage[t] = "refused" \/ work[t] = "error"
                                  \/ fence[t].retained \/ t \in OutOfRange
        /\ owners[t] = "released" \/ lease[t] = "returned" =>
              stage[t] \in {"done", "refused"} /\ work[t] # "running"

(* The inductive invariant. *)
SInv ==
    /\ TypeOK /\ HoldsOK /\ FenceOK /\ CachedOK /\ StatusOK /\ EventOK /\ UsesOK
    /\ PinnedOK /\ PoolsOK /\ DrainOK /\ SettledOK

--------------------------------------------------------------------------------
(* No slot and no task is taken for a missing one. *)
LEMMA NoneApart == None \notin Slots /\ None \notin Tasks
BY SyclQueueAssumption DEF None, Tasks

(* What SyclFenceState::result does to the fence of a task that nothing     *)
(* reports too early: an answer already kept is repeated, a fence without   *)
(* an event learns nothing, and one with an event keeps the truth.          *)
LEMMA ResultEffect ==
    ASSUME SInv, NEW t \in Tasks, ResultReady(t),
           \/ fence[t].cached # "none" \/ Observed(t) \/ ~(fence[t].action /\ fence[t].bound)
    PROVE  /\ AfterResult(t) \in FenceStates
           /\ AfterResult(t).bound = fence[t].bound
           /\ AfterResult(t).retained = fence[t].retained
           /\ fence[t].cached # "none" =>
                AfterResult(t) = fence[t] /\ ResultValue(t) = fence[t].cached
           /\ fence[t].cached = "none" /\ ~Observed(t) =>
                /\ AfterResult(t).cached = "none"
                /\ AfterResult(t).action = fence[t].action
                /\ AfterResult(t).proved = fence[t].proved
                /\ ResultValue(t) = IF fence[t].retained THEN "failed" ELSE "success"
           /\ fence[t].cached = "none" /\ Observed(t) =>
                /\ fence[t].bound /\ stage[t] \in {"ended", "published", "popped", "waited"}
                /\ work[t] \in {"done", "error"}
                /\ AfterResult(t).action => fence[t].action
                /\ AfterResult(t).cached = IF work[t] = "done" /\ t \notin OutOfRange
                                           THEN "success" ELSE "failed"
  <1>1. fence[t] \in FenceStates /\ event \in [Slots -> Optional(Tasks)]
        /\ comp[t] \in Optional(Slots) /\ meta[t] \in Optional(Slots)
        /\ work[t] \in {"none", "running", "done", "error"} /\ stage[t] \in Stages
        /\ cell \in [Slots -> BOOLEAN]
    BY DEF SInv, TypeOK
  <1>2. ASSUME fence[t].cached # "none"
        PROVE  AfterResult(t) = fence[t] /\ ResultValue(t) = fence[t].cached
    BY <1>2 DEF AfterResult, ResultValue
  <1>3. ASSUME fence[t].cached = "none", ~Observed(t)
        PROVE  /\ AfterResult(t) \in FenceStates
               /\ AfterResult(t).bound = fence[t].bound
               /\ AfterResult(t).retained = fence[t].retained
               /\ AfterResult(t).cached = "none"
               /\ AfterResult(t).action = fence[t].action
               /\ AfterResult(t).proved = fence[t].proved
               /\ ResultValue(t) = IF fence[t].retained THEN "failed" ELSE "success"
    <2>1. ~WithAction(t) /\ ~Cacheable(t)
      BY <1>3 DEF WithAction, Cacheable
    <2>2. ResultValue(t) = IF fence[t].retained THEN "failed" ELSE "success"
      BY <1>3, <2>1 DEF ResultValue
    <2>3. AfterResult(t) = [fence[t] EXCEPT !.action = @, !.cleanup = FALSE, !.proved = @,
                                            !.cached = "none"]
      BY <1>1, <1>3, <2>1 DEF AfterResult, FenceStates
    <2> QED
      BY <1>1, <2>2, <2>3 DEF FenceStates
  <1>4. ASSUME fence[t].cached = "none", Observed(t)
        PROVE  /\ AfterResult(t) \in FenceStates
               /\ AfterResult(t).bound = fence[t].bound
               /\ AfterResult(t).retained = fence[t].retained
               /\ fence[t].bound /\ stage[t] \in {"ended", "published", "popped", "waited"}
               /\ work[t] \in {"done", "error"}
               /\ AfterResult(t).action => fence[t].action
               /\ AfterResult(t).cached = IF work[t] = "done" /\ t \notin OutOfRange
                                          THEN "success" ELSE "failed"
    <2>1. comp[t] \in Slots /\ event[comp[t]] = t /\ t # None
      BY <1>1, <1>4, NoneApart DEF Observed, Optional
    <2>2. fence[t].bound /\ stage[t] \notin Unlaunched \cup {"launched", "bound"}
      BY <2>1 DEF SInv, EventOK
    <2>3. Native(t)
      BY <2>1, NoneApart DEF SInv, HoldsOK
    <2>4. ~fence[t].retained /\ stage[t] \in {"ended", "published", "popped", "waited"}
      BY <1>1, <1>4, <2>2, <2>3 DEF SInv, FenceOK, Unlaunched, Over, Stages
    <2>5. work[t] \in {"done", "error"}
      BY <1>1, <1>4, <2>2, <2>3 DEF SInv, FenceOK, ResultReady, Terminal
    <2>6. ASSUME fence[t].action, work[t] = "done"
          PROVE  cell[CHOOSE m \in Slots : <<"meta", m>> \in uses[t]] = (t \in OutOfRange)
      <3>1. Kind[t] = "embedding" /\ cell[meta[t]] = (t \in OutOfRange)
        BY <1>4, <2>2, <2>4, <2>6 DEF SInv, StatusOK
      <3>2. meta[t] \in Slots
        BY <1>1, <2>4, <3>1 DEF SInv, HoldsOK, Described, Enqueued, Optional
      <3>3. uses[t] = {<<"comp", comp[t]>>} \cup {<<"meta", meta[t]>>}
        BY <2>3, <2>4, <3>2, NoneApart DEF SInv, UsesOK, Enqueued, SlotsOf
      <3>4. (CHOOSE m \in Slots : <<"meta", m>> \in uses[t]) = meta[t]
        BY <3>2, <3>3
      <3> QED
        BY <3>1, <3>4
    <2>7. ~fence[t].action => t \notin OutOfRange
      BY <1>4, <2>2, <2>4, SyclQueueAssumption DEF SInv, StatusOK
    <2>8. ResultValue(t) = IF work[t] = "done" /\ t \notin OutOfRange THEN "success" ELSE "failed"
      BY <1>4, <2>2, <2>4, <2>5, <2>6, <2>7 DEF ResultValue, WithAction
    <2>9. Cacheable(t)
      BY <1>4 DEF Cacheable
    <2> DEFINE a == fence[t].action /\ ~(WithAction(t) /\ ~fence[t].retained
                                         /\ ~(Observed(t) /\ work[t] = "error"))
               p == fence[t].proved \/ WithAction(t)
                    \/ (Observed(t) /\ ResultValue(t) = "success")
    <2>10. AfterResult(t) = [fence[t] EXCEPT !.action = a, !.cleanup = FALSE, !.proved = p,
                                             !.cached = ResultValue(t)]
      BY <1>1, <1>4, <2>9 DEF AfterResult, FenceStates
    <2>11. a \in BOOLEAN /\ p \in BOOLEAN /\ (a => fence[t].action)
      OBVIOUS
    <2>12. ResultValue(t) \in {"none", "success", "failed"}
      BY <2>8
    <2> HIDE DEF a, p
    <2> QED
      BY <1>1, <2>2, <2>4, <2>5, <2>8, <2>10, <2>11, <2>12 DEF FenceStates
  <1> QED
    BY <1>1, <1>2, <1>3, <1>4

(* The slots in use by native work, when only the stage or the slots of one *)
(* task change.                                                             *)
LEMMA UsesFrame ==
    ASSUME UsesOK, NEW t \in Tasks, uses' = uses,
           \A u \in Tasks \ {t} : UNCHANGED <<stage[u], comp[u], meta[u]>>,
           stage'[t] \in Enqueued /\ Native(t) => uses[t] = SlotsOf(t)',
           stage'[t] = "cleared" => <<"comp", comp'[t]>> \in uses[t],
           stage'[t] \in Over /\ Native(t) => \E c \in Slots : <<"comp", c>> \in uses[t]
    PROVE  UsesOK'
  <1>1. ASSUME NEW u \in Tasks \ {t}
        PROVE  /\ stage'[u] \in Enqueued /\ Native(u) => uses'[u] = SlotsOf(u)'
               /\ stage'[u] = "cleared" => <<"comp", comp'[u]>> \in uses'[u]
               /\ stage'[u] \in Over /\ Native(u) => \E c \in Slots : <<"comp", c>> \in uses'[u]
    BY DEF UsesOK, SlotsOf
  <1>2. \A u \in Tasks, k \in {"comp", "meta"}, a, b \in Slots :
           <<k, a>> \in uses'[u] /\ <<k, b>> \in uses'[u] => a = b
    BY DEF UsesOK
  <1> QED
    BY <1>1, <1>2 DEF UsesOK, Native

(* A submission joins the admission queue.                                  *)
LEMMA SubmitStep ==
    ASSUME SInv, NEW t \in Tasks, Submit(t)
    PROVE  SInv'
  <1>1. /\ stage[t] = "new" /\ dtor = "open"
        /\ stage' = [stage EXCEPT ![t] = "queued"]
        /\ owners' = [owners EXCEPT ![t] = "held"]
        /\ lease' = [lease EXCEPT ![t] = IF Leased(t) THEN "held" ELSE "none"]
        /\ token' = [token EXCEPT ![t] = "pending"]
        /\ UNCHANGED <<comp, meta, fence, compUse, compProt, metaUse, metaProt, event,
                       work, uses, cell, dtor, drained>>
    BY DEF Submit, fenceVars, poolVars, nativeVars, settleVars, dtorVars
  <1>2. TypeOK'
    BY <1>1, NoneApart DEF SInv, TypeOK, Optional, Stages, FenceStates
  <1>3. HoldsOK'
    BY <1>1, NoneApart DEF SInv, TypeOK, Optional, Stages, HoldsOK, Native, Described,
       Enqueued
  <1>4. FenceOK'
    BY <1>1, NoneApart DEF SInv, TypeOK, Optional, Stages, FenceStates, FenceOK, Native,
       Unlaunched, Over
  <1>5. CachedOK'
    BY <1>1, NoneApart DEF SInv, TypeOK, Optional, FenceStates, CachedOK
  <1>6. StatusOK'
    BY <1>1, NoneApart DEF SInv, TypeOK, Optional, FenceStates, StatusOK, Unlaunched
  <1>7. EventOK'
    BY <1>1, NoneApart DEF SInv, TypeOK, Optional, FenceStates, EventOK, Unlaunched
  <1>8. UsesOK'
    BY <1>1, NoneApart DEF SInv, TypeOK, Optional, UsesOK, Native, Enqueued, Over,
       SlotsOf
  <1>9. PinnedOK'
    BY <1>1, NoneApart DEF SInv, TypeOK, Optional, PinnedOK, Pinned, Native, Over
  <1>10. PoolsOK'
    BY <1>1, NoneApart DEF SInv, TypeOK, Optional, PoolsOK
  <1>11. DrainOK'
    BY <1>1, NoneApart DEF SInv, TypeOK, Optional, Stages, FenceStates, DrainOK, Settled
  <1>12. SettledOK'
    BY <1>1, NoneApart DEF SInv, TypeOK, Optional, Stages, FenceStates, SettledOK,
       Native
  <1> QED
    BY <1>2, <1>3, <1>4, <1>5, <1>6, <1>7, <1>8, <1>9, <1>10, <1>11, <1>12 DEF SInv

(* A submission that fails before its first native call.                    *)
LEMMA RefusedStep ==
    ASSUME SInv, NEW t \in Tasks, stage[t] \in {"queued", "described"}, Refused(t)
    PROVE  SInv'
  <1>1. /\ stage' = [stage EXCEPT ![t] = "refused"]
        /\ compUse' = compUse \ {comp[t]} /\ metaUse' = metaUse \ {meta[t]}
        /\ comp' = [comp EXCEPT ![t] = None] /\ meta' = [meta EXCEPT ![t] = None]
        /\ owners' = [owners EXCEPT ![t] = "released"]
        /\ lease' = [lease EXCEPT ![t] = IF lease[t] = "held" THEN "returned" ELSE lease[t]]
        /\ token' = [token EXCEPT ![t] = "failed"]
        /\ UNCHANGED <<compProt, metaProt, event, work, uses, cell, dtor, drained>>
    BY DEF Refused, SInv, TypeOK, fenceVars, poolVars, nativeVars, settleVars, dtorVars
  <1>2. /\ fence' \in [Tasks -> FenceStates]
        /\ \A u \in Tasks \ {t} : fence'[u] = fence[u]
        /\ fence'[t].bound = fence[t].bound /\ fence'[t].retained = fence[t].retained
        /\ fence'[t].cached = fence[t].cached /\ fence'[t].action = fence[t].action
        /\ fence'[t].proved = TRUE
    <2>1. fence \in [Tasks -> FenceStates]
          /\ fence' = [fence EXCEPT ![t].proved = TRUE, ![t].cleanup = FALSE]
      BY DEF SInv, TypeOK, Refused
    <2>2. fence' \in [Tasks -> FenceStates] /\ \A u \in Tasks \ {t} : fence'[u] = fence[u]
      BY <2>1 DEF FenceStates
    <2>3. /\ fence'[t].bound = fence[t].bound /\ fence'[t].retained = fence[t].retained
          /\ fence'[t].cached = fence[t].cached /\ fence'[t].action = fence[t].action
          /\ fence'[t].proved = TRUE
      BY <2>1 DEF FenceStates
    <2> QED
      BY <2>2, <2>3
  <1>3. /\ stage[t] \in Unlaunched /\ work[t] = "none" /\ uses[t] = {}
        /\ fence[t].cached = "none" /\ ~fence[t].bound /\ ~fence[t].retained /\ ~fence[t].action
    BY DEF SInv, FenceOK, Unlaunched
  <1>4. TypeOK'
    BY <1>1, <1>2, <1>3, NoneApart DEF SInv, TypeOK, Optional, Stages, FenceStates
  <1>5. HoldsOK'
    BY <1>1, <1>2, <1>3, NoneApart DEF SInv, TypeOK, Optional, Stages, HoldsOK, Native,
       Described, Enqueued
  <1>6. FenceOK'
    BY <1>1, <1>2, <1>3, NoneApart DEF SInv, TypeOK, Optional, Stages, FenceStates,
       FenceOK, Native, Unlaunched, Over
  <1>7. CachedOK'
    BY <1>1, <1>2, <1>3, NoneApart DEF SInv, TypeOK, Optional, FenceStates, CachedOK
  <1>8. StatusOK'
    BY <1>1, <1>2, <1>3, NoneApart DEF SInv, TypeOK, Optional, FenceStates, StatusOK,
       Unlaunched
  <1>9. EventOK'
    BY <1>1, <1>2, <1>3, NoneApart DEF SInv, TypeOK, Optional, FenceStates, EventOK,
       Unlaunched
  <1>10. UsesOK'
    <2>1. \A u \in Tasks \ {t} : UNCHANGED <<stage[u], comp[u], meta[u]>>
      BY <1>1 DEF SInv, TypeOK
    <2>2. stage'[t] = "refused"
      BY <1>1 DEF SInv, TypeOK
    <2>3. stage'[t] \in Enqueued /\ Native(t) => uses[t] = SlotsOf(t)'
      BY <1>1, <2>2 DEF SInv, UsesOK, SlotsOf, Enqueued
    <2> QED
      BY <1>1, <2>1, <2>2, <2>3, UsesFrame DEF SInv, Over
  <1>11. PinnedOK'
    BY <1>1, <1>2, <1>3, NoneApart DEF SInv, TypeOK, Optional, PinnedOK, Pinned, Native,
       Over
  <1>12. PoolsOK'
    BY <1>1, <1>2, <1>3, NoneApart DEF SInv, TypeOK, Optional, PoolsOK
  <1>13. DrainOK'
    BY <1>1, <1>2, <1>3, NoneApart DEF SInv, TypeOK, Optional, Stages, FenceStates,
       DrainOK, Settled
  <1>14. SettledOK'
    BY <1>1, <1>2, <1>3, NoneApart DEF SInv, TypeOK, Optional, Stages, FenceStates,
       SettledOK, Native
  <1> QED
    BY <1>4, <1>5, <1>6, <1>7, <1>8, <1>9, <1>10, <1>11, <1>12, <1>13, <1>14 DEF SInv

(* An admitted submission starts its dispatch.                              *)
LEMMA EnterStep ==
    ASSUME SInv, Enter
    PROVE  SInv'
  <1>1. PICK t \in Tasks :
          /\ stage[t] = "queued"
          /\ stage' = [stage EXCEPT ![t] = IF Kind[t] = "noop" THEN "published" ELSE "entered"]
          /\ dtor \in {"open", "waited"}
    BY DEF Enter, HeadOf, Queued
  <1>2. UNCHANGED <<comp, meta, fence, compUse, compProt, metaUse, metaProt, event, work,
                    uses, cell, owners, lease, token, dtor, drained>>
    BY DEF Enter, fenceVars, poolVars, nativeVars, settleVars, dtorVars
  <1>3. /\ stage[t] \in Unlaunched /\ work[t] = "none" /\ uses[t] = {}
        /\ fence[t].cached = "none" /\ ~fence[t].bound /\ ~fence[t].retained /\ ~fence[t].action
    BY <1>1 DEF SInv, FenceOK, Unlaunched
  <1>4. TypeOK'
    BY <1>1, <1>2, <1>3, NoneApart DEF SInv, TypeOK, Optional, Stages, FenceStates
  <1>5. HoldsOK'
    BY <1>1, <1>2, <1>3, NoneApart DEF SInv, TypeOK, Optional, Stages, HoldsOK, Native,
       Described, Enqueued
  <1>6. FenceOK'
    BY <1>1, <1>2, <1>3, NoneApart DEF SInv, TypeOK, Optional, Stages, FenceStates,
       FenceOK, Native, Unlaunched, Over
  <1>7. CachedOK'
    BY <1>1, <1>2, <1>3, NoneApart DEF SInv, TypeOK, Optional, FenceStates, CachedOK
  <1>8. StatusOK'
    BY <1>1, <1>2, <1>3, NoneApart DEF SInv, TypeOK, Optional, FenceStates, StatusOK,
       Unlaunched
  <1>9. EventOK'
    BY <1>1, <1>2, <1>3, NoneApart DEF SInv, TypeOK, Optional, FenceStates, EventOK,
       Unlaunched
  <1>10. UsesOK'
    BY <1>1, <1>2, <1>3, NoneApart DEF SInv, TypeOK, Optional, UsesOK, Native, Enqueued,
       Over, SlotsOf
  <1>11. PinnedOK'
    BY <1>1, <1>2, <1>3, NoneApart DEF SInv, TypeOK, Optional, PinnedOK, Pinned, Native,
       Over
  <1>12. PoolsOK'
    BY <1>1, <1>2, <1>3, NoneApart DEF SInv, TypeOK, Optional, PoolsOK
  <1>13. DrainOK'
    BY <1>1, <1>2, <1>3, NoneApart DEF SInv, TypeOK, Optional, Stages, FenceStates,
       DrainOK, Settled
  <1>14. SettledOK'
    BY <1>1, <1>2, <1>3, NoneApart DEF SInv, TypeOK, Optional, Stages, FenceStates,
       SettledOK, Native
  <1> QED
    BY <1>4, <1>5, <1>6, <1>7, <1>8, <1>9, <1>10, <1>11, <1>12, <1>13, <1>14 DEF SInv

(* A dispatch that finds no completion slot is undone.                      *)
LEMMA ParkStep ==
    ASSUME SInv, NEW t \in Tasks, stage[t] = "entered", Park(t)
    PROVE  SInv'
  <1>1. /\ stage' = [stage EXCEPT ![t] = "queued"]
        /\ UNCHANGED <<comp, meta, compUse, compProt, metaUse, metaProt, event, work, uses,
                       cell, owners, lease, token, dtor, drained>>
    BY DEF Park, fenceVars, poolVars, nativeVars, settleVars, dtorVars
  <1>2. /\ fence' \in [Tasks -> FenceStates]
        /\ \A u \in Tasks \ {t} : fence'[u] = fence[u]
        /\ fence'[t].bound = fence[t].bound /\ fence'[t].retained = fence[t].retained
        /\ fence'[t].cached = fence[t].cached /\ fence'[t].action = fence[t].action
        /\ fence'[t].proved = TRUE
    <2>1. fence \in [Tasks -> FenceStates]
          /\ fence' = [fence EXCEPT ![t].proved = TRUE]
      BY DEF SInv, TypeOK, Park
    <2>2. fence' \in [Tasks -> FenceStates] /\ \A u \in Tasks \ {t} : fence'[u] = fence[u]
      BY <2>1 DEF FenceStates
    <2>3. /\ fence'[t].bound = fence[t].bound /\ fence'[t].retained = fence[t].retained
          /\ fence'[t].cached = fence[t].cached /\ fence'[t].action = fence[t].action
          /\ fence'[t].proved = TRUE
      BY <2>1 DEF FenceStates
    <2> QED
      BY <2>2, <2>3
  <1>3. /\ stage[t] \in Unlaunched /\ work[t] = "none" /\ uses[t] = {}
        /\ fence[t].cached = "none" /\ ~fence[t].bound /\ ~fence[t].retained /\ ~fence[t].action
    BY DEF SInv, FenceOK, Unlaunched
  <1>4. TypeOK'
    BY <1>1, <1>2, <1>3, NoneApart DEF SInv, TypeOK, Optional, Stages, FenceStates
  <1>5. HoldsOK'
    BY <1>1, <1>2, <1>3, NoneApart DEF SInv, TypeOK, Optional, Stages, HoldsOK, Native,
       Described, Enqueued
  <1>6. FenceOK'
    BY <1>1, <1>2, <1>3, NoneApart DEF SInv, TypeOK, Optional, Stages, FenceStates,
       FenceOK, Native, Unlaunched, Over
  <1>7. CachedOK'
    BY <1>1, <1>2, <1>3, NoneApart DEF SInv, TypeOK, Optional, FenceStates, CachedOK
  <1>8. StatusOK'
    BY <1>1, <1>2, <1>3, NoneApart DEF SInv, TypeOK, Optional, FenceStates, StatusOK,
       Unlaunched
  <1>9. EventOK'
    BY <1>1, <1>2, <1>3, NoneApart DEF SInv, TypeOK, Optional, FenceStates, EventOK,
       Unlaunched
  <1>10. UsesOK'
    BY <1>1, <1>2, <1>3, NoneApart DEF SInv, TypeOK, Optional, UsesOK, Native, Enqueued,
       Over, SlotsOf
  <1>11. PinnedOK'
    BY <1>1, <1>2, <1>3, NoneApart DEF SInv, TypeOK, Optional, PinnedOK, Pinned, Native,
       Over
  <1>12. PoolsOK'
    BY <1>1, <1>2, <1>3, NoneApart DEF SInv, TypeOK, Optional, PoolsOK
  <1>13. DrainOK'
    BY <1>1, <1>2, <1>3, NoneApart DEF SInv, TypeOK, Optional, Stages, FenceStates,
       DrainOK, Settled
  <1>14. SettledOK'
    BY <1>1, <1>2, <1>3, NoneApart DEF SInv, TypeOK, Optional, Stages, FenceStates,
       SettledOK, Native
  <1> QED
    BY <1>4, <1>5, <1>6, <1>7, <1>8, <1>9, <1>10, <1>11, <1>12, <1>13, <1>14 DEF SInv

(* A dispatch takes a completion slot, or is parked.                        *)
LEMMA AcquireCompletionStep ==
    ASSUME SInv, NEW t \in Tasks, AcquireCompletion(t)
    PROVE  SInv'
  <1>0. SUFFICES ASSUME ~Park(t) PROVE SInv'
    BY ParkStep DEF AcquireCompletion
  <1>1. PICK c \in Slots \ compUse :
          /\ stage[t] = "entered"
          /\ compUse' = compUse \cup {c} /\ comp' = [comp EXCEPT ![t] = c]
          /\ stage' = [stage EXCEPT ![t] = "slotted"]
          /\ UNCHANGED <<meta, fence, compProt, metaUse, metaProt,
                       event, work, uses, cell, owners, lease, token, dtor, drained>>
    BY <1>0 DEF AcquireCompletion, HeadOf, fenceVars, poolVars, nativeVars, settleVars,
       dtorVars
  <1>2. /\ work[t] = "none" /\ uses[t] = {} /\ comp[t] = None /\ meta[t] = None /\ Native(t)
        /\ fence[t].cached = "none" /\ ~fence[t].bound /\ ~fence[t].retained /\ ~fence[t].action
        /\ c \notin compProt
    BY <1>1 DEF SInv, FenceOK, HoldsOK, Unlaunched, Enqueued, Described, PoolsOK
  <1>3. TypeOK'
    BY <1>1, <1>2, NoneApart DEF SInv, TypeOK, Optional, Stages, FenceStates
  <1>4. HoldsOK'
    BY <1>1, <1>2, NoneApart DEF SInv, TypeOK, Optional, Stages, HoldsOK, Native,
       Described, Enqueued
  <1>5. FenceOK'
    BY <1>1, <1>2, NoneApart DEF SInv, TypeOK, Optional, Stages, FenceStates, FenceOK,
       Native, Unlaunched, Over
  <1>6. CachedOK'
    BY <1>1, <1>2, NoneApart DEF SInv, TypeOK, Optional, FenceStates, CachedOK
  <1>7. StatusOK'
    BY <1>1, <1>2, NoneApart DEF SInv, TypeOK, Optional, FenceStates, StatusOK,
       Unlaunched
  <1>8. EventOK'
    BY <1>1, <1>2, NoneApart DEF SInv, TypeOK, Optional, FenceStates, EventOK,
       Unlaunched
  <1>9. UsesOK'
    BY <1>1, <1>2, NoneApart DEF SInv, TypeOK, Optional, UsesOK, Native, Enqueued, Over,
       SlotsOf
  <1>10. PinnedOK'
    BY <1>1, <1>2, NoneApart DEF SInv, TypeOK, Optional, PinnedOK, Pinned, Native, Over
  <1>11. PoolsOK'
    BY <1>1, <1>2, NoneApart DEF SInv, TypeOK, Optional, PoolsOK
  <1>12. DrainOK'
    BY <1>1, <1>2, NoneApart DEF SInv, TypeOK, Optional, Stages, FenceStates, DrainOK,
       Settled
  <1>13. SettledOK'
    BY <1>1, <1>2, NoneApart DEF SInv, TypeOK, Optional, Stages, FenceStates, SettledOK,
       Native
  <1> QED
    BY <1>3, <1>4, <1>5, <1>6, <1>7, <1>8, <1>9, <1>10, <1>11, <1>12, <1>13 DEF SInv

(* set_event marks the event bound.                                         *)
LEMMA BindEventStep ==
    ASSUME SInv, NEW t \in Tasks, BindEvent(t)
    PROVE  SInv'
  <1>1. /\ stage[t] = "launched" /\ stage' = [stage EXCEPT ![t] = "bound"]
        /\ UNCHANGED <<comp, meta, compUse, compProt, metaUse, metaProt, event, work, uses,
                       cell, owners, lease, token, dtor, drained>>
    BY DEF BindEvent, fenceVars, poolVars, nativeVars, settleVars, dtorVars
  <1>2. /\ fence' \in [Tasks -> FenceStates]
        /\ \A u \in Tasks \ {t} : fence'[u] = fence[u]
        /\ fence'[t].proved = fence[t].proved /\ fence'[t].retained = fence[t].retained
        /\ fence'[t].cached = fence[t].cached /\ fence'[t].action = fence[t].action
        /\ fence'[t].bound = TRUE
    <2>1. fence \in [Tasks -> FenceStates]
          /\ fence' = [fence EXCEPT ![t].bound = TRUE]
      BY DEF SInv, TypeOK, BindEvent
    <2>2. fence' \in [Tasks -> FenceStates] /\ \A u \in Tasks \ {t} : fence'[u] = fence[u]
      BY <2>1 DEF FenceStates
    <2>3. /\ fence'[t].proved = fence[t].proved /\ fence'[t].retained = fence[t].retained
          /\ fence'[t].cached = fence[t].cached /\ fence'[t].action = fence[t].action
          /\ fence'[t].bound = TRUE
      BY <2>1 DEF FenceStates
    <2> QED
      BY <2>2, <2>3
  <1>3. ~fence[t].bound /\ ~fence[t].retained /\ fence[t].cached = "none" /\ Native(t)
    BY <1>1 DEF SInv, FenceOK, Unlaunched, HoldsOK
  <1>4. TypeOK'
    BY <1>1, <1>2, <1>3, NoneApart DEF SInv, TypeOK, Optional, Stages, FenceStates
  <1>5. HoldsOK'
    BY <1>1, <1>2, <1>3, NoneApart DEF SInv, TypeOK, Optional, Stages, HoldsOK, Native,
       Described, Enqueued
  <1>6. FenceOK'
    BY <1>1, <1>2, <1>3, NoneApart DEF SInv, TypeOK, Optional, Stages, FenceStates,
       FenceOK, Native, Unlaunched, Over
  <1>7. CachedOK'
    BY <1>1, <1>2, <1>3, NoneApart DEF SInv, TypeOK, Optional, FenceStates, CachedOK
  <1>8. StatusOK'
    BY <1>1, <1>2, <1>3, NoneApart DEF SInv, TypeOK, Optional, FenceStates, StatusOK,
       Unlaunched
  <1>9. EventOK'
    BY <1>1, <1>2, <1>3, NoneApart DEF SInv, TypeOK, Optional, FenceStates, EventOK,
       Unlaunched
  <1>10. UsesOK'
    <2>1. \A u \in Tasks \ {t} : UNCHANGED <<stage[u], comp[u], meta[u]>>
      BY <1>1 DEF SInv, TypeOK
    <2>2. stage'[t] = "bound"
      BY <1>1 DEF SInv, TypeOK
    <2>3. stage'[t] \in Enqueued /\ Native(t) => uses[t] = SlotsOf(t)'
      BY <1>1, <2>2 DEF SInv, UsesOK, SlotsOf, Enqueued
    <2> QED
      BY <1>1, <2>1, <2>2, <2>3, UsesFrame DEF SInv, Over
  <1>11. PinnedOK'
    BY <1>1, <1>2, <1>3, NoneApart DEF SInv, TypeOK, Optional, PinnedOK, Pinned, Native,
       Over
  <1>12. PoolsOK'
    BY <1>1, <1>2, <1>3, NoneApart DEF SInv, TypeOK, Optional, PoolsOK
  <1>13. DrainOK'
    BY <1>1, <1>2, <1>3, NoneApart DEF SInv, TypeOK, Optional, Stages, FenceStates,
       DrainOK, Settled
  <1>14. SettledOK'
    BY <1>1, <1>2, <1>3, NoneApart DEF SInv, TypeOK, Optional, Stages, FenceStates,
       SettledOK, Native
  <1> QED
    BY <1>4, <1>5, <1>6, <1>7, <1>8, <1>9, <1>10, <1>11, <1>12, <1>13, <1>14 DEF SInv

(* set_event gives the event to the pool.                                   *)
LEMMA SetPoolEventStep ==
    ASSUME SInv, NEW t \in Tasks, SetPoolEvent(t)
    PROVE  SInv'
  <1>1. /\ stage[t] = "bound" /\ stage' = [stage EXCEPT ![t] = "ended"]
        /\ event' = [event EXCEPT ![comp[t]] = t]
        /\ UNCHANGED <<comp, meta, fence, compUse, compProt, metaUse, metaProt, work, uses,
                       cell, owners, lease, token, dtor, drained>>
    BY DEF SetPoolEvent, fenceVars, poolVars, nativeVars, settleVars, dtorVars
  <1>2. comp[t] \in Slots /\ fence[t].bound
    BY <1>1 DEF SInv, TypeOK, Optional, HoldsOK, Enqueued, FenceOK, Native
  <1>3. TypeOK'
    BY <1>1, <1>2, NoneApart DEF SInv, TypeOK, Optional, Stages, FenceStates
  <1>4. HoldsOK'
    BY <1>1, <1>2, NoneApart DEF SInv, TypeOK, Optional, Stages, HoldsOK, Native,
       Described, Enqueued
  <1>5. FenceOK'
    BY <1>1, <1>2, NoneApart DEF SInv, TypeOK, Optional, Stages, FenceStates, FenceOK,
       Native, Unlaunched, Over
  <1>6. CachedOK'
    BY <1>1, <1>2, NoneApart DEF SInv, TypeOK, Optional, FenceStates, CachedOK
  <1>7. StatusOK'
    BY <1>1, <1>2, NoneApart DEF SInv, TypeOK, Optional, FenceStates, StatusOK,
       Unlaunched
  <1>8. EventOK'
    <2>1. event'[comp[t]] = t /\ \A c \in Slots : c # comp[t] => event'[c] = event[c]
      BY <1>1, <1>2 DEF SInv, TypeOK
    <2>2. stage'[t] = "ended" /\ \A u \in Tasks \ {t} : stage'[u] = stage[u]
      BY <1>1 DEF SInv, TypeOK
    <2>3. \A u \in Tasks \ {t} : comp[u] # None => comp[u] \in Slots /\ comp[u] # comp[t]
      BY <1>2, NoneApart DEF SInv, TypeOK, Optional, PoolsOK
    <2>4. \A c \in Slots : event[c] # None => event[c] \in Tasks
      BY DEF SInv, TypeOK, Optional
    <2>5. \A c \in Slots : event'[c] # None =>
             /\ fence'[event'[c]].bound
             /\ stage'[event'[c]] \notin Unlaunched \cup {"launched", "bound"}
      BY <1>1, <1>2, <2>1, <2>2, <2>4 DEF SInv, EventOK, Unlaunched
    <2>6. \A u \in Tasks : fence'[u].bound /\ comp'[u] # None /\ stage'[u] # "bound" =>
             event'[comp'[u]] = u
      BY <1>1, <1>2, <2>1, <2>2, <2>3 DEF SInv, EventOK
    <2> QED
      BY <2>5, <2>6 DEF EventOK
  <1>9. UsesOK'
    <2>1. \A u \in Tasks \ {t} : UNCHANGED <<stage[u], comp[u], meta[u]>>
      BY <1>1 DEF SInv, TypeOK
    <2>2. stage'[t] = "ended"
      BY <1>1 DEF SInv, TypeOK
    <2>3. stage'[t] \in Enqueued /\ Native(t) => uses[t] = SlotsOf(t)'
      BY <1>1, <2>2 DEF SInv, UsesOK, SlotsOf, Enqueued
    <2> QED
      BY <1>1, <2>1, <2>2, <2>3, UsesFrame DEF SInv, Over
  <1>10. PinnedOK'
    BY <1>1, <1>2, NoneApart DEF SInv, TypeOK, Optional, PinnedOK, Pinned, Native, Over
  <1>11. PoolsOK'
    BY <1>1, <1>2, NoneApart DEF SInv, TypeOK, Optional, PoolsOK
  <1>12. DrainOK'
    BY <1>1, <1>2, NoneApart DEF SInv, TypeOK, Optional, Stages, FenceStates, DrainOK,
       Settled
  <1>13. SettledOK'
    BY <1>1, <1>2, NoneApart DEF SInv, TypeOK, Optional, Stages, FenceStates, SettledOK,
       Native
  <1> QED
    BY <1>3, <1>4, <1>5, <1>6, <1>7, <1>8, <1>9, <1>10, <1>11, <1>12, <1>13 DEF SInv

(* The task list gets the task.                                             *)
LEMMA PublishStep ==
    ASSUME SInv, NEW t \in Tasks, Publish(t)
    PROVE  SInv'
  <1>1. /\ stage[t] = "ended" /\ stage' = [stage EXCEPT ![t] = "published"]
        /\ UNCHANGED <<comp, meta, fence, compUse, compProt, metaUse, metaProt, event,
                       work, uses, cell, owners, lease, token, dtor, drained>>
    BY DEF Publish, fenceVars, poolVars, nativeVars, settleVars, dtorVars
  <1>2. TypeOK'
    BY <1>1, NoneApart DEF SInv, TypeOK, Optional, Stages, FenceStates
  <1>3. HoldsOK'
    BY <1>1, NoneApart DEF SInv, TypeOK, Optional, Stages, HoldsOK, Native, Described,
       Enqueued
  <1>4. FenceOK'
    BY <1>1, NoneApart DEF SInv, TypeOK, Optional, Stages, FenceStates, FenceOK, Native,
       Unlaunched, Over
  <1>5. CachedOK'
    BY <1>1, NoneApart DEF SInv, TypeOK, Optional, FenceStates, CachedOK
  <1>6. StatusOK'
    BY <1>1, NoneApart DEF SInv, TypeOK, Optional, FenceStates, StatusOK, Unlaunched
  <1>7. EventOK'
    BY <1>1, NoneApart DEF SInv, TypeOK, Optional, FenceStates, EventOK, Unlaunched
  <1>8. UsesOK'
    BY <1>1, NoneApart DEF SInv, TypeOK, Optional, UsesOK, Native, Enqueued, Over,
       SlotsOf
  <1>9. PinnedOK'
    BY <1>1, NoneApart DEF SInv, TypeOK, Optional, PinnedOK, Pinned, Native, Over
  <1>10. PoolsOK'
    BY <1>1, NoneApart DEF SInv, TypeOK, Optional, PoolsOK
  <1>11. DrainOK'
    BY <1>1, NoneApart DEF SInv, TypeOK, Optional, Stages, FenceStates, DrainOK, Settled
  <1>12. SettledOK'
    BY <1>1, NoneApart DEF SInv, TypeOK, Optional, Stages, FenceStates, SettledOK,
       Native
  <1> QED
    BY <1>2, <1>3, <1>4, <1>5, <1>6, <1>7, <1>8, <1>9, <1>10, <1>11, <1>12 DEF SInv

(* The worker takes the oldest task.                                        *)
LEMMA PopStep ==
    ASSUME SInv, Pop
    PROVE  SInv'
  <1>1. PICK t \in Tasks :
          /\ stage[t] = "published"
          /\ stage' = [stage EXCEPT ![t] = IF Kind[t] = "noop" THEN "destroyed"
                                           ELSE IF dtor = "shutdown" THEN "waited" ELSE "popped"]
    BY DEF Pop, HeadOf
  <1>2. UNCHANGED <<comp, meta, fence, compUse, compProt, metaUse, metaProt, event, work,
                    uses, cell, owners, lease, token, dtor, drained>>
    BY DEF Pop, fenceVars, poolVars, nativeVars, settleVars, dtorVars
  <1>3. TypeOK'
    BY <1>1, <1>2, NoneApart DEF SInv, TypeOK, Optional, Stages, FenceStates
  <1>4. HoldsOK'
    BY <1>1, <1>2, NoneApart DEF SInv, TypeOK, Optional, Stages, HoldsOK, Native,
       Described, Enqueued
  <1>5. FenceOK'
    BY <1>1, <1>2, NoneApart DEF SInv, TypeOK, Optional, Stages, FenceStates, FenceOK,
       Native, Unlaunched, Over
  <1>6. CachedOK'
    BY <1>1, <1>2, NoneApart DEF SInv, TypeOK, Optional, FenceStates, CachedOK
  <1>7. StatusOK'
    BY <1>1, <1>2, NoneApart DEF SInv, TypeOK, Optional, FenceStates, StatusOK,
       Unlaunched
  <1>8. EventOK'
    BY <1>1, <1>2, NoneApart DEF SInv, TypeOK, Optional, FenceStates, EventOK,
       Unlaunched
  <1>9. UsesOK'
    BY <1>1, <1>2, NoneApart DEF SInv, TypeOK, Optional, UsesOK, Native, Enqueued, Over,
       SlotsOf
  <1>10. PinnedOK'
    BY <1>1, <1>2, NoneApart DEF SInv, TypeOK, Optional, PinnedOK, Pinned, Native, Over
  <1>11. PoolsOK'
    BY <1>1, <1>2, NoneApart DEF SInv, TypeOK, Optional, PoolsOK
  <1>12. DrainOK'
    BY <1>1, <1>2, NoneApart DEF SInv, TypeOK, Optional, Stages, FenceStates, DrainOK,
       Settled
  <1>13. SettledOK'
    BY <1>1, <1>2, NoneApart DEF SInv, TypeOK, Optional, Stages, FenceStates, SettledOK,
       Native
  <1> QED
    BY <1>3, <1>4, <1>5, <1>6, <1>7, <1>8, <1>9, <1>10, <1>11, <1>12, <1>13 DEF SInv

(* The enqueues of a task return, or one of them throws.                    *)
LEMMA LaunchStep ==
    ASSUME SInv, NEW t \in Tasks, ~LateFaults, Launch(t)
    PROVE  SInv'
  <1>1. /\ stage[t] = "described" /\ work' = [work EXCEPT ![t] = "running"]
        /\ uses' = [uses EXCEPT ![t] = SlotsOf(t)]
        /\ UNCHANGED <<comp, meta, compUse, compProt, metaUse, metaProt, event, cell,
                       owners, lease, token, dtor, drained>>
    BY DEF Launch, fenceVars, poolVars, nativeVars, settleVars, dtorVars
  <1>2. \/ /\ stage' = [stage EXCEPT ![t] = "launched"]
           /\ fence' = [fence EXCEPT ![t].action = Kind[t] = "embedding"]
        \/ /\ ~fence[t].proved /\ dtor = "open"
           /\ stage' = [stage EXCEPT ![t] = "ended"]
           /\ fence' = [fence EXCEPT ![t].retained = TRUE]
    BY DEF Launch
  <1>3. /\ work[t] = "none" /\ comp[t] \in Slots /\ meta[t] \in Optional(Slots) /\ Native(t)
        /\ Kind[t] = "embedding" => meta[t] \in Slots
        /\ fence[t].cached = "none" /\ ~fence[t].bound /\ ~fence[t].retained /\ ~fence[t].action
    BY <1>1 DEF SInv, TypeOK, FenceOK, HoldsOK, Unlaunched, Enqueued, Described,
       Optional
  <1>4. /\ fence' \in [Tasks -> FenceStates]
        /\ \A u \in Tasks \ {t} : fence'[u] = fence[u]
        /\ fence'[t].bound = fence[t].bound /\ fence'[t].proved = fence[t].proved
        /\ fence'[t].cached = fence[t].cached
        /\ \/ /\ stage' = [stage EXCEPT ![t] = "launched"]
              /\ fence'[t].action = (Kind[t] = "embedding") /\ ~fence'[t].retained
           \/ /\ ~fence[t].proved /\ dtor = "open"
              /\ stage' = [stage EXCEPT ![t] = "ended"]
              /\ fence'[t].retained /\ ~fence'[t].action
    <2>1. fence \in [Tasks -> FenceStates]
      BY DEF SInv, TypeOK
    <2>2. CASE /\ stage' = [stage EXCEPT ![t] = "launched"]
               /\ fence' = [fence EXCEPT ![t].action = Kind[t] = "embedding"]
      <3> DEFINE e == Kind[t] = "embedding"
      <3>0. fence' = [fence EXCEPT ![t].action = e] /\ e \in BOOLEAN
        BY <2>2
      <3> HIDE DEF e
      <3>1. fence' \in [Tasks -> FenceStates] /\ \A u \in Tasks \ {t} : fence'[u] = fence[u]
        BY <2>1, <3>0 DEF FenceStates
      <3>2. /\ fence'[t].bound = fence[t].bound /\ fence'[t].proved = fence[t].proved
            /\ fence'[t].cached = fence[t].cached /\ fence'[t].retained = fence[t].retained
            /\ fence'[t].action = (Kind[t] = "embedding")
        BY <2>1, <2>2 DEF FenceStates
      <3> QED
        BY <1>3, <2>2, <3>1, <3>2
    <2>3. CASE /\ ~fence[t].proved /\ dtor = "open"
               /\ stage' = [stage EXCEPT ![t] = "ended"]
               /\ fence' = [fence EXCEPT ![t].retained = TRUE]
      <3>1. fence' \in [Tasks -> FenceStates] /\ \A u \in Tasks \ {t} : fence'[u] = fence[u]
        BY <2>1, <2>3 DEF FenceStates
      <3>2. /\ fence'[t].bound = fence[t].bound /\ fence'[t].proved = fence[t].proved
            /\ fence'[t].cached = fence[t].cached /\ fence'[t].retained = TRUE
            /\ fence'[t].action = fence[t].action
        BY <2>1, <2>3 DEF FenceStates
      <3> QED
        BY <1>3, <2>3, <3>1, <3>2
    <2> QED
      BY <1>2, <2>2, <2>3
  <1>5. TypeOK'
    <2>1. SlotsOf(t) \subseteq {"comp", "meta"} \X Slots
      BY <1>3 DEF SlotsOf, Optional
    <2>2. uses' \in [Tasks -> SUBSET ({"comp", "meta"} \X Slots)]
      BY <1>1, <2>1 DEF SInv, TypeOK
    <2>3. stage' \in [Tasks -> Stages] /\ work' \in [Tasks -> {"none", "running", "done", "error"}]
      BY <1>1, <1>4 DEF SInv, TypeOK, Stages
    <2> QED
      BY <1>1, <1>4, <2>2, <2>3 DEF SInv, TypeOK
  <1>6. HoldsOK'
    BY <1>1, <1>2, <1>3, <1>4, NoneApart DEF SInv, TypeOK, Optional, Stages, HoldsOK,
       Native, Described, Enqueued
  <1>7. FenceOK'
    BY <1>1, <1>2, <1>3, <1>4, NoneApart DEF SInv, TypeOK, Optional, Stages,
       FenceStates, FenceOK, Native, Unlaunched, Over
  <1>8. CachedOK'
    BY <1>1, <1>2, <1>3, <1>4, NoneApart DEF SInv, TypeOK, Optional, FenceStates,
       CachedOK
  <1>9. StatusOK'
    BY <1>1, <1>2, <1>3, <1>4, NoneApart DEF SInv, TypeOK, Optional, FenceStates,
       StatusOK, Unlaunched
  <1>10. EventOK'
    <2>1. \A u \in Tasks \ {t} : fence'[u] = fence[u] /\ stage'[u] = stage[u]
      BY <1>4 DEF SInv, TypeOK
    <2>2. ~fence[t].bound /\ ~fence'[t].bound
      BY <1>3, <1>4
    <2>3. \A c \in Slots : event[c] # None => event[c] \in Tasks
      BY DEF SInv, TypeOK, Optional
    <2> QED
      BY <1>1, <2>1, <2>2, <2>3 DEF SInv, EventOK
  <1>11. UsesOK'
    <2>1. \A u \in Tasks \ {t} : stage'[u] = stage[u] /\ uses'[u] = uses[u]
      BY <1>1, <1>4 DEF SInv, TypeOK
    <2>2. uses'[t] = SlotsOf(t) /\ stage'[t] \in {"launched", "ended"}
      BY <1>1, <1>4 DEF SInv, TypeOK
    <2>3. ASSUME NEW u \in Tasks \ {t}
          PROVE  /\ stage'[u] \in Enqueued /\ Native(u) => uses'[u] = SlotsOf(u)'
                 /\ stage'[u] = "cleared" => <<"comp", comp'[u]>> \in uses'[u]
                 /\ stage'[u] \in Over /\ Native(u) => \E c \in Slots : <<"comp", c>> \in uses'[u]
                 /\ \A k \in {"comp", "meta"}, a, b \in Slots :
                       <<k, a>> \in uses'[u] /\ <<k, b>> \in uses'[u] => a = b
      BY <1>1, <2>1 DEF SInv, UsesOK, SlotsOf
    <2>4. /\ uses'[t] = SlotsOf(t)' /\ stage'[t] # "cleared" /\ stage'[t] \notin Over
      BY <1>1, <2>2 DEF SlotsOf, Over
    <2>5. \A k \in {"comp", "meta"}, a, b \in Slots :
             <<k, a>> \in uses'[t] /\ <<k, b>> \in uses'[t] => a = b
      BY <2>2 DEF SlotsOf
    <2> QED
      BY <2>3, <2>4, <2>5 DEF UsesOK, Native
  <1>12. PinnedOK'
    <2>1. \A u \in Tasks \ {t} : fence'[u] = fence[u] /\ stage'[u] = stage[u] /\ uses'[u] = uses[u]
      BY <1>1, <1>4 DEF SInv, TypeOK
    <2>2. stage[t] \notin Over /\ stage'[t] \notin Over
      BY <1>1, <1>4 DEF SInv, TypeOK, Over
    <2>3. Pinned' = Pinned /\ t \notin Pinned
      BY <1>1, <2>1, <2>2 DEF Pinned, Native
    <2>4. \A u \in Pinned : stage'[u] = stage[u] /\ uses'[u] = uses[u]
      BY <2>1, <2>3 DEF Pinned
    <2> QED
      BY <1>1, <2>3, <2>4 DEF SInv, PinnedOK
  <1>13. PoolsOK'
    BY <1>1, <1>2, <1>3, <1>4, NoneApart DEF SInv, TypeOK, Optional, PoolsOK
  <1>14. DrainOK'
    BY <1>1, <1>2, <1>3, <1>4, NoneApart DEF SInv, TypeOK, Optional, Stages,
       FenceStates, DrainOK, Settled
  <1>15. SettledOK'
    BY <1>1, <1>2, <1>3, <1>4, NoneApart DEF SInv, TypeOK, Optional, Stages,
       FenceStates, SettledOK, Native
  <1> QED
    BY <1>5, <1>6, <1>7, <1>8, <1>9, <1>10, <1>11, <1>12, <1>13, <1>14, <1>15 DEF SInv

(* The device ends a task.                                                  *)
LEMMA NativeEndsStep ==
    ASSUME SInv, NEW t \in Tasks, NativeEnds(t)
    PROVE  SInv'
  <1>1. /\ work[t] = "running"
        /\ \/ /\ work' = [work EXCEPT ![t] = "done"]
              /\ cell' = IF fence[t].action
                         THEN [m \in Slots |-> IF m = meta[t] THEN t \in OutOfRange ELSE cell[m]]
                         ELSE cell
           \/ work' = [work EXCEPT ![t] = "error"] /\ cell' = cell
        /\ UNCHANGED <<stage, comp, meta, fence, compUse, compProt, metaUse, metaProt,
                       event, uses, owners, lease, token, dtor, drained>>
    BY DEF NativeEnds, fenceVars, poolVars, nativeVars, settleVars, dtorVars
  <1>2. Native(t) /\ stage[t] \notin Unlaunched /\ fence[t].cached = "none"
    BY <1>1 DEF SInv, FenceOK, CachedOK
  <1>3. TypeOK'
    <2>1. work' \in [Tasks -> {"none", "running", "done", "error"}]
      BY <1>1 DEF SInv, TypeOK
    <2> DEFINE b == t \in OutOfRange
    <2>2. b \in BOOLEAN /\ (\/ cell' = cell
                            \/ cell' = [m \in Slots |-> IF m = meta[t] THEN b ELSE cell[m]])
      BY <1>1
    <2> HIDE DEF b
    <2>3. cell' \in [Slots -> BOOLEAN]
      BY <2>2 DEF SInv, TypeOK
    <2> QED
      BY <1>1, <2>1, <2>3 DEF SInv, TypeOK
  <1>4. HoldsOK'
    BY <1>1, <1>2, NoneApart DEF SInv, TypeOK, Optional, Stages, HoldsOK, Native,
       Described, Enqueued
  <1>5. FenceOK'
    BY <1>1, <1>2, NoneApart DEF SInv, TypeOK, Optional, Stages, FenceStates, FenceOK,
       Native, Unlaunched, Over
  <1>6. CachedOK'
    BY <1>1, <1>2, NoneApart DEF SInv, TypeOK, Optional, FenceStates, CachedOK
  <1>7. StatusOK'
    <2>1. ASSUME NEW u \in Tasks, stage[u] \notin Unlaunched, Kind[u] = "embedding",
                 ~fence[u].retained, fence[u].cached = "none"
          PROVE  fence[u].action /\ (work'[u] = "done" => cell'[meta[u]] = (u \in OutOfRange))
      <3>1. stage[u] \in Enqueued /\ meta[u] \in Slots
        BY <2>1 DEF SInv, TypeOK, Stages, Optional, FenceOK, HoldsOK, Unlaunched, Enqueued, Over,
           Native, Described
      <3>2. fence[u].action /\ (work[u] = "done" => cell[meta[u]] = (u \in OutOfRange))
        BY <2>1 DEF SInv, StatusOK
      <3>3. u # t => meta[u] # meta[t] /\ work'[u] = work[u]
        BY <1>1, <3>1, NoneApart DEF SInv, TypeOK, PoolsOK
      <3>4. CASE u = t
        BY <1>1, <3>1, <3>2, <3>4 DEF SInv, TypeOK
      <3>5. CASE u # t
        BY <1>1, <3>1, <3>2, <3>3, <3>5 DEF SInv, TypeOK
      <3> QED
        BY <3>4, <3>5
    <2> QED
      BY <1>1, <2>1 DEF SInv, StatusOK
  <1>8. EventOK'
    BY <1>1, <1>2, NoneApart DEF SInv, TypeOK, Optional, FenceStates, EventOK,
       Unlaunched
  <1>9. UsesOK'
    BY <1>1, <1>2, NoneApart DEF SInv, TypeOK, Optional, UsesOK, Native, Enqueued, Over,
       SlotsOf
  <1>10. PinnedOK'
    BY <1>1, <1>2, NoneApart DEF SInv, TypeOK, Optional, PinnedOK, Pinned, Native, Over
  <1>11. PoolsOK'
    BY <1>1, <1>2, NoneApart DEF SInv, TypeOK, Optional, PoolsOK
  <1>12. DrainOK'
    BY <1>1, <1>2, NoneApart DEF SInv, TypeOK, Optional, Stages, FenceStates, DrainOK,
       Settled
  <1>13. SettledOK'
    BY <1>1, <1>2, NoneApart DEF SInv, TypeOK, Optional, Stages, FenceStates, SettledOK,
       Native
  <1> QED
    BY <1>3, <1>4, <1>5, <1>6, <1>7, <1>8, <1>9, <1>10, <1>11, <1>12, <1>13 DEF SInv

(* A thread asks the fence of a task.                                       *)
LEMMA AskedStep ==
    ASSUME SInv, NEW t \in Tasks, ~EarlyObserver, Asked(t)
    PROVE  SInv'
  <1>1. /\ result(t) /\ owners[t] = "held"
        /\ Observed(t) \/ ~(fence[t].action /\ fence[t].bound)
        /\ UNCHANGED <<stage, comp, meta, compUse, compProt, metaUse, metaProt, event,
                       work, uses, cell, owners, lease, token, dtor, drained>>
    BY DEF Asked, fenceVars, poolVars, nativeVars, settleVars, dtorVars
  <1>2. /\ fence' \in [Tasks -> FenceStates]
        /\ \A u \in Tasks \ {t} : fence'[u] = fence[u]
        /\ fence'[t] = AfterResult(t)
        /\ fence'[t].bound = fence[t].bound /\ fence'[t].retained = fence[t].retained
        /\ \/ /\ fence'[t].cached = fence[t].cached /\ fence'[t].action = fence[t].action
              /\ fence'[t].proved = fence[t].proved
              /\ fence[t].cached # "none" \/ ~Observed(t)
           \/ /\ fence[t].cached = "none" /\ fence[t].bound /\ Observed(t)
              /\ stage[t] \in {"ended", "published", "popped", "waited"}
              /\ work[t] \in {"done", "error"} /\ (fence'[t].action => fence[t].action)
              /\ fence'[t].cached = IF work[t] = "done" /\ t \notin OutOfRange
                                    THEN "success" ELSE "failed"
    <2>1. ResultReady(t) /\ fence' = [fence EXCEPT ![t] = AfterResult(t)]
      BY <1>1 DEF result
    <2>2. \/ fence[t].cached # "none" \/ Observed(t) \/ ~(fence[t].action /\ fence[t].bound)
      BY <1>1
    <2>3. fence \in [Tasks -> FenceStates]
      BY DEF SInv, TypeOK
    <2> QED
      BY <2>1, <2>2, <2>3, ResultEffect
  <1>3. TypeOK'
    BY <1>1, <1>2, NoneApart DEF SInv, TypeOK, Optional, Stages, FenceStates
  <1>4. HoldsOK'
    BY <1>1, <1>2, NoneApart DEF SInv, TypeOK, Optional, Stages, HoldsOK, Native,
       Described, Enqueued
  <1>5. FenceOK'
    BY <1>1, <1>2 DEF SInv, FenceOK, Native, Unlaunched, Over
  <1>6. CachedOK'
    BY <1>1, <1>2 DEF SInv, CachedOK
  <1>7. StatusOK'
    BY <1>1, <1>2, NoneApart DEF SInv, TypeOK, Optional, FenceStates, StatusOK,
       Unlaunched
  <1>8. EventOK'
    BY <1>1, <1>2 DEF SInv, EventOK, TypeOK, Optional, Unlaunched
  <1>9. UsesOK'
    BY <1>1, <1>2, NoneApart DEF SInv, TypeOK, Optional, UsesOK, Native, Enqueued, Over,
       SlotsOf
  <1>10. PinnedOK'
    <2>1. Pinned' = Pinned
      BY <1>1, <1>2 DEF Pinned, Over, Native
    <2> QED
      BY <1>1, <2>1 DEF SInv, PinnedOK
  <1>11. PoolsOK'
    BY <1>1, <1>2, NoneApart DEF SInv, TypeOK, Optional, PoolsOK
  <1>12. DrainOK'
    BY <1>1, <1>2, NoneApart DEF SInv, TypeOK, Optional, Stages, FenceStates, DrainOK,
       Settled
  <1>13. SettledOK'
    BY <1>1, <1>2 DEF SInv, SettledOK, Native
  <1> QED
    BY <1>3, <1>4, <1>5, <1>6, <1>7, <1>8, <1>9, <1>10, <1>11, <1>12, <1>13 DEF SInv

(* The worker waits for a task.                                             *)
LEMMA FenceCompleteStep ==
    ASSUME SInv, NEW t \in Tasks, FenceComplete(t)
    PROVE  SInv'
  <1>1. /\ stage[t] = "popped" /\ result(t) /\ stage' = [stage EXCEPT ![t] = "waited"]
        /\ UNCHANGED <<comp, meta, compUse, compProt, metaUse, metaProt, event, work, uses,
                       cell, owners, lease, token, dtor, drained>>
    BY DEF FenceComplete, fenceVars, poolVars, nativeVars, settleVars, dtorVars
  <1>2. /\ fence' \in [Tasks -> FenceStates]
        /\ \A u \in Tasks \ {t} : fence'[u] = fence[u]
        /\ fence'[t] = AfterResult(t)
        /\ fence'[t].bound = fence[t].bound /\ fence'[t].retained = fence[t].retained
        /\ \/ /\ fence'[t].cached = fence[t].cached /\ fence'[t].action = fence[t].action
              /\ fence'[t].proved = fence[t].proved
              /\ fence[t].cached # "none" \/ ~Observed(t)
           \/ /\ fence[t].cached = "none" /\ fence[t].bound /\ Observed(t)
              /\ stage[t] \in {"ended", "published", "popped", "waited"}
              /\ work[t] \in {"done", "error"} /\ (fence'[t].action => fence[t].action)
              /\ fence'[t].cached = IF work[t] = "done" /\ t \notin OutOfRange
                                    THEN "success" ELSE "failed"
    <2>1. ResultReady(t) /\ fence' = [fence EXCEPT ![t] = AfterResult(t)]
      BY <1>1 DEF result
    <2>2. \/ fence[t].cached # "none" \/ Observed(t) \/ ~(fence[t].action /\ fence[t].bound)
      BY <1>1 DEF SInv, HoldsOK, FenceOK, EventOK, Enqueued, Observed, Native
    <2>3. fence \in [Tasks -> FenceStates]
      BY DEF SInv, TypeOK
    <2> QED
      BY <2>1, <2>2, <2>3, ResultEffect
  <1>3. TypeOK'
    BY <1>1, <1>2, NoneApart DEF SInv, TypeOK, Optional, Stages, FenceStates
  <1>4. HoldsOK'
    BY <1>1, <1>2, NoneApart DEF SInv, TypeOK, Optional, Stages, HoldsOK, Native,
       Described, Enqueued
  <1>5. FenceOK'
    BY <1>1, <1>2, NoneApart DEF SInv, TypeOK, Optional, Stages, FenceStates, FenceOK,
       Native, Unlaunched, Over
  <1>6. CachedOK'
    BY <1>1, <1>2, NoneApart DEF SInv, TypeOK, Optional, FenceStates, CachedOK
  <1>7. StatusOK'
    BY <1>1, <1>2, NoneApart DEF SInv, TypeOK, Optional, FenceStates, StatusOK,
       Unlaunched
  <1>8. EventOK'
    BY <1>1, <1>2, NoneApart DEF SInv, TypeOK, Optional, FenceStates, EventOK,
       Unlaunched
  <1>9. UsesOK'
    <2>1. \A u \in Tasks \ {t} : UNCHANGED <<stage[u], comp[u], meta[u]>>
      BY <1>1 DEF SInv, TypeOK
    <2>2. stage'[t] = "waited"
      BY <1>1 DEF SInv, TypeOK
    <2>3. stage'[t] \in Enqueued /\ Native(t) => uses[t] = SlotsOf(t)'
      BY <1>1, <2>2 DEF SInv, UsesOK, SlotsOf, Enqueued
    <2> QED
      BY <1>1, <2>1, <2>2, <2>3, UsesFrame DEF SInv, Over
  <1>10. PinnedOK'
    BY <1>1, <1>2, NoneApart DEF SInv, TypeOK, Optional, PinnedOK, Pinned, Native, Over
  <1>11. PoolsOK'
    BY <1>1, <1>2, NoneApart DEF SInv, TypeOK, Optional, PoolsOK
  <1>12. DrainOK'
    BY <1>1, <1>2, NoneApart DEF SInv, TypeOK, Optional, Stages, FenceStates, DrainOK,
       Settled
  <1>13. SettledOK'
    BY <1>1, <1>2, NoneApart DEF SInv, TypeOK, Optional, Stages, FenceStates, SettledOK,
       Native
  <1> QED
    BY <1>3, <1>4, <1>5, <1>6, <1>7, <1>8, <1>9, <1>10, <1>11, <1>12, <1>13 DEF SInv

(* fence_destroy gives back or protects the metadata slot.                  *)
LEMMA ReleaseMetaStep ==
    ASSUME SInv, NEW t \in Tasks, stage[t] = "waited", result(t), release_metadata_slot(t,
           AfterResult(t).proved), stage' = [stage EXCEPT ![t] = "cleared"], UNCHANGED
           <<nativeVars, settleVars, dtorVars>>
    PROVE  SInv'
  <1>1. /\ stage[t] = "waited" /\ result(t) /\ stage' = [stage EXCEPT ![t] = "cleared"]
        /\ metaUse' = GivenBack(metaUse, meta[t], AfterResult(t).proved)
        /\ metaProt' = Protected(metaProt, meta[t], AfterResult(t).proved)
        /\ meta' = [meta EXCEPT ![t] = None]
        /\ UNCHANGED <<comp, compUse, compProt, event, work, uses, cell, owners, lease,
                       token, dtor, drained>>
    BY DEF release_metadata_slot, fenceVars, poolVars, nativeVars, settleVars, dtorVars
  <1>2. /\ fence' \in [Tasks -> FenceStates]
        /\ \A u \in Tasks \ {t} : fence'[u] = fence[u]
        /\ fence'[t] = AfterResult(t)
        /\ fence'[t].bound = fence[t].bound /\ fence'[t].retained = fence[t].retained
        /\ \/ /\ fence'[t].cached = fence[t].cached /\ fence'[t].action = fence[t].action
              /\ fence'[t].proved = fence[t].proved
              /\ fence[t].cached # "none" \/ ~Observed(t)
           \/ /\ fence[t].cached = "none" /\ fence[t].bound /\ Observed(t)
              /\ stage[t] \in {"ended", "published", "popped", "waited"}
              /\ work[t] \in {"done", "error"} /\ (fence'[t].action => fence[t].action)
              /\ fence'[t].cached = IF work[t] = "done" /\ t \notin OutOfRange
                                    THEN "success" ELSE "failed"
    <2>1. ResultReady(t) /\ fence' = [fence EXCEPT ![t] = AfterResult(t)]
      BY <1>1 DEF result
    <2>2. \/ fence[t].cached # "none" \/ Observed(t) \/ ~(fence[t].action /\ fence[t].bound)
      BY <1>1 DEF SInv, HoldsOK, FenceOK, EventOK, Enqueued, Observed, Native
    <2>3. fence \in [Tasks -> FenceStates]
      BY DEF SInv, TypeOK
    <2> QED
      BY <2>1, <2>2, <2>3, ResultEffect
  <1>3. /\ comp[t] \in Slots /\ meta[t] \in Optional(Slots) /\ Native(t) /\ uses[t] = SlotsOf(t)
        /\ comp[t] \notin compProt /\ (meta[t] # None => meta[t] \notin metaProt)
        /\ fence[t].bound \/ fence[t].retained
        /\ fence'[t].cached # "none" \/ fence[t].retained
    <2>1. /\ comp[t] \in Slots /\ meta[t] \in Optional(Slots) /\ Native(t) /\ uses[t] = SlotsOf(t)
          /\ comp[t] \notin compProt /\ (meta[t] # None => meta[t] \notin metaProt)
      <3>1. Native(t) /\ comp[t] # None
        BY <1>1 DEF SInv, HoldsOK, Enqueued
      <3>2. comp[t] \in Slots /\ meta[t] \in Optional(Slots)
        BY <3>1 DEF SInv, TypeOK, Optional
      <3>3. comp[t] \notin compProt /\ (meta[t] # None => meta[t] \notin metaProt)
        BY <3>1 DEF SInv, PoolsOK
      <3>4. uses[t] = SlotsOf(t)
        BY <1>1, <3>1 DEF SInv, UsesOK, Enqueued
      <3> QED
        BY <3>1, <3>2, <3>3, <3>4
    <2>2. fence[t].bound \/ fence[t].retained
      BY <1>1, <2>1 DEF SInv, FenceOK
    <2>3. fence[t].bound => Observed(t)
      BY <1>1, <2>1, NoneApart DEF SInv, EventOK, Observed
    <2> QED
      BY <1>2, <2>1, <2>2, <2>3
  <1>4. /\ stage'[t] = "cleared" /\ meta'[t] = None
        /\ \A u \in Tasks \ {t} : stage'[u] = stage[u] /\ meta'[u] = meta[u]
        /\ IF fence'[t].proved
           THEN metaUse' = metaUse \ {meta[t]} /\ metaProt' = metaProt
           ELSE metaUse' = metaUse /\ metaProt' = metaProt \cup ({meta[t]} \ {None})
    BY <1>1, <1>2 DEF SInv, TypeOK, GivenBack, Protected
  <1>5. TypeOK'
    <2>1. metaUse' \subseteq Slots /\ meta' \in [Tasks -> Optional(Slots)]
      BY <1>1, <1>4 DEF SInv, TypeOK, Optional
    <2>2. stage' \in [Tasks -> Stages]
      BY <1>1 DEF SInv, TypeOK, Stages
    <2> QED
      BY <1>1, <1>2, <2>1, <2>2 DEF SInv, TypeOK
  <1>6. HoldsOK'
    BY <1>1, <1>2, <1>3, <1>4, NoneApart DEF SInv, TypeOK, Optional, Stages, HoldsOK,
       Native, Described, Enqueued
  <1>7. FenceOK'
    BY <1>1, <1>2, <1>3, <1>4 DEF SInv, FenceOK, Native, Unlaunched, Over
  <1>8. CachedOK'
    BY <1>1, <1>2, <1>3, <1>4 DEF SInv, CachedOK
  <1>9. StatusOK'
    BY <1>1, <1>2, <1>3, <1>4 DEF SInv, StatusOK, Unlaunched
  <1>10. EventOK'
    BY <1>1, <1>2, <1>3, <1>4, NoneApart DEF SInv, TypeOK, Optional, FenceStates,
       EventOK, Unlaunched
  <1>11. UsesOK'
    <2>1. <<"comp", comp'[t]>> \in uses[t]
      BY <1>1, <1>3 DEF SlotsOf
    <2>2. \A u \in Tasks \ {t} : UNCHANGED <<stage[u], comp[u], meta[u]>>
      BY <1>1, <1>4
    <2>3. stage'[t] \notin Enqueued
      BY <1>4 DEF Enqueued
    <2>4. \E c \in Slots : <<"comp", c>> \in uses[t]
      BY <1>1, <1>3, <2>1
    <2> QED
      BY <1>1, <2>1, <2>2, <2>3, <2>4, UsesFrame DEF SInv
  <1>12. PinnedOK'
    <2>1. t \notin Pinned /\ Pinned' = IF fence'[t].proved THEN Pinned ELSE Pinned \cup {t}
      <3>1. \A u \in Tasks \ {t} : u \in Pinned' <=> u \in Pinned
        BY <1>1, <1>2, <1>4 DEF Pinned, Native
      <3>2. t \notin Pinned /\ (t \in Pinned' <=> ~fence'[t].proved)
        BY <1>1, <1>3, <1>4 DEF SInv, DrainOK, Settled, Pinned, Over, Native
      <3> QED
        BY <3>1, <3>2 DEF Pinned
    <2>2. \A u \in Pinned : u \in Tasks /\ u # t /\ stage'[u] = stage[u]
      BY <1>4, <2>1 DEF Pinned
    <2>3. CASE fence'[t].proved
      BY <1>1, <1>4, <2>1, <2>2, <2>3 DEF SInv, PinnedOK
    <2>4. CASE ~fence'[t].proved
      <3>1. \A s \in Slots : /\ <<"meta", s>> \in uses[t] => s \in metaProt'
                             /\ <<"comp", s>> \in uses[t] => s = comp[t]
        BY <1>3, <1>4, <2>4, NoneApart DEF SlotsOf
      <3>2. ASSUME NEW u \in Pinned, NEW s \in Slots
            PROVE  /\ <<"meta", s>> \in uses[u] => s \in metaProt
                   /\ <<"comp", s>> \in uses[u] =>
                         s \in compProt \/ (stage[u] = "cleared" /\ s = comp[u])
        BY DEF SInv, PinnedOK
      <3>3. ASSUME NEW u \in Pinned PROVE uses[t] \cap uses[u] = {}
        <4>1. comp[u] # comp[t]
          BY <1>3, <2>2, <3>3, NoneApart DEF SInv, PoolsOK
        <4>2. <<"comp", comp[t]>> \notin uses[u]
          BY <1>3, <3>2, <3>3, <4>1
        <4>3. meta[t] # None => <<"meta", meta[t]>> \notin uses[u]
          BY <1>3, <3>2, <3>3 DEF Optional
        <4> QED
          BY <1>3, <4>2, <4>3 DEF SlotsOf
      <3>4. \A u, v \in Pinned' : u # v => uses'[u] \cap uses'[v] = {}
        BY <1>1, <2>1, <2>4, <3>3 DEF SInv, PinnedOK
      <3>5. \A m \in metaProt' : \E u \in Pinned' : <<"meta", m>> \in uses'[u]
        <4>1. \A m \in metaProt : \E u \in Pinned : <<"meta", m>> \in uses[u]
          BY DEF SInv, PinnedOK
        <4>2. meta[t] # None => <<"meta", meta[t]>> \in uses[t]
          BY <1>3 DEF SlotsOf
        <4> QED
          BY <1>1, <1>4, <2>1, <2>4, <4>1, <4>2
      <3>6. \A u \in Pinned', s \in Slots :
              /\ <<"meta", s>> \in uses'[u] => s \in metaProt'
              /\ <<"comp", s>> \in uses'[u] =>
                    s \in compProt' \/ (stage'[u] = "cleared" /\ s = comp'[u])
        BY <1>1, <1>4, <2>1, <2>2, <2>4, <3>1, <3>2
      <3> QED
        BY <3>4, <3>5, <3>6 DEF PinnedOK
    <2> QED
      BY <2>3, <2>4
  <1>13. PoolsOK'
    <2>1. \A u \in Tasks \ {t} : meta[u] # None => meta[u] # meta[t]
      BY DEF SInv, PoolsOK
    <2>2. {meta'[u] : u \in {v \in Tasks : meta'[v] # None}}
             = {meta[u] : u \in {v \in Tasks : meta[v] # None}} \ {meta[t]}
      BY <1>4, <2>1
    <2>3. metaUse = metaProt \cup {meta[u] : u \in {v \in Tasks : meta[v] # None}}
      BY DEF SInv, PoolsOK
    <2>4. metaUse' = metaProt' \cup {meta'[u] : u \in {v \in Tasks : meta'[v] # None}}
      <3>1. meta[t] # None => meta[t] \in {meta[u] : u \in {v \in Tasks : meta[v] # None}}
        OBVIOUS
      <3>2. None \notin metaUse
        BY NoneApart DEF SInv, TypeOK
      <3> QED
        BY <1>3, <1>4, <2>2, <2>3, <3>1, <3>2
    <2>5. \A u \in Tasks : meta'[u] # None => meta'[u] \notin metaProt'
      BY <1>4, <2>1 DEF SInv, PoolsOK
    <2>6. \A u, v \in Tasks : u # v /\ meta'[u] # None => meta'[u] # meta'[v]
      BY <1>4 DEF SInv, PoolsOK
    <2> QED
      BY <1>1, <2>4, <2>5, <2>6 DEF SInv, PoolsOK
  <1>14. DrainOK'
    BY <1>1, <1>2, <1>3, <1>4, NoneApart DEF SInv, TypeOK, Optional, Stages,
       FenceStates, DrainOK, Settled
  <1>15. SettledOK'
    BY <1>1, <1>2, <1>3, <1>4, NoneApart DEF SInv, TypeOK, Optional, Stages,
       FenceStates, SettledOK, Native
  <1> QED
    BY <1>5, <1>6, <1>7, <1>8, <1>9, <1>10, <1>11, <1>12, <1>13, <1>14, <1>15 DEF SInv

(* fence_destroy gives back or protects the completion slot.                *)
LEMMA ReleaseCompStep ==
    ASSUME SInv, NEW t \in Tasks, stage[t] = "cleared", release_completion_slot(t,
           fence[t].proved), stage' = [stage EXCEPT ![t] = "destroyed"], UNCHANGED <<fence,
           nativeVars, settleVars, dtorVars>>
    PROVE  SInv'
  <1>1. /\ stage[t] = "cleared" /\ stage' = [stage EXCEPT ![t] = "destroyed"]
        /\ compUse' = GivenBack(compUse, comp[t], fence[t].proved)
        /\ compProt' = Protected(compProt, comp[t], fence[t].proved)
        /\ event' = IF fence[t].proved THEN [event EXCEPT ![comp[t]] = None] ELSE event
        /\ comp' = [comp EXCEPT ![t] = None]
        /\ UNCHANGED <<meta, fence, metaUse, metaProt, work, uses, cell, owners, lease,
                       token, dtor, drained>>
    BY DEF release_completion_slot, fenceVars, poolVars, nativeVars, settleVars,
       dtorVars
  <1>2. /\ comp[t] \in Slots /\ meta[t] = None /\ Native(t) /\ <<"comp", comp[t]>> \in uses[t]
        /\ comp[t] \notin compProt
    BY <1>1, NoneApart DEF SInv, TypeOK, Optional, HoldsOK, UsesOK, PoolsOK, Enqueued,
       Native
  <1>3. /\ stage'[t] = "destroyed" /\ comp'[t] = None
        /\ \A u \in Tasks \ {t} : stage'[u] = stage[u] /\ comp'[u] = comp[u]
        /\ IF fence[t].proved
           THEN /\ compUse' = compUse \ {comp[t]} /\ compProt' = compProt
                /\ event'[comp[t]] = None /\ \A c \in Slots \ {comp[t]} : event'[c] = event[c]
           ELSE compUse' = compUse /\ compProt' = compProt \cup {comp[t]} /\ event' = event
    BY <1>1, <1>2, NoneApart DEF SInv, TypeOK, GivenBack, Protected
  <1>4. TypeOK'
    <2>1. event' \in [Slots -> Optional(Tasks)]
      BY <1>1 DEF SInv, TypeOK, Optional
    <2> QED
      BY <1>1, <1>3, <2>1 DEF SInv, TypeOK, Optional, Stages
  <1>5. HoldsOK'
    BY <1>1, <1>2, <1>3, NoneApart DEF SInv, TypeOK, Optional, Stages, HoldsOK, Native,
       Described, Enqueued
  <1>6. FenceOK'
    BY <1>1, <1>2, <1>3, NoneApart DEF SInv, TypeOK, Optional, Stages, FenceStates,
       FenceOK, Native, Unlaunched, Over
  <1>7. CachedOK'
    BY <1>1, <1>2, <1>3, NoneApart DEF SInv, TypeOK, Optional, FenceStates, CachedOK
  <1>8. StatusOK'
    BY <1>1, <1>2, <1>3, NoneApart DEF SInv, TypeOK, Optional, FenceStates, StatusOK,
       Unlaunched
  <1>9. EventOK'
    <2>1. \A c \in Slots : event'[c] # None => event'[c] = event[c] /\ event[c] \in Tasks
      BY <1>3 DEF SInv, TypeOK, Optional
    <2>2. \A u \in Tasks \ {t} : comp[u] # None => comp[u] \in Slots /\ comp[u] # comp[t]
      BY <1>2, NoneApart DEF SInv, TypeOK, Optional, PoolsOK
    <2>3. \A c \in Slots : event'[c] # None =>
             /\ fence'[event'[c]].bound
             /\ stage'[event'[c]] \notin Unlaunched \cup {"launched", "bound"}
      BY <1>1, <1>3, <2>1 DEF SInv, EventOK, Unlaunched
    <2>4. \A u \in Tasks : fence'[u].bound /\ comp'[u] # None /\ stage'[u] # "bound" =>
             event'[comp'[u]] = u
      BY <1>1, <1>3, <2>2 DEF SInv, EventOK
    <2> QED
      BY <2>3, <2>4 DEF EventOK
  <1>10. UsesOK'
    <2>1. \A u \in Tasks \ {t} : UNCHANGED <<stage[u], comp[u], meta[u]>>
      BY <1>1 DEF SInv, TypeOK
    <2>2. stage'[t] = "destroyed"
      BY <1>1 DEF SInv, TypeOK
    <2>3. stage'[t] \in Enqueued /\ Native(t) => uses[t] = SlotsOf(t)'
      BY <1>1, <2>2 DEF SInv, UsesOK, SlotsOf, Enqueued
    <2> QED
      BY <1>1, <2>1, <2>2, <2>3, UsesFrame DEF SInv, Over, UsesOK, Over
  <1>11. PinnedOK'
    <2>1. Pinned' = Pinned
      BY <1>1, <1>3 DEF Pinned, Over, Native
    <2>2. \A u \in Pinned : u \in Tasks /\ (u = t => ~fence[t].proved)
      BY DEF Pinned
    <2>3. \A u \in Pinned, s \in Slots : <<"comp", s>> \in uses[u] =>
             s \in compProt' \/ (stage'[u] = "cleared" /\ s = comp'[u])
      <3>1. \A u \in Pinned, s \in Slots : <<"comp", s>> \in uses[u] =>
               s \in compProt \/ (stage[u] = "cleared" /\ s = comp[u])
        BY DEF SInv, PinnedOK
      <3>2. compProt \subseteq compProt'
        BY <1>3
      <3> QED
        BY <1>3, <2>2, <3>1, <3>2
    <2> QED
      BY <1>1, <2>1, <2>3 DEF SInv, PinnedOK
  <1>12. PoolsOK'
    <2>1. \A u \in Tasks \ {t} : comp[u] # None => comp[u] # comp[t]
      BY DEF SInv, PoolsOK
    <2>2. {comp'[u] : u \in {v \in Tasks : comp'[v] # None}}
             = {comp[u] : u \in {v \in Tasks : comp[v] # None}} \ {comp[t]}
      BY <1>3, <2>1
    <2>3. compUse = compProt \cup {comp[u] : u \in {v \in Tasks : comp[v] # None}}
      BY DEF SInv, PoolsOK
    <2>4. comp[t] \in {comp[u] : u \in {v \in Tasks : comp[v] # None}}
      BY <1>2, NoneApart
    <2>5. compUse' = compProt' \cup {comp'[u] : u \in {v \in Tasks : comp'[v] # None}}
      BY <1>2, <1>3, <2>2, <2>3, <2>4
    <2>6. \A u \in Tasks : comp'[u] # None => comp'[u] \notin compProt'
      BY <1>3, <2>1 DEF SInv, PoolsOK
    <2>7. \A u, v \in Tasks : u # v /\ comp'[u] # None => comp'[u] # comp'[v]
      BY <1>3 DEF SInv, PoolsOK
    <2> QED
      BY <1>1, <2>5, <2>6, <2>7 DEF SInv, PoolsOK
  <1>13. DrainOK'
    BY <1>1, <1>2, <1>3, NoneApart DEF SInv, TypeOK, Optional, Stages, FenceStates,
       DrainOK, Settled
  <1>14. SettledOK'
    BY <1>1, <1>2, <1>3, NoneApart DEF SInv, TypeOK, Optional, Stages, FenceStates,
       SettledOK, Native
  <1> QED
    BY <1>4, <1>5, <1>6, <1>7, <1>8, <1>9, <1>10, <1>11, <1>12, <1>13, <1>14 DEF SInv

(* complete_task settles owners, lease and token.                           *)
LEMMA CompleteStep ==
    ASSUME SInv, NEW t \in Tasks, complete_task(t)
    PROVE  SInv'
  <1>1. /\ stage[t] = "destroyed" /\ result(t) /\ stage' = [stage EXCEPT ![t] = "done"]
        /\ owners' = [owners EXCEPT ![t] = IF FenceSucceeded(t) THEN "released" ELSE "invalidated"]
        /\ lease' = [lease EXCEPT ![t] = IF lease[t] = "held" /\ fence[t].proved THEN "returned"
                                         ELSE lease[t]]
        /\ token' = [token EXCEPT ![t] = IF ResultValue(t) = "success" THEN "ok" ELSE "failed"]
        /\ UNCHANGED <<comp, meta, compUse, compProt, metaUse, metaProt, event, work, uses,
                       cell, dtor, drained>>
    BY DEF complete_task, SInv, TypeOK, fenceVars, poolVars, nativeVars, settleVars,
       dtorVars
  <1>2. /\ fence' \in [Tasks -> FenceStates]
        /\ \A u \in Tasks \ {t} : fence'[u] = fence[u]
        /\ fence'[t] = AfterResult(t)
        /\ fence'[t].bound = fence[t].bound /\ fence'[t].retained = fence[t].retained
        /\ \/ /\ fence'[t].cached = fence[t].cached /\ fence'[t].action = fence[t].action
              /\ fence'[t].proved = fence[t].proved
              /\ fence[t].cached # "none" \/ ~Observed(t)
           \/ /\ fence[t].cached = "none" /\ fence[t].bound /\ Observed(t)
              /\ stage[t] \in {"ended", "published", "popped", "waited"}
              /\ work[t] \in {"done", "error"} /\ (fence'[t].action => fence[t].action)
              /\ fence'[t].cached = IF work[t] = "done" /\ t \notin OutOfRange
                                    THEN "success" ELSE "failed"
    <2>1. ResultReady(t) /\ fence' = [fence EXCEPT ![t] = AfterResult(t)]
      BY <1>1 DEF result
    <2>2. \/ fence[t].cached # "none" \/ Observed(t) \/ ~(fence[t].action /\ fence[t].bound)
      BY <1>1 DEF SInv, HoldsOK, FenceOK, Over, Unlaunched, Native
    <2>3. fence \in [Tasks -> FenceStates]
      BY DEF SInv, TypeOK
    <2> QED
      BY <2>1, <2>2, <2>3, ResultEffect
  <1>3. fence[t].cached = "none" =>
          ResultValue(t) = IF fence[t].retained THEN "failed" ELSE "success" 
    <2>1. comp[t] = None
      BY <1>1 DEF SInv, HoldsOK, Enqueued
    <2>2. ResultReady(t) /\ ~Observed(t)
      BY <1>1, <2>1 DEF result, Observed
    <2>3. fence[t].cached = "none" => ~(fence[t].action /\ fence[t].bound)
      BY <1>1 DEF SInv, FenceOK, Over, Unlaunched
    <2> QED
      BY <2>2, <2>3, ResultEffect
  <1>4. TypeOK'
    BY <1>1, <1>2, <1>3, NoneApart DEF SInv, TypeOK, Optional, Stages, FenceStates
  <1>5. HoldsOK'
    BY <1>1, <1>2, <1>3, NoneApart DEF SInv, TypeOK, Optional, Stages, HoldsOK, Native,
       Described, Enqueued
  <1>6. FenceOK'
    BY <1>1, <1>2, <1>3, NoneApart DEF SInv, TypeOK, Optional, Stages, FenceStates,
       FenceOK, Native, Unlaunched, Over
  <1>7. CachedOK'
    BY <1>1, <1>2, <1>3, NoneApart DEF SInv, TypeOK, Optional, FenceStates, CachedOK
  <1>8. StatusOK'
    BY <1>1, <1>2, <1>3, NoneApart DEF SInv, TypeOK, Optional, FenceStates, StatusOK,
       Unlaunched
  <1>9. EventOK'
    BY <1>1, <1>2, <1>3, NoneApart DEF SInv, TypeOK, Optional, FenceStates, EventOK,
       Unlaunched
  <1>10. UsesOK'
    <2>1. \A u \in Tasks \ {t} : UNCHANGED <<stage[u], comp[u], meta[u]>>
      BY <1>1 DEF SInv, TypeOK
    <2>2. stage'[t] = "done"
      BY <1>1 DEF SInv, TypeOK
    <2>3. stage'[t] \in Enqueued /\ Native(t) => uses[t] = SlotsOf(t)'
      BY <1>1, <2>2 DEF SInv, UsesOK, SlotsOf, Enqueued
    <2> QED
      BY <1>1, <2>1, <2>2, <2>3, UsesFrame DEF SInv, Over, UsesOK, Over
  <1>11. PinnedOK'
    BY <1>1, <1>2, <1>3, NoneApart DEF SInv, TypeOK, Optional, PinnedOK, Pinned, Native,
       Over
  <1>12. PoolsOK'
    BY <1>1, <1>2, <1>3, NoneApart DEF SInv, TypeOK, Optional, PoolsOK
  <1>13. DrainOK'
    BY <1>1, <1>2, <1>3, NoneApart DEF SInv, TypeOK, Optional, Stages, FenceStates,
       DrainOK, Settled
  <1>14. SettledOK'
    <2>1. \A u \in Tasks \ {t} : /\ stage'[u] = stage[u] /\ owners'[u] = owners[u]
                                 /\ lease'[u] = lease[u] /\ token'[u] = token[u]
      BY <1>1 DEF SInv, TypeOK
    <2>2. /\ stage'[t] = "done"
          /\ owners'[t] = IF FenceSucceeded(t) THEN "released" ELSE "invalidated"
          /\ lease'[t] = "returned" => lease[t] = "returned" \/ fence[t].proved
          /\ token'[t] = IF ResultValue(t) = "success" THEN "ok" ELSE "failed"
      BY <1>1 DEF SInv, TypeOK
    <2>3. fence[t].cached = "none" =>
             /\ fence[t].retained \/ ~Native(t)
             /\ ResultValue(t) = IF fence[t].retained THEN "failed" ELSE "success"
      BY <1>1, <1>3 DEF SInv, FenceOK, Over
    <2>4. fence[t].cached # "none" => ResultValue(t) = fence[t].cached
      BY DEF ResultValue
    <2>5. ~Native(t) => work[t] = "none" /\ ~fence[t].retained /\ fence[t].cached = "none"
      BY DEF SInv, FenceOK
    <2>6. fence[t].retained => fence[t].cached = "none" /\ ~fence[t].proved
      BY DEF SInv, FenceOK
    <2>7. fence[t].proved => work[t] # "running"
      BY <2>3, <2>5, <2>6 DEF SInv, CachedOK
    <2>8. ResultValue(t) = "success" => /\ work[t] # "running" /\ ~fence[t].retained
                                        /\ Native(t) => work[t] = "done" /\ t \notin OutOfRange
      BY <2>3, <2>4, <2>5, <2>6 DEF SInv, CachedOK
    <2>9. ResultValue(t) # "success" => work[t] = "error" \/ fence[t].retained \/ t \in OutOfRange
      BY <2>3, <2>4 DEF SInv, CachedOK, TypeOK, FenceStates
    <2>10. FenceSucceeded(t) => work[t] # "running"
      BY <2>7, <2>8 DEF FenceSucceeded
    <2>11. lease'[t] = "returned" => work[t] # "running"
      BY <1>1, <2>2, <2>7 DEF SInv, SettledOK
    <2>12. \A u \in Tasks : fence'[u].retained = fence[u].retained
      BY <1>2
    <2> QED
      BY <1>1, <2>1, <2>2, <2>8, <2>9, <2>10, <2>11, <2>12 DEF SInv, SettledOK, Native
  <1> QED
    BY <1>4, <1>5, <1>6, <1>7, <1>8, <1>9, <1>10, <1>11, <1>12, <1>13, <1>14 DEF SInv

(* The covering wait of the destructor.                                     *)
LEMMA CoveringWaitStep ==
    ASSUME SInv, CoveringWait
    PROVE  SInv'
  <1>1. /\ dtor = "open" /\ dtor' = "waited" /\ drained' \in BOOLEAN
        /\ drained' => \A t \in Tasks : work[t] # "running"
        /\ UNCHANGED <<stage, comp, meta, fence, compUse, compProt, metaUse, metaProt,
                       event, work, uses, cell, owners, lease, token>>
    BY DEF CoveringWait, fenceVars, poolVars, nativeVars, settleVars, dtorVars
  <1>2. TypeOK'
    BY <1>1, NoneApart DEF SInv, TypeOK, Optional, Stages, FenceStates
  <1>3. HoldsOK'
    BY <1>1, NoneApart DEF SInv, TypeOK, Optional, Stages, HoldsOK, Native, Described,
       Enqueued
  <1>4. FenceOK'
    BY <1>1, NoneApart DEF SInv, TypeOK, Optional, Stages, FenceStates, FenceOK, Native,
       Unlaunched, Over
  <1>5. CachedOK'
    BY <1>1, NoneApart DEF SInv, TypeOK, Optional, FenceStates, CachedOK
  <1>6. StatusOK'
    BY <1>1, NoneApart DEF SInv, TypeOK, Optional, FenceStates, StatusOK, Unlaunched
  <1>7. EventOK'
    BY <1>1, NoneApart DEF SInv, TypeOK, Optional, FenceStates, EventOK, Unlaunched
  <1>8. UsesOK'
    BY <1>1, NoneApart DEF SInv, TypeOK, Optional, UsesOK, Native, Enqueued, Over,
       SlotsOf
  <1>9. PinnedOK'
    BY <1>1, NoneApart DEF SInv, TypeOK, Optional, PinnedOK, Pinned, Native, Over
  <1>10. PoolsOK'
    BY <1>1, NoneApart DEF SInv, TypeOK, Optional, PoolsOK
  <1>11. DrainOK'
    BY <1>1, NoneApart DEF SInv, TypeOK, Optional, Stages, FenceStates, DrainOK, Settled
  <1>12. SettledOK'
    BY <1>1, NoneApart DEF SInv, TypeOK, Optional, Stages, FenceStates, SettledOK,
       Native
  <1> QED
    BY <1>2, <1>3, <1>4, <1>5, <1>6, <1>7, <1>8, <1>9, <1>10, <1>11, <1>12 DEF SInv

(* The worker is told to empty its list.                                    *)
LEMMA ShutdownStep ==
    ASSUME SInv, Shutdown
    PROVE  SInv'
  <1>1. /\ dtor = "waited" /\ dtor' = "shutdown"
        /\ UNCHANGED <<stage, comp, meta, fence, compUse, compProt, metaUse, metaProt,
                       event, work, uses, cell, owners, lease, token, drained>>
    BY DEF Shutdown, fenceVars, poolVars, nativeVars, settleVars, dtorVars
  <1>2. TypeOK'
    BY <1>1, NoneApart DEF SInv, TypeOK, Optional, Stages, FenceStates
  <1>3. HoldsOK'
    BY <1>1, NoneApart DEF SInv, TypeOK, Optional, Stages, HoldsOK, Native, Described,
       Enqueued
  <1>4. FenceOK'
    BY <1>1, NoneApart DEF SInv, TypeOK, Optional, Stages, FenceStates, FenceOK, Native,
       Unlaunched, Over
  <1>5. CachedOK'
    BY <1>1, NoneApart DEF SInv, TypeOK, Optional, FenceStates, CachedOK
  <1>6. StatusOK'
    BY <1>1, NoneApart DEF SInv, TypeOK, Optional, FenceStates, StatusOK, Unlaunched
  <1>7. EventOK'
    BY <1>1, NoneApart DEF SInv, TypeOK, Optional, FenceStates, EventOK, Unlaunched
  <1>8. UsesOK'
    BY <1>1, NoneApart DEF SInv, TypeOK, Optional, UsesOK, Native, Enqueued, Over,
       SlotsOf
  <1>9. PinnedOK'
    BY <1>1, NoneApart DEF SInv, TypeOK, Optional, PinnedOK, Pinned, Native, Over
  <1>10. PoolsOK'
    BY <1>1, NoneApart DEF SInv, TypeOK, Optional, PoolsOK
  <1>11. DrainOK'
    BY <1>1, NoneApart DEF SInv, TypeOK, Optional, Stages, FenceStates, DrainOK, Settled
  <1>12. SettledOK'
    BY <1>1, NoneApart DEF SInv, TypeOK, Optional, Stages, FenceStates, SettledOK,
       Native
  <1> QED
    BY <1>2, <1>3, <1>4, <1>5, <1>6, <1>7, <1>8, <1>9, <1>10, <1>11, <1>12 DEF SInv

(* A drained queue returns its partition.                                   *)
LEMMA ReturnPartitionStep ==
    ASSUME SInv, ReturnPartition
    PROVE  SInv'
  <1>1. /\ dtor = "shutdown" /\ dtor' = "returned" /\ Settled /\ (drained \/ compUse = {})
        /\ compUse' = compUse \ compProt /\ compProt' = {}
        /\ metaUse' = metaUse \ metaProt /\ metaProt' = {}
        /\ event' = [c \in Slots |-> IF c \in compProt THEN None ELSE event[c]]
        /\ UNCHANGED <<stage, comp, meta, fence, work, uses, cell, owners, lease, token,
                       drained>>
    BY DEF ReturnPartition, UnprovenLeases, fenceVars, poolVars, nativeVars, settleVars,
       dtorVars
  <1>2. TypeOK'
    BY <1>1, NoneApart DEF SInv, TypeOK, Optional, Stages, FenceStates
  <1>3. HoldsOK'
    BY <1>1, NoneApart DEF SInv, TypeOK, Optional, Stages, HoldsOK, Native, Described,
       Enqueued
  <1>4. FenceOK'
    BY <1>1, NoneApart DEF SInv, TypeOK, Optional, Stages, FenceStates, FenceOK, Native,
       Unlaunched, Over
  <1>5. CachedOK'
    BY <1>1, NoneApart DEF SInv, TypeOK, Optional, FenceStates, CachedOK
  <1>6. StatusOK'
    BY <1>1, NoneApart DEF SInv, TypeOK, Optional, FenceStates, StatusOK, Unlaunched
  <1>7. EventOK'
    <2>1. \A c \in Slots : event'[c] # None => event'[c] = event[c]
      BY <1>1
    <2>2. \A t \in Tasks : comp[t] = None
      BY <1>1 DEF SInv, HoldsOK, Settled, Enqueued
    <2> QED
      BY <1>1, <2>1, <2>2 DEF SInv, EventOK
  <1>8. UsesOK'
    BY <1>1, NoneApart DEF SInv, TypeOK, Optional, UsesOK, Native, Enqueued, Over,
       SlotsOf
  <1>9. PinnedOK'
    BY <1>1, NoneApart DEF SInv, TypeOK, Optional, PinnedOK, Pinned, Native, Over
  <1>10. PoolsOK'
    BY <1>1, NoneApart DEF SInv, TypeOK, Optional, PoolsOK
  <1>11. DrainOK'
    <2>1. ASSUME NEW t \in Tasks, work[t] = "running"
          PROVE  FALSE
      <3>1. stage[t] = "done" /\ Native(t) /\ fence[t].cached = "none"
        BY <1>1, <2>1 DEF SInv, FenceOK, CachedOK, Settled, Unlaunched
      <3>2. fence[t].retained /\ ~fence[t].proved
        BY <3>1 DEF SInv, FenceOK, Over
      <3>3. t \in Pinned /\ ~drained
        BY <1>1, <2>1, <3>1, <3>2 DEF SInv, DrainOK, Pinned, Over
      <3>4. PICK c \in Slots : <<"comp", c>> \in uses[t]
        BY <3>1 DEF SInv, UsesOK, Over
      <3>5. c \in compUse
        BY <3>1, <3>3, <3>4 DEF SInv, PinnedOK, PoolsOK
      <3> QED
        BY <1>1, <3>3, <3>5
    <2> QED
      BY <1>1, <2>1 DEF SInv, DrainOK, Settled
  <1>12. SettledOK'
    BY <1>1, NoneApart DEF SInv, TypeOK, Optional, Stages, FenceStates, SettledOK,
       Native
  <1> QED
    BY <1>2, <1>3, <1>4, <1>5, <1>6, <1>7, <1>8, <1>9, <1>10, <1>11, <1>12 DEF SInv

(* An undrained queue leaves its lease with the device.                     *)
LEMMA RetainLeaseStep ==
    ASSUME SInv, RetainLease
    PROVE  SInv'
  <1>1. /\ dtor = "shutdown" /\ dtor' = "retained" /\ Settled
        /\ UNCHANGED <<stage, comp, meta, fence, compUse, compProt, metaUse, metaProt,
                       event, work, uses, cell, owners, lease, token, drained>>
    BY DEF RetainLease, fenceVars, poolVars, nativeVars, settleVars, dtorVars
  <1>2. TypeOK'
    BY <1>1, NoneApart DEF SInv, TypeOK, Optional, Stages, FenceStates
  <1>3. HoldsOK'
    BY <1>1, NoneApart DEF SInv, TypeOK, Optional, Stages, HoldsOK, Native, Described,
       Enqueued
  <1>4. FenceOK'
    BY <1>1, NoneApart DEF SInv, TypeOK, Optional, Stages, FenceStates, FenceOK, Native,
       Unlaunched, Over
  <1>5. CachedOK'
    BY <1>1, NoneApart DEF SInv, TypeOK, Optional, FenceStates, CachedOK
  <1>6. StatusOK'
    BY <1>1, NoneApart DEF SInv, TypeOK, Optional, FenceStates, StatusOK, Unlaunched
  <1>7. EventOK'
    BY <1>1, NoneApart DEF SInv, TypeOK, Optional, FenceStates, EventOK, Unlaunched
  <1>8. UsesOK'
    BY <1>1, NoneApart DEF SInv, TypeOK, Optional, UsesOK, Native, Enqueued, Over,
       SlotsOf
  <1>9. PinnedOK'
    BY <1>1, NoneApart DEF SInv, TypeOK, Optional, PinnedOK, Pinned, Native, Over
  <1>10. PoolsOK'
    BY <1>1, NoneApart DEF SInv, TypeOK, Optional, PoolsOK
  <1>11. DrainOK'
    BY <1>1, NoneApart DEF SInv, TypeOK, Optional, Stages, FenceStates, DrainOK, Settled
  <1>12. SettledOK'
    BY <1>1, NoneApart DEF SInv, TypeOK, Optional, Stages, FenceStates, SettledOK,
       Native
  <1> QED
    BY <1>2, <1>3, <1>4, <1>5, <1>6, <1>7, <1>8, <1>9, <1>10, <1>11, <1>12 DEF SInv

(* The device proves the retained lease later.                              *)
LEMMA ReclaimStep ==
    ASSUME SInv, Reclaim
    PROVE  SInv'
  <1>1. /\ dtor = "retained" /\ dtor' = "returned" /\ \A t \in Tasks : work[t] # "running"
        /\ compUse' = compUse \ compProt /\ compProt' = {}
        /\ metaUse' = metaUse \ metaProt /\ metaProt' = {}
        /\ event' = [c \in Slots |-> None]
        /\ UNCHANGED <<stage, comp, meta, fence, work, uses, cell, owners, lease, token,
                       drained>>
    BY DEF Reclaim, fenceVars, poolVars, nativeVars, settleVars, dtorVars
  <1>2. TypeOK'
    BY <1>1, NoneApart DEF SInv, TypeOK, Optional, Stages, FenceStates
  <1>3. HoldsOK'
    BY <1>1, NoneApart DEF SInv, TypeOK, Optional, Stages, HoldsOK, Native, Described,
       Enqueued
  <1>4. FenceOK'
    BY <1>1, NoneApart DEF SInv, TypeOK, Optional, Stages, FenceStates, FenceOK, Native,
       Unlaunched, Over
  <1>5. CachedOK'
    BY <1>1, NoneApart DEF SInv, TypeOK, Optional, FenceStates, CachedOK
  <1>6. StatusOK'
    BY <1>1, NoneApart DEF SInv, TypeOK, Optional, FenceStates, StatusOK, Unlaunched
  <1>7. EventOK'
    <2>1. \A t \in Tasks : comp[t] = None
      BY <1>1 DEF SInv, HoldsOK, DrainOK, Settled, Enqueued
    <2> QED
      BY <1>1, <2>1 DEF EventOK
  <1>8. UsesOK'
    BY <1>1, NoneApart DEF SInv, TypeOK, Optional, UsesOK, Native, Enqueued, Over,
       SlotsOf
  <1>9. PinnedOK'
    BY <1>1, NoneApart DEF SInv, TypeOK, Optional, PinnedOK, Pinned, Native, Over
  <1>10. PoolsOK'
    BY <1>1, NoneApart DEF SInv, TypeOK, Optional, PoolsOK
  <1>11. DrainOK'
    BY <1>1, NoneApart DEF SInv, TypeOK, Optional, Stages, FenceStates, DrainOK, Settled
  <1>12. SettledOK'
    BY <1>1, NoneApart DEF SInv, TypeOK, Optional, Stages, FenceStates, SettledOK,
       Native
  <1> QED
    BY <1>2, <1>3, <1>4, <1>5, <1>6, <1>7, <1>8, <1>9, <1>10, <1>11, <1>12 DEF SInv

(* Nothing moves.                                                           *)
LEMMA StutterStep ==
    ASSUME SInv, UNCHANGED vars
    PROVE  SInv'
  <1>1. UNCHANGED <<stage, comp, meta, fence, compUse, compProt, metaUse, metaProt, event,
                    work, uses, cell, owners, lease, token, dtor, drained>>
    BY DEF vars, fenceVars, poolVars, nativeVars, settleVars, dtorVars
  <1>2. TypeOK'
    BY <1>1, NoneApart DEF SInv, TypeOK, Optional, Stages, FenceStates
  <1>3. HoldsOK'
    BY <1>1, NoneApart DEF SInv, TypeOK, Optional, Stages, HoldsOK, Native, Described,
       Enqueued
  <1>4. FenceOK'
    BY <1>1, NoneApart DEF SInv, TypeOK, Optional, Stages, FenceStates, FenceOK, Native,
       Unlaunched, Over
  <1>5. CachedOK'
    BY <1>1, NoneApart DEF SInv, TypeOK, Optional, FenceStates, CachedOK
  <1>6. StatusOK'
    BY <1>1, NoneApart DEF SInv, TypeOK, Optional, FenceStates, StatusOK, Unlaunched
  <1>7. EventOK'
    BY <1>1, NoneApart DEF SInv, TypeOK, Optional, FenceStates, EventOK, Unlaunched
  <1>8. UsesOK'
    BY <1>1, NoneApart DEF SInv, TypeOK, Optional, UsesOK, Native, Enqueued, Over,
       SlotsOf
  <1>9. PinnedOK'
    BY <1>1, NoneApart DEF SInv, TypeOK, Optional, PinnedOK, Pinned, Native, Over
  <1>10. PoolsOK'
    BY <1>1, NoneApart DEF SInv, TypeOK, Optional, PoolsOK
  <1>11. DrainOK'
    BY <1>1, NoneApart DEF SInv, TypeOK, Optional, Stages, FenceStates, DrainOK, Settled
  <1>12. SettledOK'
    BY <1>1, NoneApart DEF SInv, TypeOK, Optional, Stages, FenceStates, SettledOK,
       Native
  <1> QED
    BY <1>2, <1>3, <1>4, <1>5, <1>6, <1>7, <1>8, <1>9, <1>10, <1>11, <1>12 DEF SInv

--------------------------------------------------------------------------------
(* The completion slot behind a metadata slot: of the task that holds both, *)
(* or of the task that ended without proof and protects both.               *)
Behind(t, m, c) ==
    \/ meta[t] = m /\ comp[t] = c
    \/ t \in Pinned /\ <<"meta", m>> \in uses[t] /\ <<"comp", c>> \in uses[t]

(* Every metadata slot in use has its own completion slot behind it, since  *)
(* a dispatch takes the completion slot first and fence_destroy gives the   *)
(* metadata slot back first.                                                *)
LEMMA MetaNeedsComp ==
    ASSUME SInv, NEW X, IsFiniteSet(X),
           \A t \in Tasks, m \in metaUse, c \in compUse : Behind(t, m, c) => c \in X
    PROVE  Cardinality(metaUse) <= Cardinality(X)
  <1>1. ASSUME NEW m \in metaUse PROVE \E c \in compUse, t \in Tasks : Behind(t, m, c)
    <2>1. m \in Slots /\ m # None
      BY NoneApart DEF SInv, TypeOK
    <2>2. CASE m \in metaProt
      <3>1. PICK t \in Pinned : <<"meta", m>> \in uses[t]
        BY <2>2 DEF SInv, PinnedOK
      <3>2. PICK c \in Slots : <<"comp", c>> \in uses[t]
        BY DEF SInv, UsesOK, Pinned
      <3>3. t \in Tasks /\ (c \in compProt \/ (stage[t] = "cleared" /\ c = comp[t]))
        BY <3>2 DEF SInv, PinnedOK, Pinned
      <3>4. c \in compUse
        BY <3>2, <3>3, NoneApart DEF SInv, PoolsOK
      <3> QED
        BY <3>1, <3>2, <3>3, <3>4 DEF Behind
    <2>3. CASE m \notin metaProt
      <3>1. PICK t \in Tasks : meta[t] = m
        BY <2>3 DEF SInv, PoolsOK
      <3>2. comp[t] # None
        BY <2>1, <3>1 DEF SInv, HoldsOK, Described, Native
      <3>3. comp[t] \in compUse
        BY <3>2 DEF SInv, PoolsOK
      <3> QED
        BY <3>1, <3>3 DEF Behind
    <2> QED
      BY <2>2, <2>3
  <1>2. ASSUME NEW m \in metaUse, NEW n \in metaUse, NEW c \in compUse,
               NEW t \in Tasks, NEW u \in Tasks, Behind(t, m, c), Behind(u, n, c)
        PROVE  m = n
    <2>1. m \in Slots /\ n \in Slots /\ c \in Slots /\ m # None /\ n # None /\ c # None
      BY NoneApart DEF SInv, TypeOK
    <2>2. ASSUME NEW a \in Tasks, NEW b \in Slots, a \in Pinned, meta[a] = b
          PROVE  FALSE
      BY <2>2, NoneApart DEF SInv, HoldsOK, Pinned, Over, Enqueued
    <2>3. ASSUME NEW a \in Tasks, NEW b \in Tasks, comp[a] = c, meta[a] # None,
                 b \in Pinned, <<"comp", c>> \in uses[b]
          PROVE  FALSE
      <3>1. c \notin compProt
        BY <2>1, <2>3 DEF SInv, PoolsOK
      <3>2. comp[b] = c /\ stage[b] = "cleared"
        BY <2>1, <2>3, <3>1 DEF SInv, PinnedOK
      <3>3. a = b
        BY <2>1, <2>3, <3>2 DEF SInv, PoolsOK
      <3> QED
        BY <2>3, <3>2, <3>3 DEF SInv, HoldsOK, Enqueued
    <2>4. CASE meta[t] = m /\ comp[t] = c /\ meta[u] = n /\ comp[u] = c
      BY <2>1, <2>4 DEF SInv, PoolsOK
    <2>5. CASE /\ t \in Pinned /\ <<"meta", m>> \in uses[t] /\ <<"comp", c>> \in uses[t]
               /\ u \in Pinned /\ <<"meta", n>> \in uses[u] /\ <<"comp", c>> \in uses[u]
      <3>1. t = u
        BY <2>5 DEF SInv, PinnedOK
      <3> QED
        BY <2>1, <2>5, <3>1 DEF SInv, UsesOK
    <2> QED
      BY <1>2, <2>1, <2>3, <2>4, <2>5 DEF Behind
  <1> DEFINE f == [m \in metaUse |-> CHOOSE c \in compUse : \E t \in Tasks : Behind(t, m, c)]
  <1>3. ASSUME NEW m \in metaUse PROVE f[m] \in compUse /\ \E t \in Tasks : Behind(t, m, f[m])
    BY <1>1
  <1>4. f \in [metaUse -> X]
    BY <1>3
  <1>5. \A m, n \in metaUse : f[m] = f[n] => m = n
    BY <1>2, <1>3
  <1> HIDE DEF f
  <1>6. f \in Injection(metaUse, X)
    BY <1>4, <1>5 DEF Injection, IsInjective
  <1> QED
    BY <1>6, FS_Injection

(* A dispatch that has its completion slot finds a metadata slot. *)
LEMMA MetaAvailable ==
    ASSUME SInv, NEW t \in Tasks, stage[t] = "slotted"
    PROVE  metaUse # Slots
  <1>1. comp[t] \in Slots /\ comp[t] \in compUse /\ comp[t] \notin compProt /\ meta[t] = None
    <2>1. Native(t) /\ comp[t] # None /\ meta[t] = None
      BY DEF SInv, HoldsOK, Enqueued
    <2> QED
      BY <2>1 DEF SInv, TypeOK, Optional, PoolsOK
  <1>2. IsFiniteSet(compUse) /\ IsFiniteSet(Slots) /\ Cardinality(compUse) <= Cardinality(Slots)
    BY SyclQueueAssumption, FS_Subset DEF SInv, TypeOK
  <1>3. IsFiniteSet(compUse \ {comp[t]})
        /\ Cardinality(compUse \ {comp[t]}) = Cardinality(compUse) - 1
    BY <1>1, <1>2, FS_RemoveElement
  <1>4. ASSUME NEW u \in Tasks, NEW m \in metaUse, NEW c \in compUse, Behind(u, m, c)
        PROVE  c # comp[t]
    <2>1. m # None /\ c \in Slots /\ c # None
      BY NoneApart DEF SInv, TypeOK
    <2>2. CASE meta[u] = m /\ comp[u] = c
      BY <1>1, <2>1, <2>2 DEF SInv, PoolsOK
    <2>3. CASE u \in Pinned /\ <<"comp", c>> \in uses[u]
      <3>1. c \in compProt \/ (stage[u] = "cleared" /\ c = comp[u])
        BY <2>1, <2>3 DEF SInv, PinnedOK
      <3> QED
        BY <1>1, <2>1, <3>1 DEF SInv, PoolsOK
    <2> QED
      BY <1>4, <2>2, <2>3 DEF Behind
  <1>5. Cardinality(metaUse) <= Cardinality(compUse \ {comp[t]})
    BY <1>3, <1>4, MetaNeedsComp
  <1>6. Cardinality(compUse) \in Nat /\ Cardinality(Slots) \in Nat
    BY <1>2, FS_CardinalityType
  <1> QED
    BY <1>2, <1>3, <1>5, <1>6

(* A binary allocates its staging.                                          *)
LEMMA StageStep ==
    ASSUME SInv, NEW t \in Tasks, stage[t] = "slotted", Kind[t] = "binary", Prepare(t)
    PROVE  SInv'
  <1>1. /\ stage[t] = "slotted" /\ stage' = [stage EXCEPT ![t] = "described"]
        /\ fence' = [fence EXCEPT ![t].cleanup = TRUE]
        /\ UNCHANGED <<comp, meta, compUse, compProt, metaUse, metaProt, event, work, uses,
                       cell, owners, lease, token, dtor, drained>>
    BY DEF Prepare, fenceVars, poolVars, nativeVars, settleVars, dtorVars
  <1>2. /\ fence' \in [Tasks -> FenceStates]
        /\ \A u \in Tasks \ {t} : fence'[u] = fence[u]
        /\ fence'[t].bound = fence[t].bound /\ fence'[t].proved = fence[t].proved
        /\ fence'[t].retained = fence[t].retained /\ fence'[t].cached = fence[t].cached
        /\ fence'[t].action = fence[t].action
    <2>1. fence \in [Tasks -> FenceStates]
      BY DEF SInv, TypeOK
    <2>2. fence' \in [Tasks -> FenceStates] /\ \A u \in Tasks \ {t} : fence'[u] = fence[u]
      BY <1>1, <2>1 DEF FenceStates
    <2>3. /\ fence'[t].bound = fence[t].bound /\ fence'[t].proved = fence[t].proved
          /\ fence'[t].retained = fence[t].retained /\ fence'[t].cached = fence[t].cached
          /\ fence'[t].action = fence[t].action
      BY <1>1, <2>1 DEF FenceStates
    <2> QED
      BY <2>2, <2>3
  <1>3. /\ work[t] = "none" /\ uses[t] = {} /\ comp[t] # None /\ meta[t] = None /\ Native(t)
        /\ fence[t].cached = "none" /\ ~fence[t].bound /\ ~fence[t].retained /\ ~fence[t].action
    BY <1>1 DEF SInv, FenceOK, HoldsOK, Unlaunched, Enqueued, Described
  <1>4. TypeOK'
    BY <1>1, <1>2, <1>3, NoneApart DEF SInv, TypeOK, Optional, Stages, FenceStates
  <1>5. HoldsOK'
    BY <1>1, <1>2, <1>3, NoneApart DEF SInv, TypeOK, Optional, Stages, HoldsOK, Native,
       Described, Enqueued
  <1>6. FenceOK'
    BY <1>1, <1>2, <1>3, NoneApart DEF SInv, TypeOK, Optional, Stages, FenceStates,
       FenceOK, Native, Unlaunched, Over
  <1>7. CachedOK'
    BY <1>1, <1>2, <1>3, NoneApart DEF SInv, TypeOK, Optional, FenceStates, CachedOK
  <1>8. StatusOK'
    BY <1>1, <1>2, <1>3, NoneApart DEF SInv, TypeOK, Optional, FenceStates, StatusOK,
       Unlaunched
  <1>9. EventOK'
    BY <1>1, <1>2, <1>3, NoneApart DEF SInv, TypeOK, Optional, FenceStates, EventOK,
       Unlaunched
  <1>10. UsesOK'
    <2>1. \A u \in Tasks \ {t} : UNCHANGED <<stage[u], comp[u], meta[u]>>
      BY <1>1 DEF SInv, TypeOK
    <2>2. stage'[t] = "described"
      BY <1>1 DEF SInv, TypeOK
    <2> QED
      BY <1>1, <2>1, <2>2, UsesFrame DEF SInv, Over, Enqueued
  <1>11. PinnedOK'
    BY <1>1, <1>2, <1>3, NoneApart DEF SInv, TypeOK, Optional, PinnedOK, Pinned, Native,
       Over
  <1>12. PoolsOK'
    BY <1>1, <1>2, <1>3, NoneApart DEF SInv, TypeOK, Optional, PoolsOK
  <1>13. DrainOK'
    BY <1>1, <1>2, <1>3, NoneApart DEF SInv, TypeOK, Optional, Stages, FenceStates,
       DrainOK, Settled
  <1>14. SettledOK'
    BY <1>1, <1>2, <1>3, NoneApart DEF SInv, TypeOK, Optional, Stages, FenceStates,
       SettledOK, Native
  <1> QED
    BY <1>4, <1>5, <1>6, <1>7, <1>8, <1>9, <1>10, <1>11, <1>12, <1>13, <1>14 DEF SInv

(* The other operations take a metadata slot.                               *)
LEMMA DescribeStep ==
    ASSUME SInv, NEW t \in Tasks, stage[t] = "slotted", Kind[t] # "binary", Prepare(t)
    PROVE  SInv'
  <1>1. PICK m \in Slots \ metaUse :
          /\ stage[t] = "slotted" /\ stage' = [stage EXCEPT ![t] = "described"]
          /\ metaUse' = metaUse \cup {m} /\ meta' = [meta EXCEPT ![t] = m]
          /\ UNCHANGED <<comp, fence, compUse, compProt, metaProt,
                       event, work, uses, cell, owners, lease, token, dtor, drained>>
    BY MetaAvailable DEF Prepare, HeadOf, fenceVars, poolVars, nativeVars, settleVars,
       dtorVars
  <1>2. /\ work[t] = "none" /\ uses[t] = {} /\ comp[t] # None /\ meta[t] = None /\ Native(t)
        /\ fence[t].cached = "none" /\ ~fence[t].bound /\ ~fence[t].retained /\ ~fence[t].action
    BY <1>1 DEF SInv, FenceOK, HoldsOK, Unlaunched, Enqueued, Described
  <1>3. m \notin metaProt /\ Described(t)
    BY <1>1, <1>2, SyclQueueAssumption DEF SInv, PoolsOK, Native, Described, Tasks
  <1>4. TypeOK'
    BY <1>1, <1>2, <1>3, NoneApart DEF SInv, TypeOK, Optional, Stages, FenceStates
  <1>5. HoldsOK'
    BY <1>1, <1>2, <1>3, NoneApart DEF SInv, TypeOK, Optional, Stages, HoldsOK, Native,
       Described, Enqueued
  <1>6. FenceOK'
    BY <1>1, <1>2, <1>3, NoneApart DEF SInv, TypeOK, Optional, Stages, FenceStates,
       FenceOK, Native, Unlaunched, Over
  <1>7. CachedOK'
    BY <1>1, <1>2, <1>3, NoneApart DEF SInv, TypeOK, Optional, FenceStates, CachedOK
  <1>8. StatusOK'
    BY <1>1, <1>2, <1>3, NoneApart DEF SInv, TypeOK, Optional, FenceStates, StatusOK,
       Unlaunched
  <1>9. EventOK'
    BY <1>1, <1>2, <1>3, NoneApart DEF SInv, TypeOK, Optional, FenceStates, EventOK,
       Unlaunched
  <1>10. UsesOK'
    BY <1>1, <1>2, <1>3, NoneApart DEF SInv, TypeOK, Optional, UsesOK, Native, Enqueued,
       Over, SlotsOf
  <1>11. PinnedOK'
    BY <1>1, <1>2, <1>3, NoneApart DEF SInv, TypeOK, Optional, PinnedOK, Pinned, Native,
       Over
  <1>12. PoolsOK'
    BY <1>1, <1>2, <1>3, NoneApart DEF SInv, TypeOK, Optional, PoolsOK
  <1>13. DrainOK'
    BY <1>1, <1>2, <1>3, NoneApart DEF SInv, TypeOK, Optional, Stages, FenceStates,
       DrainOK, Settled
  <1>14. SettledOK'
    BY <1>1, <1>2, <1>3, NoneApart DEF SInv, TypeOK, Optional, Stages, FenceStates,
       SettledOK, Native
  <1> QED
    BY <1>4, <1>5, <1>6, <1>7, <1>8, <1>9, <1>10, <1>11, <1>12, <1>13, <1>14 DEF SInv

(* A queue starts in the invariant. *)
LEMMA InitSInv == Init => SInv
  <1> SUFFICES ASSUME Init PROVE SInv
    OBVIOUS
  <1>1. TypeOK
    BY SyclQueueAssumption DEF Init, TypeOK, NewState, FenceStates, Stages, Optional
  <1>2. HoldsOK /\ FenceOK /\ CachedOK /\ StatusOK /\ UsesOK /\ SettledOK
    BY DEF Init, NewState, HoldsOK, FenceOK, CachedOK, StatusOK, UsesOK, SettledOK, Native,
       Unlaunched, Enqueued, Over, Described
  <1>3. EventOK /\ PinnedOK /\ PoolsOK /\ DrainOK
    BY DEF Init, NewState, EventOK, PinnedOK, PoolsOK, DrainOK, Pinned, Over
  <1> QED
    BY <1>1, <1>2, <1>3 DEF SInv

(* Every step of the queue keeps the invariant, as long as no fence is      *)
(* asked inside set_event and no retried or last dispatch throws.           *)
LEMMA NextSInv ==
    ASSUME ~EarlyObserver, ~LateFaults
    PROVE  SInv /\ [Next]_vars => SInv'
  <1> SUFFICES ASSUME SInv, [Next]_vars PROVE SInv'
    OBVIOUS
  <1>1. ASSUME NEW t \in Tasks, Submit(t) \/ NativeEnds(t) \/ Asked(t) PROVE SInv'
    BY <1>1, SubmitStep, NativeEndsStep, AskedStep
  <1>2. ASSUME NEW t \in Tasks, Dispatch(t) PROVE SInv'
    <2>1. Prepare(t) => SInv'
      BY StageStep, DescribeStep DEF Prepare
    <2>2. PrepareFails(t) => SInv'
      BY RefusedStep DEF PrepareFails
    <2> QED
      BY <1>2, <2>1, <2>2, AcquireCompletionStep, LaunchStep, BindEventStep, SetPoolEventStep,
         PublishStep DEF Dispatch
  <1>3. ASSUME NEW t \in Tasks, Process(t) PROVE SInv'
    <2>1. FenceDestroy(t) => SInv'
      BY ReleaseMetaStep, ReleaseCompStep DEF FenceDestroy, ReleaseSlot, ReleaseOrder
    <2> QED
      BY <1>3, <2>1, FenceCompleteStep, CompleteStep DEF Process
  <1>4. EnterRefused => SInv'
    BY RefusedStep DEF EnterRefused, HeadOf, Queued
  <1>5. Destroy => SInv'
    BY CoveringWaitStep, ShutdownStep, ReturnPartitionStep, RetainLeaseStep, ReclaimStep
       DEF Destroy
  <1> QED
    BY <1>1, <1>2, <1>3, <1>4, <1>5, EnterStep, PopStep, StutterStep DEF Next

(* The invariant holds in every state a SYCL queue can reach. *)
THEOREM Invariance ==
    ASSUME ~EarlyObserver, ~LateFaults
    PROVE  Spec => []SInv
  <1>1. Init => SInv
    BY InitSInv
  <1>2. SInv /\ [Next]_vars => SInv'
    BY NextSInv
  <1> QED
    BY <1>1, <1>2, PTL DEF Spec

(* The two pools of a SYCL queue never hand out what running work uses and  *)
(* lose no slot, for any number of slots, tasks and failing native calls    *)
(* (SyclCompletionPool, MetadataSlotPool, fence_destroy, ~SyclQueue).       *)
THEOREM SlotsAreSound ==
    ASSUME ~EarlyObserver, ~LateFaults
    PROVE  Spec => []SlotsSound
  <1>1. ASSUME SInv PROVE SlotsSound
    <2>1. ASSUME NEW t \in Tasks, work[t] = "running"
          PROVE  /\ \A c \in Slots : <<"comp", c>> \in uses[t] =>
                      \/ comp[t] = c /\ comp[t] # None
                      \/ t \in Pinned /\ c \in compProt
                 /\ \A m \in Slots : <<"meta", m>> \in uses[t] =>
                      \/ meta[t] = m /\ meta[t] # None
                      \/ t \in Pinned /\ m \in metaProt
      <3>1. Native(t) /\ stage[t] \notin Unlaunched /\ fence[t].cached = "none"
        BY <1>1, <2>1 DEF SInv, FenceOK, CachedOK
      <3>2. stage[t] \in Enqueued \/ stage[t] \in Over
        BY <1>1, <3>1 DEF SInv, TypeOK, Stages, Unlaunched, Enqueued, Over
      <3>3. CASE stage[t] \in Enqueued
        <4>1. uses[t] = SlotsOf(t) /\ comp[t] # None
          BY <1>1, <3>1, <3>3 DEF SInv, UsesOK, HoldsOK
        <4> QED
          BY <4>1 DEF SlotsOf
      <3>4. CASE stage[t] \in Over
        <4>1. fence[t].retained /\ ~fence[t].proved /\ dtor # "returned"
          BY <1>1, <2>1, <3>1, <3>4 DEF SInv, FenceOK, DrainOK
        <4>2. t \in Pinned
          BY <3>1, <3>4, <4>1 DEF Pinned
        <4>3. stage[t] = "cleared" => comp[t] # None
          BY <1>1, <3>1 DEF SInv, HoldsOK
        <4> QED
          BY <1>1, <4>2, <4>3 DEF SInv, PinnedOK
      <3> QED
        BY <3>2, <3>3, <3>4
    <2>2. ASSUME NEW t \in Tasks, NEW u \in Tasks \ {t}, work[t] = "running",
                 work[u] = "running"
          PROVE  uses[t] \cap uses[u] = {}
      <3>1. ASSUME NEW c \in Slots, <<"comp", c>> \in uses[t], <<"comp", c>> \in uses[u]
            PROVE  FALSE
        BY <1>1, <2>1, <2>2, <3>1 DEF SInv, PoolsOK, PinnedOK
      <3>2. ASSUME NEW m \in Slots, <<"meta", m>> \in uses[t], <<"meta", m>> \in uses[u]
            PROVE  FALSE
        BY <1>1, <2>1, <2>2, <3>2 DEF SInv, PoolsOK, PinnedOK
      <3>3. uses[t] \subseteq {"comp", "meta"} \X Slots
        BY <1>1 DEF SInv, TypeOK
      <3> QED
        BY <3>1, <3>2, <3>3
    <2>3. SlotsCoverWork
      <3>1. \A t \in Tasks : comp[t] # None => comp[t] \in compUse
        BY <1>1 DEF SInv, PoolsOK
      <3>2. \A t \in Tasks : meta[t] # None => meta[t] \in metaUse
        BY <1>1 DEF SInv, PoolsOK
      <3>3. compProt \subseteq compUse /\ metaProt \subseteq metaUse
        BY <1>1 DEF SInv, PoolsOK
      <3> QED
        BY <2>1, <2>2, <3>1, <3>2, <3>3 DEF SlotsCoverWork
    <2>4. IsFiniteSet(compUse)
      BY <1>1, SyclQueueAssumption, FS_Subset DEF SInv, TypeOK
    <2>5. Cardinality(metaUse) <= Cardinality(compUse)
      BY <1>1, <2>4, MetaNeedsComp
    <2> QED
      BY <1>1, <2>3, <2>5 DEF SlotsSound, NoSlotStranded, SInv, PoolsOK
  <1> QED
    BY <1>1, Invariance, PTL

(* The token of a SYCL submission reports success exactly for work that ran *)
(* to its end with every index in range, whoever read its fence before      *)
(* (SyclFenceState::result, complete_task).                                 *)
THEOREM TokensAreTruthful ==
    ASSUME ~EarlyObserver, ~LateFaults
    PROVE  Spec => []TokenTruthful
  <1>1. SInv => TokenTruthful
    BY DEF SInv, SettledOK, TokenTruthful, Native
  <1> QED
    BY <1>1, Invariance, PTL

(* Owners, workspace and partition are given up only when the device no     *)
(* longer uses them (complete_task, ~SyclQueue).                            *)
THEOREM ReleasedWorkIsIdle ==
    ASSUME ~EarlyObserver, ~LateFaults
    PROVE  Spec => []ReleasedMeansIdle
  <1>1. SInv => ReleasedMeansIdle
    BY DEF SInv, SettledOK, DrainOK, ReleasedMeansIdle
  <1> QED
    BY <1>1, Invariance, PTL
================================================================================
