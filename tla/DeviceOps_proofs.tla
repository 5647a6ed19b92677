---------------------------- MODULE DeviceOps_proofs ----------------------------
(***************************************************************************)
(* Proofs about the admission protocol of DeviceOps, for every capacity,   *)
(* every sequence space and every kind of backend; then about the order in *)
(* which it finishes submissions, and that it implements the ordered       *)
(* tokens of its contract.                                                 *)
(***************************************************************************)
EXTENDS MCDeviceOps, FiniteSetTheorems, WellFoundedInduction, TLAPS

Elements(q) == {q[i] : i \in 1 .. Len(q)}
Increasing(q) == \A i, j \in 1 .. Len(q) : i < j => q[i] < q[j]

(* A nonempty set of naturals has a least element. *)
LEMMA NatMin ==
    ASSUME NEW T \in SUBSET Nat, T # {}
    PROVE  \E x \in T : \A y \in T : x <= y
  <1> DEFINE R == OpToRel(<, Nat)
  <1>1. IsWellFoundedOn(R, Nat)
    BY NatLessThanWellFounded
  <1>2. \A x, y \in Nat : <<y, x>> \in R <=> y < x
    BY DEF OpToRel
  <1> HIDE DEF R
  <1>3. PICK x \in T : \A y \in T : ~(<<y, x>> \in R)
    BY <1>1, WFMin, Zenon
  <1>4. ASSUME NEW y \in T PROVE ~(y < x)
    BY <1>2, <1>3, Zenon
  <1>5. \A y \in T : x <= y
    BY <1>4
  <1> QED
    BY <1>5

(* Taking an entry out of the deque takes out that entry and nothing else,  *)
(* and keeps the others in order.                                           *)
LEMMA WithoutLemma ==
    ASSUME NEW S \in SUBSET Int, NEW q \in Seq(S), NEW s \in Elements(q), Increasing(q)
    PROVE  /\ Without(q, s) \in Seq(S)
           /\ Elements(Without(q, s)) = Elements(q) \ {s}
           /\ Increasing(Without(q, s))
  <1> DEFINE i == CHOOSE k \in 1 .. Len(q) : q[k] = s
             w == Without(q, s)
  <1>1. i \in 1 .. Len(q) /\ q[i] = s
    BY DEF Elements
  <1>2. Len(q) \in Nat /\ \A k \in 1 .. Len(q) : q[k] \in S /\ q[k] \in Int
    <2>1. Len(q) \in Nat /\ \A k \in 1 .. Len(q) : q[k] \in S
      OBVIOUS
    <2> QED
      BY <2>1
  <1> HIDE DEF i
  <1>3. w = [k \in 1 .. Len(q) - 1 |-> IF k < i THEN q[k] ELSE q[k + 1]]
    BY DEF Without, i
  <1> HIDE DEF w
  <1>4. \A k \in 1 .. Len(q) - 1 : k \in 1 .. Len(q) /\ k + 1 \in 1 .. Len(q)
    BY <1>2
  <1>5. Len(q) - 1 \in Nat
    BY <1>1, <1>2
  <1>6. /\ w \in Seq(S) /\ Len(w) = Len(q) - 1
        /\ \A k \in 1 .. Len(q) - 1 : w[k] = IF k < i THEN q[k] ELSE q[k + 1]
    <2>1. w \in [1 .. Len(q) - 1 -> S]
      BY <1>2, <1>3, <1>4
    <2> QED
      BY <1>3, <1>5, <2>1
  <1>7. Increasing(w)
    <2> SUFFICES ASSUME NEW a \in 1 .. Len(q) - 1, NEW b \in 1 .. Len(q) - 1, a < b
                 PROVE  w[a] < w[b]
      BY <1>6 DEF Increasing
    <2>1. /\ w[a] = IF a < i THEN q[a] ELSE q[a + 1]
          /\ w[b] = IF b < i THEN q[b] ELSE q[b + 1]
          /\ a \in 1 .. Len(q) /\ a + 1 \in 1 .. Len(q)
          /\ b \in 1 .. Len(q) /\ b + 1 \in 1 .. Len(q)
      BY <1>4, <1>6
    <2> QED
      BY <1>1, <1>2, <2>1 DEF Increasing
  <1>8. Elements(w) \subseteq Elements(q) \ {s}
    <2> SUFFICES ASSUME NEW k \in 1 .. Len(q) - 1
                 PROVE  w[k] \in Elements(q) \ {s}
      BY <1>6 DEF Elements
    <2>1. CASE k < i
      <3>1. w[k] = q[k] /\ k \in 1 .. Len(q) /\ q[k] < q[i]
        BY <1>1, <1>2, <1>4, <1>6, <2>1 DEF Increasing
      <3> QED
        BY <1>1, <1>2, <3>1 DEF Elements
    <2>2. CASE ~(k < i)
      <3>1. w[k] = q[k + 1] /\ k + 1 \in 1 .. Len(q) /\ i < k + 1
        BY <1>1, <1>2, <1>4, <1>6, <2>2
      <3> QED
        BY <1>1, <1>2, <3>1 DEF Elements, Increasing
    <2> QED
      BY <2>1, <2>2
  <1>9. ASSUME NEW x \in Elements(q), x # s
        PROVE  x \in Elements(w)
    <2>1. PICK k \in 1 .. Len(q) : q[k] = x
      BY DEF Elements
    <2>2. CASE k < i
      <3>1. k \in 1 .. Len(w) /\ w[k] = x
        BY <1>1, <1>2, <1>6, <2>1, <2>2
      <3> QED
        BY <3>1 DEF Elements
    <2>3. CASE k > i
      <3>1. k - 1 \in 1 .. Len(w) /\ w[k - 1] = x
        BY <1>1, <1>2, <1>6, <2>1, <2>3
      <3> QED
        BY <3>1 DEF Elements
    <2> QED
      BY <1>1, <1>9, <2>1, <2>2, <2>3
  <1> QED
    BY <1>6, <1>7, <1>8, <1>9 DEF w

--------------------------------------------------------------------------------
(* The inductive invariant: TypeOK and one conjunct for each thing the      *)
(* fields have to agree about.                                              *)

Unpublished == {"prepare", "publish", "unwind", "abandon"}
Published == {"enter", "take", "dispatch", "park"}
Holding == {"dispatch", "park"}

(* The host's own submission is the newest number, or the number it gave    *)
(* back when its dispatch was rejected.                                     *)
CallOK ==
    /\ pc["host"] \in Unpublished =>
          /\ mine = next - 1 /\ mine \notin nodes
          /\ completed < mine /\ ~fault["host"]
    /\ pc["host"] \in Published =>
          mine \in Sequences1 /\ mine = IF fault["host"] THEN next ELSE next - 1
    /\ pc["host"] \notin Unpublished \cup Published => mine = 0
    /\ pc["host"] \in {"waiting", "fence"} => cur["host"] \in Sequences1

(* The deque lists the nodes in order; all of them are older than next, and *)
(* the high-water mark is not one of them.                                  *)
OrderOK ==
    /\ Elements(fifo) = nodes /\ Increasing(fifo)
    /\ \A s \in nodes : s < next
    /\ completed < next /\ completed \notin nodes

PumpOK ==
    /\ ~(pc["host"] \in PumpLabels /\ pc["worker"] \in PumpLabels)
    /\ pumping <=> pc["host"] \in PumpLabels \/ pc["worker"] \in PumpLabels

(* Every executing node is in exactly one place. *)
WorkOK ==
    /\ executing = InDispatch \cup OnWorker \cup Elements(tasks)
    /\ \A i, j \in 1 .. Len(tasks) : i # j => tasks[i] # tasks[j]
    /\ (InDispatch \cup OnWorker) \cap Elements(tasks) = {}
    /\ InDispatch \cap OnWorker = {}

CreditOK == credits = Cardinality(executing) /\ credits <= Capacity

(* The call in progress will return the token of mine. *)
CallOpen == pc["host"] \in Unpublished \/ (pc["host"] \in Published /\ ~fault["host"])
Open == IF CallOpen THEN {mine} ELSE {}

TokensOK ==
    /\ skipped \subseteq 1 .. next - 1
    /\ Waitable = issued \cup Open
    /\ issued \cap Open = {}

Finishing == IF At("worker", "complete") THEN {cur["worker"]} ELSE {}
Registering == IF pc["host"] \in {"publish", "unwind", "abandon"} THEN {mine} ELSE {}

OwnersOK ==
    /\ nodes \ Finishing \subseteq live
    /\ live \subseteq nodes \cup Registering
    /\ live \cap Finishing = {}
    /\ At("host", "publish") => mine \in live

CloseOK ==
    /\ At("worker", "exited") =>
          tasks = <<>> /\ pc["host"] \in {"close", "snapshot", "drain", "destroyed"}
    /\ At("worker", "exited") /\ At("host", "drain") => nodes \subseteq drainList
    /\ At("host", "destroyed") => At("worker", "exited") /\ nodes = {}

IInv ==
    /\ TypeOK /\ CallOK /\ OrderOK /\ PumpOK /\ WorkOK /\ CreditOK
    /\ TokensOK /\ OwnersOK /\ CloseOK

--------------------------------------------------------------------------------
(* Lemmas about the helpers, under the invariant. *)

(* The pump finds a parked submission whenever there is one. *)
LEMMA CandidateLemma ==
    ASSUME TypeOK, OrderOK, Parked # {}
    PROVE  Candidate \in Parked
  <1> DEFINE P == {k \in 1 .. Len(fifo) : fifo[k] \in Parked}
  <1>1. Len(fifo) \in Nat
    BY DEF TypeOK
  <1>2. P \in SUBSET Nat
    BY <1>1
  <1>3. P # {}
    BY DEF OrderOK, Elements, Parked
  <1>4. PICK k \in P : \A j \in P : k <= j
    BY <1>2, <1>3, NatMin
  <1>5. \A j \in 1 .. k - 1 : fifo[j] \notin Parked
    BY <1>1, <1>4
  <1> QED
    BY <1>4, <1>5 DEF Candidate

(* A set of sequence numbers is finite, and adding or removing one counts. *)
LEMMA CountLemma ==
    ASSUME NEW E \in SUBSET Sequences1, NEW s \in Sequences1
    PROVE  /\ Cardinality(E) \in Nat
           /\ s \in E => Cardinality(E \ {s}) = Cardinality(E) - 1 /\ Cardinality(E) # 0
           /\ s \notin E => Cardinality(E \ {s}) = Cardinality(E)
           /\ s \notin E => Cardinality(E \cup {s}) = Cardinality(E) + 1
  <1>1. IsFiniteSet(E)
    <2>1. IsFiniteSet(Sequences1)
      <3>1. 1 \in Int /\ MaxSequence \in Int
        BY DeviceOpsAssumption
      <3> QED
        BY <3>1, FS_Interval DEF Sequences1
    <2> QED
      BY <2>1, FS_Subset
  <1>2. IsFiniteSet(E \ {s}) /\ Cardinality(E \ {s}) =
            IF s \in E THEN Cardinality(E) - 1 ELSE Cardinality(E)
    BY <1>1, FS_RemoveElement
  <1>3. Cardinality(E) \in Nat /\ Cardinality(E \ {s}) \in Nat
    BY <1>1, <1>2, FS_CardinalityType
  <1>4. Cardinality(E \cup {s}) = IF s \in E THEN Cardinality(E) ELSE Cardinality(E) + 1
    BY <1>1, FS_AddElement
  <1> QED
    BY <1>2, <1>3, <1>4

(* Erasing a node keeps the deque and the credits in step with the nodes. *)
LEMMA EraseLemma ==
    ASSUME TypeOK, OrderOK, CreditOK, NEW s \in nodes, EraseNode(s)
    PROVE  /\ nodes' = nodes \ {s} /\ executing' = executing \ {s}
           /\ fifo' \in Seq(Sequences1)
           /\ Elements(fifo)' = nodes' /\ Increasing(fifo)'
           /\ credits' \in Nat
           /\ CreditOK'
  <1>1. nodes' = nodes \ {s} /\ executing' = executing \ {s} /\ fifo' = Without(fifo, s)
    BY DEF EraseNode
  <1>2. Sequences1 \in SUBSET Int /\ fifo \in Seq(Sequences1) /\ s \in Elements(fifo)
    BY DEF TypeOK, OrderOK, Sequences1
  <1>3. /\ fifo' \in Seq(Sequences1) /\ Elements(fifo') = nodes \ {s}
        /\ Increasing(fifo')
    BY <1>1, <1>2, WithoutLemma DEF OrderOK
  <1>4. s \in Sequences1 /\ executing \in SUBSET Sequences1 /\ credits \in Nat
    BY DEF TypeOK
  <1>5. /\ Cardinality(executing) \in Nat
        /\ s \in executing => /\ Cardinality(executing \ {s}) = Cardinality(executing) - 1
                              /\ Cardinality(executing) # 0
        /\ s \notin executing => Cardinality(executing \ {s}) = Cardinality(executing)
    BY <1>4, CountLemma
  <1>6. /\ credits' = Cardinality(executing \ {s}) /\ credits' <= Capacity
        /\ credits' \in Nat
    BY <1>4, <1>5, DeviceOpsAssumption DEF EraseNode, CreditOK
  <1> QED
    BY <1>1, <1>3, <1>6 DEF Elements, Increasing, CreditOK

(* The worker's list: what appending and taking the head do to it. *)
LEMMA AppendLemma ==
    ASSUME NEW S, NEW q \in Seq(S), NEW s \in S
    PROVE  /\ Append(q, s) \in Seq(S) /\ Len(Append(q, s)) = Len(q) + 1
           /\ \A i \in 1 .. Len(q) : Append(q, s)[i] = q[i]
           /\ Append(q, s)[Len(q) + 1] = s
           /\ Elements(Append(q, s)) = Elements(q) \cup {s}
  <1>1. /\ Append(q, s) \in Seq(S) /\ Len(Append(q, s)) = Len(q) + 1 /\ Len(q) \in Nat
        /\ \A i \in 1 .. Len(q) : Append(q, s)[i] = q[i]
        /\ Append(q, s)[Len(q) + 1] = s
    OBVIOUS
  <1>2. Elements(Append(q, s)) \subseteq Elements(q) \cup {s}
    BY <1>1 DEF Elements
  <1>3. s \in Elements(Append(q, s))
    BY <1>1 DEF Elements
  <1>4. ASSUME NEW x \in Elements(q) PROVE x \in Elements(Append(q, s))
    <2>1. PICK i \in 1 .. Len(q) : q[i] = x
      BY DEF Elements
    <2>2. i \in 1 .. Len(Append(q, s)) /\ Append(q, s)[i] = x
      BY <1>1, <2>1
    <2> QED
      BY <2>2 DEF Elements
  <1> QED
    BY <1>1, <1>2, <1>3, <1>4

(* Taking the head of a list without repetitions. *)
LEMMA TailLemma ==
    ASSUME NEW S, NEW q \in Seq(S), q # <<>>,
           \A i, j \in 1 .. Len(q) : i # j => q[i] # q[j]
    PROVE  /\ Head(q) \in S /\ Tail(q) \in Seq(S)
           /\ Elements(q) = Elements(Tail(q)) \cup {Head(q)}
           /\ Head(q) \notin Elements(Tail(q))
           /\ \A i, j \in 1 .. Len(Tail(q)) : i # j => Tail(q)[i] # Tail(q)[j]
  <1>1. /\ Len(q) \in Nat \ {0} /\ Head(q) = q[1] /\ Head(q) \in S
        /\ Tail(q) \in Seq(S) /\ Len(Tail(q)) = Len(q) - 1
        /\ \A i \in 1 .. Len(q) - 1 : Tail(q)[i] = q[i + 1]
    OBVIOUS
  <1>2. \A i \in 1 .. Len(q) - 1 : i + 1 \in 1 .. Len(q) /\ i + 1 # 1
    BY <1>1
  <1>3. Elements(Tail(q)) \subseteq Elements(q) /\ Head(q) \notin Elements(Tail(q))
    BY <1>1, <1>2 DEF Elements
  <1>4. Head(q) \in Elements(q)
    BY <1>1 DEF Elements
  <1>5. ASSUME NEW x \in Elements(q), x # Head(q) PROVE x \in Elements(Tail(q))
    <2>1. PICK i \in 1 .. Len(q) : q[i] = x
      BY DEF Elements
    <2>2. i - 1 \in 1 .. Len(Tail(q)) /\ Tail(q)[i - 1] = x
      BY <1>1, <1>5, <2>1
    <2> QED
      BY <2>2 DEF Elements
  <1>6. ASSUME NEW i \in 1 .. Len(Tail(q)), NEW j \in 1 .. Len(Tail(q)), i # j
        PROVE  Tail(q)[i] # Tail(q)[j]
    <2>1. /\ i + 1 \in 1 .. Len(q) /\ j + 1 \in 1 .. Len(q) /\ i + 1 # j + 1
          /\ Tail(q)[i] = q[i + 1] /\ Tail(q)[j] = q[j + 1]
      BY <1>1, <1>6
    <2> QED
      BY <2>1
  <1> QED
    BY <1>1, <1>3, <1>4, <1>5, <1>6

--------------------------------------------------------------------------------
(* The two ways to hold a dispatch, before and after a step. *)
LEMMA InDispatchIs ==
    /\ InDispatch = (IF pc["host"] \in Holding THEN {cur["host"]} ELSE {})
                      \cup (IF pc["worker"] \in Holding THEN {cur["worker"]} ELSE {})
    /\ InDispatch' = (IF pc["host"]' \in Holding THEN {cur["host"]'} ELSE {})
                       \cup (IF pc["worker"]' \in Holding THEN {cur["worker"]'} ELSE {})
  BY DEF InDispatch, Holding, Threads

(* What the conjuncts say about the numbers involved. *)
LEMMA Ranges ==
    ASSUME IInv
    PROVE  /\ MaxSequence \in Nat /\ MaxSequence >= 1 /\ Capacity \in Nat /\ Capacity >= 1
           /\ next \in Nat /\ 1 <= next /\ next <= MaxSequence + 1 /\ completed \in Nat
           /\ \A s \in Sequences1 : s \in Nat /\ 1 <= s /\ s <= MaxSequence
           /\ executing \subseteq nodes /\ nodes \subseteq Sequences1
           /\ mine \in Nat /\ mine <= MaxSequence
           /\ pc["host"] \in Unpublished \cup Published => mine \in Sequences1
           /\ pc["host"] \in Holding => cur["host"] \in executing
           /\ pc["worker"] \in Holding \cup {"native", "complete"} =>
                 cur["worker"] \in executing
  <1>1. /\ MaxSequence \in Nat /\ MaxSequence >= 1 /\ Capacity \in Nat /\ Capacity >= 1
        /\ next \in Nat /\ 1 <= next /\ next <= MaxSequence + 1 /\ completed \in Nat
        /\ \A s \in Sequences1 : s \in Nat /\ 1 <= s /\ s <= MaxSequence
        /\ executing \subseteq nodes /\ nodes \subseteq Sequences1
        /\ mine \in Nat /\ mine <= MaxSequence
    BY DeviceOpsAssumption DEF IInv, TypeOK, Sequences1
  <1>2. pc["host"] \in Unpublished \cup Published => mine \in Sequences1
    BY <1>1 DEF IInv, CallOK, Sequences1
  <1>3. pc["host"] \in Holding => cur["host"] \in executing
    BY InDispatchIs DEF IInv, WorkOK
  <1>4. pc["worker"] \in Holding \cup {"native", "complete"} => cur["worker"] \in executing
    BY InDispatchIs DEF IInv, WorkOK, OnWorker
  <1> QED
    BY <1>1, <1>2, <1>3, <1>4

(* A submission that gets no token gives its number back. *)
LEMMA AbandonIs ==
    ASSUME IInv, pc["host"] \in Unpublished, AbandonSequence(mine)
    PROVE  /\ next' = mine /\ mine = next - 1 /\ mine \in Sequences1 /\ completed < mine
           /\ mine \notin nodes /\ mine \notin skipped /\ mine \notin issued
           /\ skipped' = skipped /\ completed' = completed /\ failures' = failures
           /\ pending' = pending \ {mine}
  <1>1. mine = next - 1 /\ completed < mine /\ mine \notin nodes /\ mine \in Sequences1
    BY Ranges DEF IInv, CallOK
  <1>2. next = mine + 1 /\ next \in Nat
    BY <1>1, Ranges
  <1>3. mine \notin skipped /\ mine \notin issued
    BY DEF IInv, TokensOK, Open, CallOpen, Waitable
  <1> QED
    BY <1>1, <1>2, <1>3 DEF AbandonSequence

(* Tokens do not depend on anything but these. *)
LEMMA TokensSame ==
    ASSUME TokensOK, UNCHANGED <<next, skipped, issued>>, Open' = Open
    PROVE  TokensOK'
  BY DEF TokensOK, Waitable

(* The thread that pumps is the only one that holds a dispatch. *)
LEMMA LonePump ==
    ASSUME IInv, NEW t \in Threads, pc[t] \in PumpLabels
    PROVE  /\ InDispatch = IF pc[t] \in Holding THEN {cur[t]} ELSE {}
           /\ \A u \in Threads : u # t => pc[u] \notin Holding
           /\ pc[t] \in Holding => cur[t] \in executing /\ cur[t] \in nodes
           /\ pc[t] \in Holding => cur[t] \notin OnWorker /\ cur[t] \notin Elements(tasks)
  <1>1. \A u \in Threads : u # t => pc[u] \notin Holding
    BY DEF IInv, PumpOK, Threads, Holding, PumpLabels
  <1>2. InDispatch = IF pc[t] \in Holding THEN {cur[t]} ELSE {}
    BY <1>1, InDispatchIs DEF Threads
  <1>3. executing \subseteq nodes
    BY Ranges
  <1> QED
    BY <1>1, <1>2, <1>3 DEF IInv, WorkOK

(* complete() of a node takes it out of every structure and moves the mark  *)
(* to a number that is no longer in use.                                    *)
LEMMA CompleteIs ==
    ASSUME IInv, NEW s \in nodes, NEW failed, Complete(s, failed)
    PROVE  /\ nodes' = nodes \ {s} /\ executing' = executing \ {s}
           /\ next' = next /\ skipped' = skipped
           /\ fifo' \in Seq(Sequences1) /\ credits' \in Nat
           /\ failures' \subseteq Sequences1 /\ pending' \subseteq Sequences1
           /\ completed' \in 0 .. MaxSequence
           /\ OrderOK' /\ CreditOK'
           /\ pc["host"] \in Unpublished => completed' < mine /\ mine # s
  <1>1. EraseNode(s) /\ next' = next /\ skipped' = skipped
    BY DEF Complete
  <1>2. /\ nodes' = nodes \ {s} /\ executing' = executing \ {s}
        /\ fifo' \in Seq(Sequences1) /\ Elements(fifo)' = nodes' /\ Increasing(fifo)'
        /\ credits' \in Nat /\ CreditOK'
    BY <1>1, EraseLemma DEF IInv
  <1>3. s \in Sequences1 /\ s \in Nat /\ s <= MaxSequence
    BY Ranges
  <1>4. completed' = IF completed < s THEN s ELSE completed
    BY DEF Complete
  <1>5. s < next /\ completed < next /\ completed \notin nodes
    BY DEF IInv, OrderOK
  <1>6. completed' < next /\ completed' \notin nodes'
    BY <1>2, <1>4, <1>5
  <1>7. completed' \in 0 .. MaxSequence
    BY <1>3, <1>4 DEF IInv, TypeOK
  <1>8. failures' \subseteq Sequences1 /\ pending' \subseteq Sequences1
    BY <1>3 DEF IInv, TypeOK, Complete
  <1>9. pc["host"] \in Unpublished => completed' < mine /\ mine # s
    <2> HAVE pc["host"] \in Unpublished
    <2>1. mine = next - 1 /\ mine \notin nodes /\ completed < mine
      BY DEF IInv, CallOK
    <2>2. s < mine
      BY <1>3, <1>5, <2>1, Ranges
    <2> QED
      BY <1>4, <2>1, <2>2
  <1>10. OrderOK'
    BY <1>1, <1>2, <1>5, <1>6 DEF IInv, OrderOK
  <1> QED
    BY <1>1, <1>2, <1>7, <1>8, <1>9, <1>10

(* Nothing executes once the worker has left. *)
LEMMA ExitedIdle ==
    ASSUME IInv, At("worker", "exited")
    PROVE  executing = {}
  <1>1. tasks = <<>> /\ pc["host"] \notin Holding /\ pc["worker"] = "exited"
    BY DEF IInv, CloseOK, At, Holding
  <1>2. Elements(tasks) = {} /\ OnWorker = {} /\ InDispatch = {}
    BY <1>1, InDispatchIs DEF Elements, OnWorker, Holding
  <1> QED
    BY <1>2 DEF IInv, WorkOK

(* Reserving a number keeps the invariant: it is newer than every node. *)
LEMMA SubmitStep ==
    ASSUME IInv, Submit
    PROVE  IInv'
  <1>1. pc'["host"] = "prepare" /\ pc'["worker"] = pc["worker"]
    BY DEF IInv, TypeOK, Threads, At, Goto, Submit, tokenVars, nodeVars, callVars
  <1>2. pc' \in [Threads -> HostLabels \cup WorkerLabels]
    BY DEF IInv, TypeOK, HostLabels, WorkerLabels, PumpLabels, Goto, Submit, tokenVars,
        nodeVars, callVars
  <1>3. TypeOK'
    <2>1. /\ next' \in 1 .. MaxSequence + 1
          /\ completed' \in 0 .. MaxSequence
          /\ mine' \in 0 .. MaxSequence
      BY Ranges DEF IInv, TypeOK, Submit
    <2>2. /\ failures' \subseteq Sequences1 /\ pending' \subseteq Sequences1
          /\ skipped' \subseteq Sequences1 /\ live' \subseteq Sequences1
          /\ nodes' \subseteq Sequences1 /\ executing' \subseteq nodes'
          /\ drainList' \subseteq Sequences1 /\ issued' \subseteq Sequences1
          /\ observed' \subseteq Sequences1 \X {"ok", "failed"}
      BY <1>1, Ranges DEF IInv, TypeOK, CallOK, Unpublished, Published, Holding, At,
          Submit, tokenVars, nodeVars, callVars
    <2>3. fifo' \in Seq(Sequences1) /\ credits' \in Nat /\ tasks' \in Seq(Sequences1)
      BY <1>1, Ranges DEF IInv, TypeOK, Unpublished, Published, Holding, At, Submit,
          tokenVars, nodeVars, callVars
    <2>4. /\ cur' \in [Threads -> 0 .. MaxSequence] /\ fault' \in [Threads -> BOOLEAN]
          /\ pumping' \in BOOLEAN /\ closing' \in BOOLEAN /\ shutdown' \in BOOLEAN
      BY Ranges DEF IInv, TypeOK, Sequences1, Threads, Submit, tokenVars, nodeVars,
          callVars
    <2>5. pc'["host"] \in HostLabels /\ pc'["worker"] \in WorkerLabels
      BY <1>1 DEF IInv, TypeOK, HostLabels, WorkerLabels, PumpLabels
    <2> QED
      BY <1>2, <2>1, <2>2, <2>3, <2>4, <2>5 DEF TypeOK
  <1>4. CallOK'
    <2>1. /\ mine' = next /\ next' = next + 1 /\ ~fault'["host"]
          /\ UNCHANGED <<nodes, completed>>
      BY DEF IInv, TypeOK, Threads, nodeVars, Submit
    <2>2. next \notin nodes /\ completed < next /\ next = (next + 1) - 1
      BY Ranges DEF IInv, OrderOK
    <2> QED
      BY <1>1, <2>1, <2>2 DEF CallOK, Unpublished, Published
  <1>5. OrderOK' /\ PumpOK' /\ CreditOK' /\ CloseOK' /\ OwnersOK' /\ TokensOK'
    <2>1. OrderOK'
      <3>1. UNCHANGED <<nodes, fifo, completed>> /\ next' = next + 1
        BY DEF Submit, nodeVars
      <3>2. \A s \in nodes : s \in Nat /\ s < next + 1
        BY Ranges DEF IInv, OrderOK
      <3>3. completed < next + 1 /\ completed \notin nodes
        BY Ranges DEF IInv, OrderOK
      <3> QED
        BY <3>1, <3>2, <3>3 DEF IInv, OrderOK, Elements, Increasing
    <2>2. PumpOK'
      BY <1>1, Ranges DEF IInv, Submit, tokenVars, nodeVars, callVars, At, PumpOK,
          PumpLabels
    <2>3. CreditOK'
      BY <1>1, Ranges DEF IInv, Submit, tokenVars, nodeVars, callVars, At, CreditOK
    <2>4. CloseOK'
      BY <1>1, Ranges DEF IInv, Submit, tokenVars, nodeVars, callVars, At, CloseOK
    <2>5. OwnersOK'
      BY <1>1, Ranges DEF IInv, Submit, tokenVars, nodeVars, callVars, At, OwnersOK,
          Finishing, Registering
    <2>6. TokensOK'
      BY <1>1, Ranges DEF IInv, Submit, tokenVars, nodeVars, callVars, At, TokensOK,
          Waitable, Open, CallOpen, Unpublished, Published
    <2> QED
      BY <2>1, <2>2, <2>3, <2>4, <2>5, <2>6
  <1>6. WorkOK'
    <2>1. tasks' = tasks /\ executing' = executing /\ OnWorker' = OnWorker
      BY <1>1 DEF Submit, nodeVars, OnWorker, At
    <2>2. InDispatch' = InDispatch
      BY <1>1, InDispatchIs DEF Submit, nodeVars, Holding, At
    <2> QED
      BY <2>1, <2>2 DEF IInv, WorkOK, Elements
  <1> QED
    BY <1>3, <1>4, <1>5, <1>6 DEF IInv

(* Registering the owners, or failing to, keeps the invariant. *)
LEMMA PrepareStep ==
    ASSUME IInv, NEW ok \in BOOLEAN, Prepare(ok)
    PROVE  IInv'
  <1>1. pc'["host"] = (IF ok THEN "publish" ELSE "unwind") /\ pc'["worker"] = pc["worker"]
    BY DEF IInv, TypeOK, Threads, At, Goto, Prepare, tokenVars, nodeVars, callVars
  <1>2. pc' \in [Threads -> HostLabels \cup WorkerLabels]
    BY DEF IInv, TypeOK, HostLabels, WorkerLabels, PumpLabels, Goto, Prepare, tokenVars,
        nodeVars, callVars
  <1>3. TypeOK'
    <2>1. /\ next' \in 1 .. MaxSequence + 1
          /\ completed' \in 0 .. MaxSequence
          /\ mine' \in 0 .. MaxSequence
      BY <1>1, Ranges DEF IInv, TypeOK, CallOK, Unpublished, Published, Holding,
          Sequences1, At, Prepare, tokenVars, nodeVars, callVars
    <2>2. /\ failures' \subseteq Sequences1 /\ pending' \subseteq Sequences1
          /\ skipped' \subseteq Sequences1 /\ live' \subseteq Sequences1
          /\ nodes' \subseteq Sequences1 /\ executing' \subseteq nodes'
          /\ drainList' \subseteq Sequences1 /\ issued' \subseteq Sequences1
          /\ observed' \subseteq Sequences1 \X {"ok", "failed"}
      BY <1>1, Ranges DEF IInv, TypeOK, CallOK, Unpublished, Published, Holding, At,
          Prepare, tokenVars, nodeVars, callVars
    <2>3. fifo' \in Seq(Sequences1) /\ credits' \in Nat /\ tasks' \in Seq(Sequences1)
      BY <1>1, Ranges DEF IInv, TypeOK, Unpublished, Published, Holding, At, Prepare,
          tokenVars, nodeVars, callVars
    <2>4. /\ cur' \in [Threads -> 0 .. MaxSequence] /\ fault' \in [Threads -> BOOLEAN]
          /\ pumping' \in BOOLEAN /\ closing' \in BOOLEAN /\ shutdown' \in BOOLEAN
      BY Ranges DEF IInv, TypeOK, Sequences1, Threads, Prepare, tokenVars, nodeVars,
          callVars
    <2>5. pc'["host"] \in HostLabels /\ pc'["worker"] \in WorkerLabels
      BY <1>1 DEF IInv, TypeOK, HostLabels, WorkerLabels, PumpLabels
    <2> QED
      BY <1>2, <2>1, <2>2, <2>3, <2>4, <2>5 DEF TypeOK
  <1>4. CallOK' /\ OrderOK' /\ PumpOK' /\ CreditOK' /\ CloseOK' /\ TokensOK'
    BY <1>1, Ranges DEF IInv, Prepare, tokenVars, nodeVars, callVars, CallOK,
        Unpublished, Published, At, OrderOK, Elements, Increasing, PumpOK, PumpLabels,
        CreditOK, CloseOK, TokensOK, Waitable, Open, CallOpen
  <1>5. WorkOK'
    <2>1. tasks' = tasks /\ executing' = executing /\ OnWorker' = OnWorker
      BY <1>1 DEF Prepare, nodeVars, OnWorker, At
    <2>2. InDispatch' = InDispatch
      BY <1>1, InDispatchIs DEF Prepare, nodeVars, Holding, At
    <2> QED
      BY <2>1, <2>2 DEF IInv, WorkOK, Elements
  <1>6. OwnersOK'
    <2>1. /\ UNCHANGED <<nodes, cur, mine>>
          /\ live' = (IF ok THEN live \cup {mine} ELSE live) /\ pc["host"] = "prepare"
      BY DEF nodeVars, At, Prepare
    <2>2. mine \notin nodes /\ Finishing' = Finishing /\ Finishing \subseteq nodes
      BY <1>1, <2>1, Ranges DEF IInv, CallOK, Unpublished, Finishing, At
    <2>3. Registering = {} /\ Registering' = {mine}
      BY <1>1, <2>1 DEF Registering
    <2> QED
      BY <1>1, <2>1, <2>2, <2>3 DEF IInv, OwnersOK, At
  <1> QED
    BY <1>3, <1>4, <1>5, <1>6 DEF IInv

(* Publishing keeps the deque sorted: the number is the newest. *)
LEMMA PublishStep ==
    ASSUME IInv, Publish
    PROVE  IInv'
  <1>1. pc'["host"] = "enter" /\ pc'["worker"] = pc["worker"]
    BY DEF IInv, TypeOK, Threads, At, Goto, Publish, tokenVars, nodeVars, callVars
  <1>2. pc' \in [Threads -> HostLabels \cup WorkerLabels]
    BY DEF IInv, TypeOK, HostLabels, WorkerLabels, PumpLabels, Goto, Publish, tokenVars,
        nodeVars, callVars
  <1>3. TypeOK'
    <2>1. /\ next' \in 1 .. MaxSequence + 1
          /\ completed' \in 0 .. MaxSequence
          /\ mine' \in 0 .. MaxSequence
      BY <1>1, Ranges DEF IInv, TypeOK, CallOK, Unpublished, Published, Holding,
          Sequences1, At, Publish, tokenVars, nodeVars, callVars
    <2>2. /\ failures' \subseteq Sequences1 /\ pending' \subseteq Sequences1
          /\ skipped' \subseteq Sequences1 /\ live' \subseteq Sequences1
          /\ nodes' \subseteq Sequences1 /\ executing' \subseteq nodes'
          /\ drainList' \subseteq Sequences1 /\ issued' \subseteq Sequences1
          /\ observed' \subseteq Sequences1 \X {"ok", "failed"}
      BY <1>1, Ranges DEF IInv, TypeOK, CallOK, Unpublished, Published, Holding, At,
          Publish, tokenVars, nodeVars, callVars
    <2>3. fifo' \in Seq(Sequences1) /\ credits' \in Nat /\ tasks' \in Seq(Sequences1)
      BY <1>1, Ranges DEF IInv, TypeOK, Unpublished, Published, Holding, At, Publish,
          tokenVars, nodeVars, callVars
    <2>4. /\ cur' \in [Threads -> 0 .. MaxSequence] /\ fault' \in [Threads -> BOOLEAN]
          /\ pumping' \in BOOLEAN /\ closing' \in BOOLEAN /\ shutdown' \in BOOLEAN
      BY Ranges DEF IInv, TypeOK, Sequences1, Threads, Publish, tokenVars, nodeVars,
          callVars
    <2>5. pc'["host"] \in HostLabels /\ pc'["worker"] \in WorkerLabels
      BY <1>1 DEF IInv, TypeOK, HostLabels, WorkerLabels, PumpLabels
    <2> QED
      BY <1>2, <2>1, <2>2, <2>3, <2>4, <2>5 DEF TypeOK
  <1>4. CallOK' /\ PumpOK' /\ CreditOK' /\ CloseOK' /\ OwnersOK'
    BY <1>1, Ranges DEF IInv, Publish, tokenVars, nodeVars, callVars, CallOK,
        Unpublished, Published, At, PumpOK, PumpLabels, CreditOK, CloseOK, OwnersOK,
        Finishing, Registering
  <1>5. OrderOK'
    <2>1. /\ nodes' = nodes \cup {mine} /\ fifo' = Append(fifo, mine)
          /\ UNCHANGED <<next, completed>> /\ pc["host"] \in Unpublished
      BY DEF tokenVars, At, Unpublished, Publish
    <2>2. /\ mine \in Sequences1 /\ mine = next - 1 /\ mine \notin nodes
          /\ completed < mine /\ fifo \in Seq(Sequences1)
      BY <2>1, Ranges DEF IInv, CallOK, TypeOK
    <2>3. Elements(fifo)' = nodes'
      BY <2>1, <2>2, AppendLemma DEF IInv, OrderOK, Elements
    <2>4. ASSUME NEW s \in nodes PROVE s < mine
      <3>1. s < next /\ s # mine
        BY <2>2 DEF IInv, OrderOK
      <3>2. s \in Nat /\ mine \in Nat /\ next \in Nat
        BY <2>2, Ranges
      <3> QED
        BY <2>2, <3>1, <3>2
    <2>5. /\ \A i \in 1 .. Len(fifo) : fifo[i] \in nodes
          /\ Len(fifo) \in Nat
      BY <2>2 DEF IInv, OrderOK, Elements
    <2>6. Increasing(fifo)'
      BY <2>1, <2>2, <2>4, <2>5, AppendLemma DEF IInv, OrderOK, Increasing
    <2>7. \A s \in nodes' : s < next'
      BY <2>1, <2>2, Ranges DEF IInv, OrderOK
    <2> QED
      BY <2>1, <2>2, <2>3, <2>6, <2>7, Ranges DEF IInv, OrderOK
  <1>6. WorkOK'
    <2>1. Elements(tasks)' = Elements(tasks) /\ tasks' = tasks
      BY DEF Elements, Publish, tokenVars, nodeVars, callVars
    <2>2. WorkOK /\ executing' = executing
      BY DEF IInv, Publish, tokenVars, nodeVars, callVars
    <2> QED
      BY <1>1, <2>1, <2>2, InDispatchIs DEF WorkOK, OnWorker, Holding, At, Publish,
          tokenVars, nodeVars, callVars
  <1>7. TokensOK'
    <2>1. UNCHANGED <<next, skipped, issued, mine, fault>> /\ pc["host"] = "publish"
      BY DEF tokenVars, callVars, At, Publish
    <2>2. ~fault["host"] /\ ~fault'["host"]
      BY <2>1 DEF IInv, CallOK, Unpublished
    <2>3. Open' = Open
      BY <1>1, <2>1, <2>2 DEF Open, CallOpen, Unpublished, Published
    <2> QED
      BY <2>1, <2>3, TokensSame DEF IInv
  <1> QED
    BY <1>3, <1>4, <1>5, <1>6, <1>7 DEF IInv

(* A failed allocation keeps the invariant. *)
LEMMA PublishFailsStep ==
    ASSUME IInv, PublishFails
    PROVE  IInv'
  <1>1. pc'["host"] = "unwind" /\ pc'["worker"] = pc["worker"]
    BY DEF IInv, TypeOK, Threads, At, Goto, PublishFails, tokenVars, nodeVars, callVars
  <1>2. pc' \in [Threads -> HostLabels \cup WorkerLabels]
    BY DEF IInv, TypeOK, HostLabels, WorkerLabels, PumpLabels, Goto, PublishFails,
        tokenVars, nodeVars, callVars
  <1>3. TypeOK'
    BY <1>1, <1>2, Ranges DEF IInv, PublishFails, tokenVars, nodeVars, callVars, TypeOK,
        HostLabels, WorkerLabels, PumpLabels, Threads, Sequences1, At
  <1>4. CallOK' /\ OrderOK' /\ PumpOK' /\ CreditOK' /\ CloseOK' /\ OwnersOK' /\ TokensOK'
    BY <1>1, Ranges DEF IInv, PublishFails, tokenVars, nodeVars, callVars, CallOK,
        Unpublished, Published, At, OrderOK, Elements, Increasing, PumpOK, PumpLabels,
        CreditOK, CloseOK, OwnersOK, Finishing, Registering, TokensOK, Waitable, Open,
        CallOpen
  <1>5. WorkOK'
    BY <1>1, InDispatchIs DEF IInv, PublishFails, tokenVars, nodeVars, callVars, WorkOK,
        OnWorker, Holding, Elements, At
  <1> QED
    BY <1>3, <1>4, <1>5 DEF IInv

(* Rolling back keeps it: the number handed back was no token. *)
LEMMA UnwindStep ==
    ASSUME IInv, Unwind
    PROVE  IInv'
  <1>1. pc'["host"] = "idle" /\ pc'["worker"] = pc["worker"]
    BY DEF IInv, TypeOK, Threads, At, Goto, Unwind, AbandonSequence, tokenVars,
        nodeVars, callVars
  <1>2. pc' \in [Threads -> HostLabels \cup WorkerLabels]
    BY DEF IInv, TypeOK, HostLabels, WorkerLabels, PumpLabels, Goto, Unwind,
        AbandonSequence, tokenVars, nodeVars, callVars
  <1>a. pc["host"] = "unwind" /\ pc["host"] \in Unpublished /\ AbandonSequence(mine)
    BY DEF At, Unpublished, Unwind
  <1>3. TypeOK'
    <2>1. /\ next' \in 1 .. MaxSequence + 1
          /\ completed' \in 0 .. MaxSequence
          /\ mine' \in 0 .. MaxSequence
      <3>1. next' = mine /\ mine \in Sequences1 /\ completed' = completed
        BY <1>a, AbandonIs
      <3>2. mine' = mine \/ mine' = 0
        BY DEF Unwind
      <3>3. mine \in 1 .. MaxSequence + 1 /\ mine \in 0 .. MaxSequence
        BY <3>1, Ranges DEF Sequences1
      <3>4. completed \in 0 .. MaxSequence /\ 0 \in 0 .. MaxSequence
        BY Ranges DEF IInv, TypeOK
      <3> QED
        BY <3>1, <3>2, <3>3, <3>4
    <2>2. /\ failures' \subseteq Sequences1 /\ pending' \subseteq Sequences1
          /\ skipped' \subseteq Sequences1 /\ live' \subseteq Sequences1
          /\ nodes' \subseteq Sequences1 /\ executing' \subseteq nodes'
          /\ drainList' \subseteq Sequences1 /\ issued' \subseteq Sequences1
          /\ observed' \subseteq Sequences1 \X {"ok", "failed"}
      BY <1>1, Ranges DEF IInv, TypeOK, CallOK, Unpublished, Published, Holding, At,
          Unwind, AbandonSequence, tokenVars, nodeVars, callVars
    <2>3. fifo' \in Seq(Sequences1) /\ credits' \in Nat /\ tasks' \in Seq(Sequences1)
      BY <1>1, Ranges DEF IInv, TypeOK, Unpublished, Published, Holding, At, Unwind,
          AbandonSequence, tokenVars, nodeVars, callVars
    <2>4. /\ cur' \in [Threads -> 0 .. MaxSequence] /\ fault' \in [Threads -> BOOLEAN]
          /\ pumping' \in BOOLEAN /\ closing' \in BOOLEAN /\ shutdown' \in BOOLEAN
      BY Ranges DEF IInv, TypeOK, Sequences1, Threads, Unwind, AbandonSequence,
          tokenVars, nodeVars, callVars
    <2>5. pc'["host"] \in HostLabels /\ pc'["worker"] \in WorkerLabels
      BY <1>1 DEF IInv, TypeOK, HostLabels, WorkerLabels, PumpLabels
    <2> QED
      BY <1>2, <2>1, <2>2, <2>3, <2>4, <2>5 DEF TypeOK
  <1>4. CallOK' /\ PumpOK' /\ CreditOK' /\ CloseOK'
    BY <1>1, Ranges DEF IInv, Unwind, AbandonSequence, tokenVars, nodeVars, callVars,
        CallOK, Unpublished, Published, At, PumpOK, PumpLabels, CreditOK, CloseOK
  <1>5. OrderOK'
    <2>1. UNCHANGED <<nodes, fifo>>
      BY DEF nodeVars, Unwind
    <2>2. \A s \in nodes : s < mine
      BY <1>a, AbandonIs, Ranges DEF IInv, OrderOK, Sequences1
    <2> QED
      BY <1>a, <2>1, <2>2, AbandonIs DEF IInv, OrderOK, Elements, Increasing
  <1>6. WorkOK'
    <2>1. tasks' = tasks /\ executing' = executing /\ OnWorker' = OnWorker
      BY <1>1 DEF Unwind, nodeVars, OnWorker, At
    <2>2. InDispatch' = InDispatch
      BY <1>1, InDispatchIs DEF Unwind, nodeVars, Holding, At
    <2> QED
      BY <2>1, <2>2 DEF IInv, WorkOK, Elements
  <1>7. TokensOK'
    <2>1. issued' = issued /\ next' = mine /\ skipped' = skipped /\ Open' = {}
      BY <1>1, <1>a, AbandonIs DEF IInv, TypeOK, Threads, Open, CallOpen, Unpublished,
          Published, callVars, Unwind
    <2>2. /\ mine \in Nat /\ 1 <= mine /\ next - 1 = mine /\ mine \notin skipped
          /\ mine \notin issued
      BY <1>a, AbandonIs, Ranges DEF Sequences1
    <2>3. Waitable = issued \cup {mine} /\ skipped \subseteq 1 .. mine
      BY <1>a, <2>2 DEF IInv, TokensOK, Open, CallOpen
    <2>4. Waitable' = issued /\ skipped \subseteq 1 .. mine - 1
      BY <2>1, <2>2, <2>3 DEF Waitable
    <2> QED
      BY <2>1, <2>4 DEF TokensOK
  <1>8. OwnersOK'
    <2>1. nodes' = nodes /\ live' = live \ {mine} /\ cur' = cur
      BY DEF nodeVars, Unwind
    <2>2. mine \notin nodes /\ Registering = {mine} /\ Finishing' = Finishing
      BY <1>1, <1>a, <2>1, AbandonIs DEF Registering, Finishing, At
    <2> QED
      BY <1>1, <2>1, <2>2 DEF IInv, OwnersOK, At
  <1> QED
    BY <1>3, <1>4, <1>5, <1>6, <1>7, <1>8 DEF IInv

(* Leaving the pump to the other thread keeps it. *)
LEMMA PumpBusyStep ==
    ASSUME IInv, NEW t \in Threads, PumpBusy(t)
    PROVE  IInv'
  <1>1. \/ t = "host" /\ pc'["host"] = "idle" /\ pc'["worker"] = pc["worker"]
        \/ t = "worker" /\ pc'["worker"] = "idle" /\ pc'["host"] = pc["host"]
    BY DEF IInv, TypeOK, Threads, At, Goto, PumpBusy, LeavePump, tokenVars, nodeVars,
        callVars
  <1>2. pc' \in [Threads -> HostLabels \cup WorkerLabels]
    BY DEF IInv, TypeOK, HostLabels, WorkerLabels, PumpLabels, Goto, PumpBusy,
        LeavePump, tokenVars, nodeVars, callVars
  <1>3. TypeOK'
    <2>1. /\ next' \in 1 .. MaxSequence + 1
          /\ completed' \in 0 .. MaxSequence
          /\ mine' \in 0 .. MaxSequence
      <3>1. UNCHANGED <<next, completed>> /\ (mine' = mine \/ mine' = 0)
        BY DEF tokenVars, LeavePump, PumpBusy
      <3> QED
        BY <3>1, Ranges DEF IInv, TypeOK
    <2>2. /\ failures' \subseteq Sequences1 /\ pending' \subseteq Sequences1
          /\ skipped' \subseteq Sequences1 /\ live' \subseteq Sequences1
          /\ nodes' \subseteq Sequences1 /\ executing' \subseteq nodes'
          /\ drainList' \subseteq Sequences1 /\ issued' \subseteq Sequences1
          /\ observed' \subseteq Sequences1 \X {"ok", "failed"}
      BY <1>1, Ranges DEF IInv, TypeOK, CallOK, Unpublished, Published, Holding, At,
          PumpBusy, LeavePump, tokenVars, nodeVars, callVars
    <2>3. fifo' \in Seq(Sequences1) /\ credits' \in Nat /\ tasks' \in Seq(Sequences1)
      BY <1>1, Ranges DEF IInv, TypeOK, Unpublished, Published, Holding, At, PumpBusy,
          LeavePump, tokenVars, nodeVars, callVars
    <2>4. /\ cur' \in [Threads -> 0 .. MaxSequence] /\ fault' \in [Threads -> BOOLEAN]
          /\ pumping' \in BOOLEAN /\ closing' \in BOOLEAN /\ shutdown' \in BOOLEAN
      BY Ranges DEF IInv, TypeOK, Sequences1, Threads, PumpBusy, LeavePump, tokenVars,
          nodeVars, callVars
    <2>5. pc'["host"] \in HostLabels /\ pc'["worker"] \in WorkerLabels
      BY <1>1 DEF IInv, TypeOK, HostLabels, WorkerLabels, PumpLabels
    <2> QED
      BY <1>2, <2>1, <2>2, <2>3, <2>4, <2>5 DEF TypeOK
  <1>4. CallOK' /\ OrderOK' /\ PumpOK' /\ CreditOK' /\ CloseOK' /\ OwnersOK' /\ TokensOK'
    <2>1. CallOK'
      BY <1>1, Ranges DEF IInv, PumpBusy, LeavePump, tokenVars, nodeVars, callVars,
          At, Threads, Unpublished, Published, CallOK
    <2>2. OrderOK'
      BY <1>1, Ranges DEF IInv, PumpBusy, LeavePump, tokenVars, nodeVars, callVars,
          At, Threads, OrderOK, Elements, Increasing
    <2>3. PumpOK'
      BY <1>1, Ranges DEF IInv, PumpBusy, LeavePump, tokenVars, nodeVars, callVars,
          At, Threads, PumpOK, PumpLabels
    <2>4. CreditOK'
      BY <1>1, Ranges DEF IInv, PumpBusy, LeavePump, tokenVars, nodeVars, callVars,
          At, Threads, CreditOK
    <2>5. CloseOK'
      BY <1>1, Ranges DEF IInv, PumpBusy, LeavePump, tokenVars, nodeVars, callVars,
          At, Threads, CloseOK
    <2>6. OwnersOK'
      BY <1>1, Ranges DEF IInv, PumpBusy, LeavePump, tokenVars, nodeVars, callVars,
          At, Threads, OwnersOK, Finishing, Registering
    <2>7. TokensOK'
      BY <1>1, Ranges DEF IInv, PumpBusy, LeavePump, tokenVars, nodeVars, callVars,
          At, Threads, TokensOK, Waitable, Open, CallOpen, Unpublished, Published
    <2> QED
      BY <2>1, <2>2, <2>3, <2>4, <2>5, <2>6, <2>7
  <1>5. WorkOK'
    <2>1. Elements(tasks)' = Elements(tasks) /\ tasks' = tasks
      BY DEF Elements, PumpBusy, LeavePump, tokenVars, nodeVars, callVars
    <2>2. WorkOK /\ executing' = executing
      BY DEF IInv, PumpBusy, LeavePump, tokenVars, nodeVars, callVars
    <2> QED
      BY <1>1, <2>1, <2>2, InDispatchIs DEF WorkOK, OnWorker, Holding, At, PumpBusy,
          LeavePump, tokenVars, nodeVars, callVars, Threads
  <1> QED
    BY <1>3, <1>4, <1>5 DEF IInv

(* Entering the pump keeps it: the flag was clear. *)
LEMMA PumpEnterStep ==
    ASSUME IInv, NEW t \in Threads, PumpEnter(t)
    PROVE  IInv'
  <1>1. \/ t = "host" /\ pc'["host"] = "take" /\ pc'["worker"] = pc["worker"]
        \/ t = "worker" /\ pc'["worker"] = "take" /\ pc'["host"] = pc["host"]
    BY DEF IInv, TypeOK, Threads, At, Goto, PumpEnter, tokenVars, nodeVars, callVars
  <1>2. pc' \in [Threads -> HostLabels \cup WorkerLabels]
    BY DEF IInv, TypeOK, HostLabels, WorkerLabels, PumpLabels, Goto, PumpEnter,
        tokenVars, nodeVars, callVars
  <1>3. TypeOK'
    BY <1>1, <1>2, Ranges DEF IInv, PumpEnter, tokenVars, nodeVars, callVars, TypeOK,
        HostLabels, WorkerLabels, PumpLabels, Threads, Sequences1, At
  <1>4. CallOK' /\ OrderOK' /\ PumpOK' /\ CreditOK' /\ CloseOK'
    BY <1>1, Ranges DEF IInv, PumpEnter, tokenVars, nodeVars, callVars, CallOK,
        Unpublished, Published, At, Threads, OrderOK, Elements, Increasing, PumpOK,
        PumpLabels, CreditOK, CloseOK
  <1>5. WorkOK'
    <2>1. Elements(tasks)' = Elements(tasks) /\ tasks' = tasks
      BY DEF Elements, PumpEnter, tokenVars, nodeVars, callVars
    <2>2. WorkOK /\ executing' = executing
      BY DEF IInv, PumpEnter, tokenVars, nodeVars, callVars
    <2> QED
      BY <1>1, <2>1, <2>2, InDispatchIs DEF WorkOK, OnWorker, Holding, At, PumpEnter,
          tokenVars, nodeVars, callVars, Threads
  <1>6. TokensOK' /\ OwnersOK'
    BY <1>1, Ranges DEF IInv, PumpEnter, tokenVars, nodeVars, callVars, TokensOK,
        Waitable, Open, CallOpen, Unpublished, Published, At, Threads, OwnersOK,
        Finishing, Registering
  <1> QED
    BY <1>3, <1>4, <1>5, <1>6 DEF IInv

(* Leaving the pump for want of work or credit keeps it. *)
LEMMA PumpStopStep ==
    ASSUME IInv, NEW t \in Threads, PumpStop(t)
    PROVE  IInv'
  <1>1. \/ t = "host" /\ pc'["host"] = "idle" /\ pc'["worker"] = pc["worker"]
        \/ t = "worker" /\ pc'["worker"] = "idle" /\ pc'["host"] = pc["host"]
    BY DEF IInv, TypeOK, Threads, At, Goto, PumpStop, LeavePump, tokenVars, nodeVars,
        callVars
  <1>2. pc' \in [Threads -> HostLabels \cup WorkerLabels]
    BY DEF IInv, TypeOK, HostLabels, WorkerLabels, PumpLabels, Goto, PumpStop,
        LeavePump, tokenVars, nodeVars, callVars
  <1>3. TypeOK'
    <2>1. /\ next' \in 1 .. MaxSequence + 1
          /\ completed' \in 0 .. MaxSequence
          /\ mine' \in 0 .. MaxSequence
      <3>1. mine' = mine \/ mine' = 0
        BY DEF PumpStop, LeavePump
      <3>2. next' = next /\ completed' = completed
        BY DEF PumpStop, tokenVars
      <3> QED
        BY <3>1, <3>2, Ranges DEF IInv, TypeOK
    <2>2. /\ failures' \subseteq Sequences1 /\ pending' \subseteq Sequences1
          /\ skipped' \subseteq Sequences1 /\ live' \subseteq Sequences1
          /\ nodes' \subseteq Sequences1 /\ executing' \subseteq nodes'
          /\ drainList' \subseteq Sequences1 /\ issued' \subseteq Sequences1
          /\ observed' \subseteq Sequences1 \X {"ok", "failed"}
      BY <1>1, Ranges DEF IInv, TypeOK, CallOK, Unpublished, Published, Holding, At,
          PumpStop, LeavePump, tokenVars, nodeVars, callVars
    <2>3. fifo' \in Seq(Sequences1) /\ credits' \in Nat /\ tasks' \in Seq(Sequences1)
      BY <1>1, Ranges DEF IInv, TypeOK, Unpublished, Published, Holding, At, PumpStop,
          LeavePump, tokenVars, nodeVars, callVars
    <2>4. /\ cur' \in [Threads -> 0 .. MaxSequence] /\ fault' \in [Threads -> BOOLEAN]
          /\ pumping' \in BOOLEAN /\ closing' \in BOOLEAN /\ shutdown' \in BOOLEAN
      BY Ranges DEF IInv, TypeOK, Sequences1, Threads, PumpStop, LeavePump, tokenVars,
          nodeVars, callVars
    <2>5. pc'["host"] \in HostLabels /\ pc'["worker"] \in WorkerLabels
      BY <1>1 DEF IInv, TypeOK, HostLabels, WorkerLabels, PumpLabels
    <2> QED
      BY <1>2, <2>1, <2>2, <2>3, <2>4, <2>5 DEF TypeOK
  <1>4. CallOK' /\ OrderOK' /\ PumpOK' /\ CreditOK' /\ CloseOK' /\ OwnersOK' /\ TokensOK'
    <2>1. CallOK'
      BY <1>1, Ranges DEF IInv, PumpStop, LeavePump, tokenVars, nodeVars, callVars,
          At, Threads, Unpublished, Published, CallOK
    <2>2. OrderOK'
      BY <1>1, Ranges DEF IInv, PumpStop, LeavePump, tokenVars, nodeVars, callVars,
          At, Threads, OrderOK, Elements, Increasing
    <2>3. PumpOK'
      BY <1>1, Ranges DEF IInv, PumpStop, LeavePump, tokenVars, nodeVars, callVars,
          At, Threads, PumpOK, PumpLabels
    <2>4. CreditOK'
      BY <1>1, Ranges DEF IInv, PumpStop, LeavePump, tokenVars, nodeVars, callVars,
          At, Threads, CreditOK
    <2>5. CloseOK'
      BY <1>1, Ranges DEF IInv, PumpStop, LeavePump, tokenVars, nodeVars, callVars,
          At, Threads, CloseOK
    <2>6. OwnersOK'
      BY <1>1, Ranges DEF IInv, PumpStop, LeavePump, tokenVars, nodeVars, callVars,
          At, Threads, OwnersOK, Finishing, Registering
    <2>7. TokensOK'
      BY <1>1, Ranges DEF IInv, PumpStop, LeavePump, tokenVars, nodeVars, callVars,
          At, Threads, TokensOK, Waitable, Open, CallOpen, Unpublished, Published
    <2> QED
      BY <2>1, <2>2, <2>3, <2>4, <2>5, <2>6, <2>7
  <1>5. WorkOK'
    <2>1. tasks' = tasks /\ executing' = executing /\ OnWorker' = OnWorker
      BY <1>1 DEF PumpStop, LeavePump, nodeVars, Threads, OnWorker, At
    <2>2. InDispatch' = InDispatch
      BY <1>1, InDispatchIs DEF PumpStop, LeavePump, nodeVars, Threads, Holding, At
    <2> QED
      BY <2>1, <2>2 DEF IInv, WorkOK, Elements
  <1> QED
    BY <1>3, <1>4, <1>5 DEF IInv

(* Taking a parked node keeps it: a credit was free. *)
LEMMA PumpTakeStep ==
    ASSUME IInv, NEW t \in Threads, PumpTake(t)
    PROVE  IInv'
  <1>1. \/ t = "host" /\ pc'["host"] = "dispatch" /\ pc'["worker"] = pc["worker"]
        \/ t = "worker" /\ pc'["worker"] = "dispatch" /\ pc'["host"] = pc["host"]
    BY DEF IInv, TypeOK, Threads, At, Goto, PumpTake, tokenVars, nodeVars, callVars
  <1>2. pc' \in [Threads -> HostLabels \cup WorkerLabels]
    BY DEF IInv, TypeOK, HostLabels, WorkerLabels, PumpLabels, Goto, PumpTake,
        tokenVars, nodeVars, callVars
  <1>a. pc[t] = "take" /\ pc[t] \in PumpLabels /\ pc[t] \notin Holding
    BY DEF At, PumpLabels, Holding, PumpTake
  <1>b. /\ Candidate \in Parked /\ Candidate \in Sequences1 /\ Candidate \in nodes
        /\ Candidate \notin executing
    BY CandidateLemma, Ranges DEF IInv, Parked, PumpTake
  <1>3. TypeOK'
    <2>1. /\ next' \in 1 .. MaxSequence + 1
          /\ completed' \in 0 .. MaxSequence
          /\ mine' \in 0 .. MaxSequence
      BY <1>1, Ranges DEF IInv, TypeOK, CallOK, Unpublished, Published, Holding,
          Sequences1, At, PumpTake, tokenVars, nodeVars, callVars
    <2>2. /\ failures' \subseteq Sequences1 /\ pending' \subseteq Sequences1
          /\ skipped' \subseteq Sequences1 /\ live' \subseteq Sequences1
          /\ nodes' \subseteq Sequences1 /\ executing' \subseteq nodes'
          /\ drainList' \subseteq Sequences1 /\ issued' \subseteq Sequences1
          /\ observed' \subseteq Sequences1 \X {"ok", "failed"}
      BY <1>1, Ranges, <1>b DEF IInv, TypeOK, CallOK, Unpublished, Published, Holding,
          At, PumpTake, tokenVars, nodeVars, callVars
    <2>3. fifo' \in Seq(Sequences1) /\ credits' \in Nat /\ tasks' \in Seq(Sequences1)
      BY <1>1, Ranges DEF IInv, TypeOK, Unpublished, Published, Holding, At, PumpTake,
          tokenVars, nodeVars, callVars
    <2>4. /\ cur' \in [Threads -> 0 .. MaxSequence] /\ fault' \in [Threads -> BOOLEAN]
          /\ pumping' \in BOOLEAN /\ closing' \in BOOLEAN /\ shutdown' \in BOOLEAN
      BY Ranges, <1>b DEF IInv, TypeOK, Sequences1, Threads, PumpTake, tokenVars,
          nodeVars, callVars
    <2>5. pc'["host"] \in HostLabels /\ pc'["worker"] \in WorkerLabels
      BY <1>1 DEF IInv, TypeOK, HostLabels, WorkerLabels, PumpLabels
    <2> QED
      BY <1>2, <2>1, <2>2, <2>3, <2>4, <2>5 DEF TypeOK
  <1>4. CallOK' /\ OrderOK' /\ PumpOK' /\ CloseOK'
    BY <1>1, Ranges DEF IInv, PumpTake, tokenVars, nodeVars, callVars, CallOK,
        Unpublished, Published, At, Threads, OrderOK, Elements, Increasing, PumpOK,
        PumpLabels, CloseOK
  <1>5. WorkOK'
    <2>1. /\ executing' = executing \cup {Candidate}
          /\ cur' = [cur EXCEPT ![t] = Candidate] /\ tasks' = tasks
      BY DEF PumpTake
    <2>2. InDispatch = {} /\ \A u \in Threads : u # t => pc[u] \notin Holding
      BY <1>a, LonePump
    <2>3. InDispatch' = {Candidate}
      BY <1>1, <2>1, <2>2, InDispatchIs DEF IInv, TypeOK, Threads, Holding
    <2>4. OnWorker' = OnWorker /\ Elements(tasks)' = Elements(tasks)
      BY <1>1, <1>a, <2>1 DEF IInv, TypeOK, Threads, OnWorker, Elements
    <2> QED
      BY <1>b, <2>1, <2>2, <2>3, <2>4 DEF IInv, WorkOK
  <1>6. CreditOK'
    <2>1. /\ executing' = executing \cup {Candidate} /\ credits' = credits + 1
          /\ credits < Capacity
      BY DEF PumpTake
    <2>2. executing \in SUBSET Sequences1
      BY Ranges
    <2>3. /\ Cardinality(executing \cup {Candidate}) = Cardinality(executing) + 1
          /\ Cardinality(executing) \in Nat
      BY <1>b, <2>2, CountLemma
    <2> QED
      BY <2>1, <2>3, Ranges DEF IInv, CreditOK
  <1>7. TokensOK' /\ OwnersOK'
    BY <1>1, Ranges DEF IInv, PumpTake, tokenVars, nodeVars, callVars, TokensOK,
        Waitable, Open, CallOpen, Unpublished, Published, At, Threads, OwnersOK,
        Finishing, Registering
  <1> QED
    BY <1>3, <1>4, <1>5, <1>6, <1>7 DEF IInv

(* Handing a node to the worker keeps it. *)
LEMMA DispatchAcceptStep ==
    ASSUME IInv, NEW t \in Threads, DispatchAccept(t)
    PROVE  IInv'
  <1>1. \/ t = "host" /\ pc'["host"] = "take" /\ pc'["worker"] = pc["worker"]
        \/ t = "worker" /\ pc'["worker"] = "take" /\ pc'["host"] = pc["host"]
    BY DEF IInv, TypeOK, Threads, At, Goto, DispatchAccept, tokenVars, nodeVars,
        callVars
  <1>2. pc' \in [Threads -> HostLabels \cup WorkerLabels]
    BY DEF IInv, TypeOK, HostLabels, WorkerLabels, PumpLabels, Goto, DispatchAccept,
        tokenVars, nodeVars, callVars
  <1>3. TypeOK'
    <2>1. /\ next' \in 1 .. MaxSequence + 1
          /\ completed' \in 0 .. MaxSequence
          /\ mine' \in 0 .. MaxSequence
      BY <1>1, Ranges DEF IInv, TypeOK, CallOK, Unpublished, Published, Holding,
          Sequences1, At, DispatchAccept, tokenVars, nodeVars, callVars
    <2>2. /\ failures' \subseteq Sequences1 /\ pending' \subseteq Sequences1
          /\ skipped' \subseteq Sequences1 /\ live' \subseteq Sequences1
          /\ nodes' \subseteq Sequences1 /\ executing' \subseteq nodes'
          /\ drainList' \subseteq Sequences1 /\ issued' \subseteq Sequences1
          /\ observed' \subseteq Sequences1 \X {"ok", "failed"}
      BY <1>1, Ranges DEF IInv, TypeOK, CallOK, Unpublished, Published, Holding, At,
          DispatchAccept, tokenVars, nodeVars, callVars
    <2>3. fifo' \in Seq(Sequences1) /\ credits' \in Nat /\ tasks' \in Seq(Sequences1)
      <3>1. cur[t] \in Sequences1
        BY LonePump, Ranges DEF DispatchAccept, At, PumpLabels, Holding
      <3> QED
        BY <3>1 DEF IInv, TypeOK, DispatchAccept, nodeVars
    <2>4. /\ cur' \in [Threads -> 0 .. MaxSequence] /\ fault' \in [Threads -> BOOLEAN]
          /\ pumping' \in BOOLEAN /\ closing' \in BOOLEAN /\ shutdown' \in BOOLEAN
      BY Ranges DEF IInv, TypeOK, Sequences1, Threads, DispatchAccept, tokenVars,
          nodeVars, callVars
    <2>5. pc'["host"] \in HostLabels /\ pc'["worker"] \in WorkerLabels
      BY <1>1 DEF IInv, TypeOK, HostLabels, WorkerLabels, PumpLabels
    <2> QED
      BY <1>2, <2>1, <2>2, <2>3, <2>4, <2>5 DEF TypeOK
  <1>4. CallOK' /\ OrderOK' /\ PumpOK' /\ CreditOK' /\ CloseOK' /\ OwnersOK' /\ TokensOK'
    <2>1. CallOK'
      BY <1>1, Ranges DEF IInv, DispatchAccept, tokenVars, nodeVars, callVars, At,
          Threads, Unpublished, Published, CallOK
    <2>2. OrderOK'
      BY <1>1, Ranges DEF IInv, DispatchAccept, tokenVars, nodeVars, callVars, At,
          Threads, OrderOK, Elements, Increasing
    <2>3. PumpOK'
      BY <1>1, Ranges DEF IInv, DispatchAccept, tokenVars, nodeVars, callVars, At,
          Threads, PumpOK, PumpLabels
    <2>4. CreditOK'
      BY <1>1, Ranges DEF IInv, DispatchAccept, tokenVars, nodeVars, callVars, At,
          Threads, CreditOK
    <2>5. CloseOK'
      BY <1>1, Ranges DEF IInv, DispatchAccept, tokenVars, nodeVars, callVars, At,
          Threads, CloseOK
    <2>6. OwnersOK'
      BY <1>1, Ranges DEF IInv, DispatchAccept, tokenVars, nodeVars, callVars, At,
          Threads, OwnersOK, Finishing, Registering
    <2>7. TokensOK'
      BY <1>1, Ranges DEF IInv, DispatchAccept, tokenVars, nodeVars, callVars, At,
          Threads, TokensOK, Waitable, Open, CallOpen, Unpublished, Published
    <2> QED
      BY <2>1, <2>2, <2>3, <2>4, <2>5, <2>6, <2>7
  <1>5. WorkOK'
    <2>0. pc[t] = "dispatch" /\ pc[t] \in PumpLabels /\ pc[t] \in Holding
      BY DEF At, PumpLabels, Holding, DispatchAccept
    <2>1. /\ InDispatch = {cur[t]} /\ cur[t] \in executing /\ cur[t] \in nodes
          /\ cur[t] \notin OnWorker /\ cur[t] \notin Elements(tasks)
          /\ \A u \in Threads : u # t => pc[u] \notin Holding
      BY <2>0, LonePump
    <2>2. executing' = executing /\ cur' = cur /\ tasks' = Append(tasks, cur[t])
      BY DEF nodeVars, DispatchAccept
    <2>3. InDispatch' = {} /\ OnWorker' = OnWorker
      BY <1>1, <2>0, <2>1, <2>2, InDispatchIs DEF Threads, Holding, OnWorker
    <2>4. tasks \in Seq(Sequences1) /\ cur[t] \in Sequences1 /\ Len(tasks) \in Nat
      BY <2>1, Ranges DEF IInv, TypeOK
    <2>5. Elements(tasks)' = Elements(tasks) \cup {cur[t]}
      BY <2>2, <2>4, AppendLemma DEF Elements
    <2>6. \A i, j \in 1 .. Len(tasks') : i # j => tasks'[i] # tasks'[j]
      BY <2>1, <2>2, <2>4, AppendLemma DEF IInv, WorkOK, Elements
    <2> QED
      BY <2>1, <2>2, <2>3, <2>5, <2>6 DEF IInv, WorkOK
  <1> QED
    BY <1>3, <1>4, <1>5 DEF IInv

(* Finding a resource missing keeps it. *)
LEMMA DispatchUnavailableStep ==
    ASSUME IInv, NEW t \in Threads, DispatchUnavailable(t)
    PROVE  IInv'
  <1>1. \/ t = "host" /\ pc'["host"] = "park" /\ pc'["worker"] = pc["worker"]
        \/ t = "worker" /\ pc'["worker"] = "park" /\ pc'["host"] = pc["host"]
    BY DEF IInv, TypeOK, Threads, At, Goto, DispatchUnavailable, tokenVars, nodeVars,
        callVars
  <1>2. pc' \in [Threads -> HostLabels \cup WorkerLabels]
    BY DEF IInv, TypeOK, HostLabels, WorkerLabels, PumpLabels, Goto,
        DispatchUnavailable, tokenVars, nodeVars, callVars
  <1>3. TypeOK'
    BY <1>1, <1>2, Ranges DEF IInv, DispatchUnavailable, tokenVars, nodeVars, callVars,
        TypeOK, HostLabels, WorkerLabels, PumpLabels, Threads, Sequences1, At
  <1>4. CallOK' /\ OrderOK' /\ PumpOK' /\ CreditOK' /\ CloseOK' /\ OwnersOK' /\ TokensOK'
    <2>1. CallOK'
      BY <1>1, Ranges DEF IInv, DispatchUnavailable, tokenVars, nodeVars, callVars,
          At, Threads, Unpublished, Published, CallOK
    <2>2. OrderOK'
      BY <1>1, Ranges DEF IInv, DispatchUnavailable, tokenVars, nodeVars, callVars,
          At, Threads, OrderOK, Elements, Increasing
    <2>3. PumpOK'
      BY <1>1, Ranges DEF IInv, DispatchUnavailable, tokenVars, nodeVars, callVars,
          At, Threads, PumpOK, PumpLabels
    <2>4. CreditOK'
      BY <1>1, Ranges DEF IInv, DispatchUnavailable, tokenVars, nodeVars, callVars,
          At, Threads, CreditOK
    <2>5. CloseOK'
      BY <1>1, Ranges DEF IInv, DispatchUnavailable, tokenVars, nodeVars, callVars,
          At, Threads, CloseOK
    <2>6. OwnersOK'
      BY <1>1, Ranges DEF IInv, DispatchUnavailable, tokenVars, nodeVars, callVars,
          At, Threads, OwnersOK, Finishing, Registering
    <2>7. TokensOK'
      BY <1>1, Ranges DEF IInv, DispatchUnavailable, tokenVars, nodeVars, callVars,
          At, Threads, TokensOK, Waitable, Open, CallOpen, Unpublished, Published
    <2> QED
      BY <2>1, <2>2, <2>3, <2>4, <2>5, <2>6, <2>7
  <1>5. WorkOK'
    <2>1. Elements(tasks)' = Elements(tasks) /\ tasks' = tasks
      BY DEF Elements, DispatchUnavailable, tokenVars, nodeVars, callVars
    <2>2. WorkOK /\ executing' = executing
      BY DEF IInv, DispatchUnavailable, tokenVars, nodeVars, callVars
    <2> QED
      BY <1>1, <2>1, <2>2, InDispatchIs DEF WorkOK, OnWorker, Holding, At,
          DispatchUnavailable, tokenVars, nodeVars, callVars, Threads
  <1> QED
    BY <1>3, <1>4, <1>5 DEF IInv

(* Re-parking a node returns its credit and keeps it. *)
LEMMA ParkStep ==
    ASSUME IInv, NEW t \in Threads, Park(t)
    PROVE  IInv'
  <1>1. \/ t = "host" /\ pc'["host"] = "idle" /\ pc'["worker"] = pc["worker"]
        \/ t = "worker" /\ pc'["worker"] = "idle" /\ pc'["host"] = pc["host"]
    BY DEF IInv, TypeOK, Threads, At, Goto, Park, LeavePump, tokenVars, nodeVars,
        callVars
  <1>2. pc' \in [Threads -> HostLabels \cup WorkerLabels]
    BY DEF IInv, TypeOK, HostLabels, WorkerLabels, PumpLabels, Goto, Park, LeavePump,
        tokenVars, nodeVars, callVars
  <1>a. pc[t] = "park" /\ pc[t] \in PumpLabels /\ pc[t] \in Holding
    BY DEF At, PumpLabels, Holding, Park
  <1>b. /\ InDispatch = {cur[t]} /\ cur[t] \in executing /\ cur[t] \in nodes
        /\ cur[t] \notin OnWorker /\ cur[t] \notin Elements(tasks)
        /\ \A u \in Threads : u # t => pc[u] \notin Holding
    BY <1>a, LonePump
  <1>3. TypeOK'
    <2>1. /\ next' \in 1 .. MaxSequence + 1
          /\ completed' \in 0 .. MaxSequence
          /\ mine' \in 0 .. MaxSequence
      <3>1. mine' = mine \/ mine' = 0
        BY DEF Park, LeavePump
      <3>2. next' = next /\ completed' = completed
        BY DEF Park, tokenVars
      <3> QED
        BY <3>1, <3>2, Ranges DEF IInv, TypeOK
    <2>2. /\ failures' \subseteq Sequences1 /\ pending' \subseteq Sequences1
          /\ skipped' \subseteq Sequences1 /\ live' \subseteq Sequences1
          /\ nodes' \subseteq Sequences1 /\ executing' \subseteq nodes'
          /\ drainList' \subseteq Sequences1 /\ issued' \subseteq Sequences1
          /\ observed' \subseteq Sequences1 \X {"ok", "failed"}
      BY <1>1, Ranges DEF IInv, TypeOK, CallOK, Unpublished, Published, Holding, At,
          Park, LeavePump, tokenVars, nodeVars, callVars
    <2>3. fifo' \in Seq(Sequences1) /\ credits' \in Nat /\ tasks' \in Seq(Sequences1)
      BY <1>1, Ranges DEF IInv, TypeOK, Unpublished, Published, Holding, At, Park,
          LeavePump, tokenVars, nodeVars, callVars
    <2>4. /\ cur' \in [Threads -> 0 .. MaxSequence] /\ fault' \in [Threads -> BOOLEAN]
          /\ pumping' \in BOOLEAN /\ closing' \in BOOLEAN /\ shutdown' \in BOOLEAN
      BY Ranges DEF IInv, TypeOK, Sequences1, Threads, Park, LeavePump, tokenVars,
          nodeVars, callVars
    <2>5. pc'["host"] \in HostLabels /\ pc'["worker"] \in WorkerLabels
      BY <1>1 DEF IInv, TypeOK, HostLabels, WorkerLabels, PumpLabels
    <2> QED
      BY <1>2, <2>1, <2>2, <2>3, <2>4, <2>5 DEF TypeOK
  <1>4. CallOK' /\ OrderOK' /\ PumpOK' /\ CloseOK' /\ OwnersOK' /\ TokensOK'
    <2>1. CallOK'
      BY <1>1, Ranges DEF IInv, Park, LeavePump, tokenVars, nodeVars, callVars, At,
          Threads, Unpublished, Published, CallOK
    <2>2. OrderOK'
      BY <1>1, Ranges DEF IInv, Park, LeavePump, tokenVars, nodeVars, callVars, At,
          Threads, OrderOK, Elements, Increasing
    <2>3. PumpOK'
      BY <1>1, Ranges DEF IInv, Park, LeavePump, tokenVars, nodeVars, callVars, At,
          Threads, PumpOK, PumpLabels
    <2>4. CloseOK'
      BY <1>1, Ranges DEF IInv, Park, LeavePump, tokenVars, nodeVars, callVars, At,
          Threads, CloseOK
    <2>5. OwnersOK'
      BY <1>1, Ranges DEF IInv, Park, LeavePump, tokenVars, nodeVars, callVars, At,
          Threads, OwnersOK, Finishing, Registering
    <2>6. TokensOK'
      BY <1>1, Ranges DEF IInv, Park, LeavePump, tokenVars, nodeVars, callVars, At,
          Threads, TokensOK, Waitable, Open, CallOpen, Unpublished, Published
    <2> QED
      BY <2>1, <2>2, <2>3, <2>4, <2>5, <2>6
  <1>5. WorkOK'
    <2>1. executing' = executing \ {cur[t]} /\ cur' = cur /\ tasks' = tasks
      BY DEF Park
    <2>2. InDispatch' = {} /\ OnWorker' = OnWorker /\ Elements(tasks)' = Elements(tasks)
      BY <1>1, <1>a, <1>b, <2>1, InDispatchIs DEF Threads, Holding, OnWorker, Elements
    <2> QED
      BY <1>b, <2>1, <2>2 DEF IInv, WorkOK
  <1>6. CreditOK'
    <2>1. /\ executing' = executing \ {cur[t]}
          /\ credits' = IF credits # 0 THEN credits - 1 ELSE credits
      BY DEF Park
    <2>2. executing \in SUBSET Sequences1 /\ cur[t] \in Sequences1
      BY <1>b, Ranges
    <2>3. /\ Cardinality(executing \ {cur[t]}) = Cardinality(executing) - 1
          /\ Cardinality(executing) \in Nat /\ Cardinality(executing) # 0
      BY <1>b, <2>2, CountLemma
    <2> QED
      BY <2>1, <2>3, Ranges DEF IInv, CreditOK
  <1> QED
    BY <1>3, <1>4, <1>5, <1>6 DEF IInv

(* Erasing the host's rejected node keeps it. *)
LEMMA DispatchRejectedStep ==
    ASSUME IInv, DispatchRejected
    PROVE  IInv'
  <1>1. pc'["host"] = "abandon" /\ pc'["worker"] = pc["worker"]
    BY DEF IInv, TypeOK, Threads, At, Goto, DispatchRejected, tokenVars, nodeVars,
        callVars
  <1>2. pc' \in [Threads -> HostLabels \cup WorkerLabels]
    BY DEF IInv, TypeOK, HostLabels, WorkerLabels, PumpLabels, Goto, DispatchRejected,
        tokenVars, nodeVars, callVars
  <1>a. /\ pc["host"] = "dispatch" /\ pc["host"] \in Holding /\ pc["host"] \in PumpLabels
        /\ cur["host"] = mine /\ "host" \in Threads
    BY DEF At, PumpLabels, Holding, Threads, DispatchRejected
  <1>b. /\ InDispatch = {mine} /\ mine \in executing /\ mine \in nodes /\ mine \notin OnWorker
        /\ mine \notin Elements(tasks) /\ pc["worker"] \notin Holding
    BY <1>a, LonePump DEF Threads
  <1>c. /\ nodes' = nodes \ {mine} /\ executing' = executing \ {mine}
        /\ fifo' \in Seq(Sequences1) /\ Elements(fifo)' = nodes' /\ Increasing(fifo)'
        /\ credits' \in Nat /\ CreditOK'
    BY <1>b, EraseLemma DEF IInv, DispatchRejected
  <1>d. UNCHANGED <<next, completed, failures, pending, skipped, tasks, live, cur, fault, mine, issued>>
    BY DEF tokenVars, callVars, DispatchRejected
  <1>3. TypeOK'
    <2>1. UNCHANGED <<pumping, closing, shutdown, drainList, observed>>
      BY DEF callVars, DispatchRejected
    <2>2. pc'["host"] \in HostLabels /\ pc'["worker"] \in WorkerLabels
      BY <1>1 DEF IInv, TypeOK, HostLabels, PumpLabels
    <2> QED
      BY <1>2, <1>c, <1>d, <2>1, <2>2 DEF IInv, TypeOK
  <1>4. CallOK'
    <2>1. mine < next /\ ~fault["host"] /\ mine = next - 1
      BY <1>a, <1>b, Ranges DEF IInv, OrderOK, CallOK, Published
    <2>2. completed < mine
      BY <1>b, <2>1, Ranges DEF IInv, OrderOK
    <2> QED
      BY <1>1, <1>c, <1>d, <2>1, <2>2 DEF CallOK, Unpublished, Published
  <1>5. OrderOK'
    BY <1>c, <1>d DEF IInv, OrderOK
  <1>6. PumpOK' /\ CloseOK'
    BY <1>1 DEF IInv, DispatchRejected, tokenVars, nodeVars, callVars, PumpOK,
        PumpLabels, At, CloseOK
  <1>7. WorkOK'
    <2>1. InDispatch' = {} /\ OnWorker' = OnWorker /\ Elements(tasks)' = Elements(tasks)
      BY <1>1, <1>b, <1>d, InDispatchIs DEF Holding, OnWorker, Elements
    <2> QED
      BY <1>b, <1>c, <1>d, <2>1 DEF IInv, WorkOK
  <1>8. CreditOK'
    BY <1>c
  <1>9. TokensOK'
    <2>1. mine < next /\ ~fault["host"] /\ mine = next - 1
      BY <1>a, <1>b, Ranges DEF IInv, OrderOK, CallOK, Published
    <2>2. Open' = Open
      BY <1>1, <1>a, <1>d, <2>1 DEF Open, CallOpen, Unpublished, Published
    <2> QED
      BY <1>d, <2>2, TokensSame DEF IInv
  <1>10. OwnersOK'
    <2>1. Finishing' = Finishing /\ Registering = {} /\ Registering' = {mine}
      BY <1>1, <1>a, <1>d DEF Finishing, Registering, At
    <2> QED
      BY <1>1, <1>c, <1>d, <2>1 DEF IInv, OwnersOK, At
  <1> QED
    BY <1>3, <1>4, <1>5, <1>6, <1>7, <1>8, <1>9, <1>10 DEF IInv

(* Handing back its number keeps it. *)
LEMMA AbandonRejectedStep ==
    ASSUME IInv, AbandonRejected
    PROVE  IInv'
  <1>1. pc'["host"] = "take" /\ pc'["worker"] = pc["worker"]
    BY DEF IInv, TypeOK, Threads, At, Goto, AbandonRejected, AbandonSequence, tokenVars,
        nodeVars, callVars
  <1>2. pc' \in [Threads -> HostLabels \cup WorkerLabels]
    BY DEF IInv, TypeOK, HostLabels, WorkerLabels, PumpLabels, Goto, AbandonRejected,
        AbandonSequence, tokenVars, nodeVars, callVars
  <1>a. pc["host"] = "abandon" /\ pc["host"] \in Unpublished /\ AbandonSequence(mine)
    BY DEF At, Unpublished, AbandonRejected
  <1>3. TypeOK'
    <2>1. /\ next' \in 1 .. MaxSequence + 1
          /\ completed' \in 0 .. MaxSequence
          /\ mine' \in 0 .. MaxSequence
      <3>1. next' = mine /\ mine \in Sequences1 /\ completed' = completed
        BY <1>a, AbandonIs
      <3>2. mine' = mine \/ mine' = 0
        BY DEF AbandonRejected
      <3>3. mine \in 1 .. MaxSequence + 1 /\ mine \in 0 .. MaxSequence
        BY <3>1, Ranges DEF Sequences1
      <3>4. completed \in 0 .. MaxSequence /\ 0 \in 0 .. MaxSequence
        BY Ranges DEF IInv, TypeOK
      <3> QED
        BY <3>1, <3>2, <3>3, <3>4
    <2>2. /\ failures' \subseteq Sequences1 /\ pending' \subseteq Sequences1
          /\ skipped' \subseteq Sequences1 /\ live' \subseteq Sequences1
          /\ nodes' \subseteq Sequences1 /\ executing' \subseteq nodes'
          /\ drainList' \subseteq Sequences1 /\ issued' \subseteq Sequences1
          /\ observed' \subseteq Sequences1 \X {"ok", "failed"}
      BY <1>1, Ranges DEF IInv, TypeOK, CallOK, Unpublished, Published, Holding, At,
          AbandonRejected, AbandonSequence, tokenVars, nodeVars, callVars
    <2>3. fifo' \in Seq(Sequences1) /\ credits' \in Nat /\ tasks' \in Seq(Sequences1)
      BY <1>1, Ranges DEF IInv, TypeOK, Unpublished, Published, Holding, At,
          AbandonRejected, AbandonSequence, tokenVars, nodeVars, callVars
    <2>4. /\ cur' \in [Threads -> 0 .. MaxSequence] /\ fault' \in [Threads -> BOOLEAN]
          /\ pumping' \in BOOLEAN /\ closing' \in BOOLEAN /\ shutdown' \in BOOLEAN
      BY Ranges DEF IInv, TypeOK, Sequences1, Threads, AbandonRejected, AbandonSequence,
          tokenVars, nodeVars, callVars
    <2>5. pc'["host"] \in HostLabels /\ pc'["worker"] \in WorkerLabels
      BY <1>1 DEF IInv, TypeOK, HostLabels, WorkerLabels, PumpLabels
    <2> QED
      BY <1>2, <2>1, <2>2, <2>3, <2>4, <2>5 DEF TypeOK
  <1>4. CallOK'
    <2>1. mine' = mine /\ next' = mine /\ fault'["host"] = TRUE /\ mine \in Sequences1
      BY <1>a, AbandonIs DEF IInv, TypeOK, Threads, AbandonRejected
    <2> QED
      BY <1>1, <2>1 DEF CallOK, Unpublished, Published
  <1>5. OrderOK'
    <2>1. UNCHANGED <<nodes, fifo>>
      BY DEF nodeVars, AbandonRejected
    <2>2. \A s \in nodes : s < mine
      BY <1>a, AbandonIs, Ranges DEF IInv, OrderOK, Sequences1
    <2> QED
      BY <1>a, <2>1, <2>2, AbandonIs DEF IInv, OrderOK, Elements, Increasing
  <1>6. PumpOK' /\ CreditOK' /\ CloseOK'
    BY <1>1 DEF IInv, AbandonRejected, AbandonSequence, tokenVars, nodeVars, callVars,
        PumpOK, PumpLabels, At, CreditOK, CloseOK
  <1>7. WorkOK'
    <2>1. Elements(tasks)' = Elements(tasks) /\ tasks' = tasks
      BY DEF Elements, AbandonRejected, AbandonSequence, tokenVars, nodeVars, callVars
    <2>2. WorkOK /\ executing' = executing
      BY DEF IInv, AbandonRejected, AbandonSequence, tokenVars, nodeVars, callVars
    <2> QED
      BY <1>1, <2>1, <2>2, InDispatchIs DEF WorkOK, OnWorker, Holding, At,
          AbandonRejected, AbandonSequence, tokenVars, nodeVars, callVars
  <1>8. TokensOK'
    <2>1. issued' = issued /\ next' = mine /\ skipped' = skipped /\ Open' = {}
      BY <1>1, <1>a, AbandonIs DEF IInv, TypeOK, Threads, Open, CallOpen, Unpublished,
          Published, callVars, AbandonRejected
    <2>2. /\ mine \in Nat /\ 1 <= mine /\ next - 1 = mine /\ mine \notin skipped
          /\ mine \notin issued
      BY <1>a, AbandonIs, Ranges DEF Sequences1
    <2>3. Waitable = issued \cup {mine} /\ skipped \subseteq 1 .. mine
      BY <1>a, <2>2 DEF IInv, TokensOK, Open, CallOpen
    <2>4. Waitable' = issued /\ skipped \subseteq 1 .. mine - 1
      BY <2>1, <2>2, <2>3 DEF Waitable
    <2> QED
      BY <2>1, <2>4 DEF TokensOK
  <1>9. OwnersOK'
    <2>1. nodes' = nodes /\ live' = live \ {mine} /\ cur' = cur
      BY DEF nodeVars, AbandonRejected
    <2>2. mine \notin nodes /\ Registering = {mine} /\ Finishing' = Finishing
      BY <1>1, <1>a, <2>1, AbandonIs DEF Registering, Finishing, At
    <2> QED
      BY <1>1, <2>1, <2>2 DEF IInv, OwnersOK, At
  <1> QED
    BY <1>3, <1>4, <1>5, <1>6, <1>7, <1>8, <1>9 DEF IInv

(* Completing a later dispatch as failed keeps it. *)
LEMMA DispatchFailsStep ==
    ASSUME IInv, NEW t \in Threads, DispatchFails(t)
    PROVE  IInv'
  <1>1. \/ t = "host" /\ pc'["host"] = "take" /\ pc'["worker"] = pc["worker"]
        \/ t = "worker" /\ pc'["worker"] = "take" /\ pc'["host"] = pc["host"]
    BY DEF IInv, TypeOK, Threads, At, Goto, DispatchFails, Complete, tokenVars,
        nodeVars, callVars
  <1>2. pc' \in [Threads -> HostLabels \cup WorkerLabels]
    BY DEF IInv, TypeOK, HostLabels, WorkerLabels, PumpLabels, Goto, DispatchFails,
        Complete, tokenVars, nodeVars, callVars
  <1>a. pc[t] = "dispatch" /\ pc[t] \in PumpLabels /\ pc[t] \in Holding
    BY DEF At, PumpLabels, Holding, DispatchFails
  <1>b. /\ InDispatch = {cur[t]} /\ cur[t] \in executing /\ cur[t] \in nodes
        /\ cur[t] \notin OnWorker /\ cur[t] \notin Elements(tasks)
        /\ \A u \in Threads : u # t => pc[u] \notin Holding
    BY <1>a, LonePump
  <1>c. /\ nodes' = nodes \ {cur[t]} /\ executing' = executing \ {cur[t]}
        /\ next' = next /\ skipped' = skipped
        /\ fifo' \in Seq(Sequences1) /\ credits' \in Nat
        /\ failures' \subseteq Sequences1 /\ pending' \subseteq Sequences1
        /\ completed' \in 0 .. MaxSequence /\ OrderOK' /\ CreditOK'
        /\ pc["host"] \in Unpublished => completed' < mine /\ mine # cur[t]
    BY <1>b, CompleteIs DEF DispatchFails
  <1>d. /\ UNCHANGED <<tasks, cur, fault, mine, drainList, issued, observed>>
        /\ UNCHANGED <<pumping, closing, shutdown>> /\ live' = live \ {cur[t]}
    BY DEF callVars, DispatchFails
  <1>3. TypeOK'
    <2>1. executing' \subseteq nodes' /\ nodes' \subseteq Sequences1
      BY <1>c, Ranges
    <2>2. pc'["host"] \in HostLabels /\ pc'["worker"] \in WorkerLabels
      BY <1>1 DEF IInv, TypeOK, HostLabels, WorkerLabels, PumpLabels
    <2> QED
      BY <1>2, <1>c, <1>d, <2>1, <2>2 DEF IInv, TypeOK
  <1>4. CallOK'
    BY <1>1, <1>a, <1>c, <1>d DEF IInv, CallOK, Unpublished, Published
  <1>5. OrderOK'
    BY <1>c
  <1>6. PumpOK' /\ CloseOK' /\ TokensOK'
    BY <1>1, Ranges DEF IInv, DispatchFails, Complete, tokenVars, nodeVars, callVars,
        PumpOK, PumpLabels, At, Threads, CloseOK, TokensOK, Waitable, Open, CallOpen,
        Unpublished, Published
  <1>7. WorkOK'
    <2>1. InDispatch' = {} /\ OnWorker' = OnWorker /\ Elements(tasks)' = Elements(tasks)
      BY <1>1, <1>a, <1>b, <1>d, InDispatchIs DEF Threads, Holding, OnWorker, Elements
    <2> QED
      BY <1>b, <1>c, <1>d, <2>1 DEF IInv, WorkOK
  <1>8. CreditOK'
    BY <1>c
  <1>9. OwnersOK'
    <2>1. Finishing' = Finishing /\ Registering' = Registering
      BY <1>1, <1>a, <1>d DEF Finishing, Registering, At
    <2>2. At("host", "publish") => pc["host"] \in Unpublished
      BY DEF At, Unpublished
    <2>3. At("host", "publish")' => At("host", "publish")
      BY <1>1 DEF At
    <2> QED
      BY <1>c, <1>d, <2>1, <2>2, <2>3 DEF IInv, OwnersOK
  <1> QED
    BY <1>3, <1>4, <1>5, <1>6, <1>7, <1>8, <1>9 DEF IInv

(* The worker taking a task keeps it. *)
LEMMA WorkerPopStep ==
    ASSUME IInv, WorkerPop
    PROVE  IInv'
  <1>1. pc'["host"] = pc["host"] /\ pc'["worker"] = "native"
    BY DEF IInv, TypeOK, Threads, At, Goto, WorkerPop, tokenVars, nodeVars, callVars
  <1>2. pc' \in [Threads -> HostLabels \cup WorkerLabels]
    BY DEF IInv, TypeOK, HostLabels, WorkerLabels, PumpLabels, Goto, WorkerPop,
        tokenVars, nodeVars, callVars
  <1>a. /\ tasks \in Seq(Sequences1) /\ tasks # <<>> /\ pc["worker"] = "idle"
        /\ \A i, j \in 1 .. Len(tasks) : i # j => tasks[i] # tasks[j]
    BY DEF IInv, TypeOK, WorkOK, At, WorkerPop
  <1>3. TypeOK'
    <2>1. /\ next' \in 1 .. MaxSequence + 1
          /\ completed' \in 0 .. MaxSequence
          /\ mine' \in 0 .. MaxSequence
      BY <1>1, Ranges DEF IInv, TypeOK, CallOK, Unpublished, Published, Holding,
          Sequences1, At, WorkerPop, tokenVars, nodeVars, callVars
    <2>2. /\ failures' \subseteq Sequences1 /\ pending' \subseteq Sequences1
          /\ skipped' \subseteq Sequences1 /\ live' \subseteq Sequences1
          /\ nodes' \subseteq Sequences1 /\ executing' \subseteq nodes'
          /\ drainList' \subseteq Sequences1 /\ issued' \subseteq Sequences1
          /\ observed' \subseteq Sequences1 \X {"ok", "failed"}
      BY <1>1, Ranges DEF IInv, TypeOK, CallOK, Unpublished, Published, Holding, At,
          WorkerPop, tokenVars, nodeVars, callVars
    <2>3. fifo' \in Seq(Sequences1) /\ credits' \in Nat /\ tasks' \in Seq(Sequences1)
      BY <1>1, Ranges DEF IInv, TypeOK, Unpublished, Published, Holding, At, WorkerPop,
          tokenVars, nodeVars, callVars
    <2>4. /\ cur' \in [Threads -> 0 .. MaxSequence] /\ fault' \in [Threads -> BOOLEAN]
          /\ pumping' \in BOOLEAN /\ closing' \in BOOLEAN /\ shutdown' \in BOOLEAN
      <3>1. Head(tasks) \in 0 .. MaxSequence
        BY <1>a, TailLemma, Ranges DEF Sequences1
      <3> QED
        BY <3>1 DEF IInv, TypeOK, WorkerPop, Threads
    <2>5. pc'["host"] \in HostLabels /\ pc'["worker"] \in WorkerLabels
      BY <1>1 DEF IInv, TypeOK, HostLabels, WorkerLabels, PumpLabels
    <2> QED
      BY <1>2, <2>1, <2>2, <2>3, <2>4, <2>5 DEF TypeOK
  <1>4. CallOK' /\ OrderOK' /\ PumpOK' /\ CreditOK' /\ CloseOK' /\ OwnersOK' /\ TokensOK'
    <2>1. CallOK'
      BY <1>1, Ranges DEF IInv, WorkerPop, tokenVars, nodeVars, callVars, At,
          Unpublished, Published, CallOK
    <2>2. OrderOK'
      BY <1>1, Ranges DEF IInv, WorkerPop, tokenVars, nodeVars, callVars, At, OrderOK,
          Elements, Increasing
    <2>3. PumpOK'
      BY <1>1, Ranges DEF IInv, WorkerPop, tokenVars, nodeVars, callVars, At, PumpOK,
          PumpLabels
    <2>4. CreditOK'
      BY <1>1, Ranges DEF IInv, WorkerPop, tokenVars, nodeVars, callVars, At, CreditOK
    <2>5. CloseOK'
      BY <1>1, Ranges DEF IInv, WorkerPop, tokenVars, nodeVars, callVars, At, CloseOK
    <2>6. OwnersOK'
      BY <1>1, Ranges DEF IInv, WorkerPop, tokenVars, nodeVars, callVars, At,
          OwnersOK, Finishing, Registering
    <2>7. TokensOK'
      BY <1>1, Ranges DEF IInv, WorkerPop, tokenVars, nodeVars, callVars, At,
          TokensOK, Waitable, Open, CallOpen, Unpublished, Published
    <2> QED
      BY <2>1, <2>2, <2>3, <2>4, <2>5, <2>6, <2>7
  <1>5. WorkOK'
    <2>1. /\ executing' = executing /\ cur' = [cur EXCEPT !["worker"] = Head(tasks)]
          /\ tasks' = Tail(tasks)
      BY DEF nodeVars, WorkerPop
    <2>2. /\ Elements(tasks) = Elements(Tail(tasks)) \cup {Head(tasks)}
          /\ Head(tasks) \notin Elements(Tail(tasks))
          /\ \A i, j \in 1 .. Len(Tail(tasks)) : i # j => Tail(tasks)[i] # Tail(tasks)[j]
      BY <1>a, TailLemma
    <2>3. cur'["host"] = cur["host"] /\ cur'["worker"] = Head(tasks)
      BY <2>1 DEF IInv, TypeOK, Threads
    <2>4. InDispatch' = InDispatch /\ OnWorker = {} /\ OnWorker' = {Head(tasks)}
      BY <1>1, <1>a, <2>3, InDispatchIs DEF Holding, OnWorker
    <2>5. Elements(tasks)' = Elements(Tail(tasks))
      BY <2>1 DEF Elements
    <2> QED
      BY <2>1, <2>2, <2>4, <2>5 DEF IInv, WorkOK
  <1> QED
    BY <1>3, <1>4, <1>5 DEF IInv

(* A retained failure keeps it. *)
LEMMA CommitFailureStep ==
    ASSUME IInv, CommitFailure
    PROVE  IInv'
  <1>1. pc'["host"] = pc["host"] /\ pc'["worker"] = pc["worker"]
    BY DEF IInv, TypeOK, Threads, At, Goto, CommitFailure, tokenVars, nodeVars, callVars
  <1>2. pc' \in [Threads -> HostLabels \cup WorkerLabels]
    BY DEF IInv, TypeOK, HostLabels, WorkerLabels, PumpLabels, Goto, CommitFailure,
        tokenVars, nodeVars, callVars
  <1>3. TypeOK'
    <2>1. /\ UNCHANGED <<next, completed, failures, skipped, nodeVars, pumping, closing>>
          /\ UNCHANGED <<shutdown, tasks, live, pc, cur, fault, mine, drainList, callVars>>
      BY DEF CommitFailure
    <2>2. cur["worker"] \in Sequences1
      BY Ranges DEF IInv, TypeOK, Threads, CommitFailure, Sequences1
    <2>3. pending' \subseteq Sequences1
      BY <2>2 DEF IInv, TypeOK, CommitFailure
    <2> QED
      BY <2>1, <2>3 DEF IInv, TypeOK, nodeVars, callVars
  <1>4. CallOK' /\ OrderOK' /\ PumpOK' /\ CreditOK' /\ CloseOK' /\ OwnersOK' /\ TokensOK'
    <2>1. CallOK'
      BY <1>1, Ranges DEF IInv, CommitFailure, tokenVars, nodeVars, callVars, At,
          Unpublished, Published, CallOK
    <2>2. OrderOK'
      BY <1>1, Ranges DEF IInv, CommitFailure, tokenVars, nodeVars, callVars, At,
          OrderOK, Elements, Increasing
    <2>3. PumpOK'
      BY <1>1, Ranges DEF IInv, CommitFailure, tokenVars, nodeVars, callVars, At,
          PumpOK, PumpLabels
    <2>4. CreditOK'
      BY <1>1, Ranges DEF IInv, CommitFailure, tokenVars, nodeVars, callVars, At,
          CreditOK
    <2>5. CloseOK'
      BY <1>1, Ranges DEF IInv, CommitFailure, tokenVars, nodeVars, callVars, At,
          CloseOK
    <2>6. OwnersOK'
      BY <1>1, Ranges DEF IInv, CommitFailure, tokenVars, nodeVars, callVars, At,
          OwnersOK, Finishing, Registering
    <2>7. TokensOK'
      BY <1>1, Ranges DEF IInv, CommitFailure, tokenVars, nodeVars, callVars, At,
          TokensOK, Waitable, Open, CallOpen, Unpublished, Published
    <2> QED
      BY <2>1, <2>2, <2>3, <2>4, <2>5, <2>6, <2>7
  <1>5. WorkOK'
    <2>1. Elements(tasks)' = Elements(tasks) /\ tasks' = tasks
      BY DEF Elements, CommitFailure, tokenVars, nodeVars, callVars
    <2>2. WorkOK /\ executing' = executing
      BY DEF IInv, CommitFailure, tokenVars, nodeVars, callVars
    <2> QED
      BY <1>1, <2>1, <2>2, InDispatchIs DEF WorkOK, OnWorker, Holding, At,
          CommitFailure, tokenVars, nodeVars, callVars
  <1> QED
    BY <1>3, <1>4, <1>5 DEF IInv

(* Finishing native work keeps it. *)
LEMMA WorkerFinishStep ==
    ASSUME IInv, NEW failed \in BOOLEAN, WorkerFinish(failed)
    PROVE  IInv'
  <1>1. pc'["host"] = pc["host"] /\ pc'["worker"] = "complete"
    BY DEF IInv, TypeOK, Threads, At, Goto, WorkerFinish, tokenVars, nodeVars, callVars
  <1>2. pc' \in [Threads -> HostLabels \cup WorkerLabels]
    BY DEF IInv, TypeOK, HostLabels, WorkerLabels, PumpLabels, Goto, WorkerFinish,
        tokenVars, nodeVars, callVars
  <1>3. TypeOK'
    BY <1>1, <1>2, Ranges DEF IInv, WorkerFinish, tokenVars, nodeVars, callVars, TypeOK,
        HostLabels, WorkerLabels, PumpLabels, Threads, Sequences1, At
  <1>4. CallOK' /\ OrderOK' /\ PumpOK' /\ CreditOK' /\ CloseOK' /\ TokensOK'
    <2>1. CallOK'
      BY <1>1, Ranges DEF IInv, WorkerFinish, tokenVars, nodeVars, callVars, At,
          Unpublished, Published, CallOK
    <2>2. OrderOK'
      BY <1>1, Ranges DEF IInv, WorkerFinish, tokenVars, nodeVars, callVars, At,
          OrderOK, Elements, Increasing
    <2>3. PumpOK'
      BY <1>1, Ranges DEF IInv, WorkerFinish, tokenVars, nodeVars, callVars, At,
          PumpOK, PumpLabels
    <2>4. CreditOK'
      BY <1>1, Ranges DEF IInv, WorkerFinish, tokenVars, nodeVars, callVars, At,
          CreditOK
    <2>5. CloseOK'
      BY <1>1, Ranges DEF IInv, WorkerFinish, tokenVars, nodeVars, callVars, At,
          CloseOK
    <2>6. TokensOK'
      BY <1>1, Ranges DEF IInv, WorkerFinish, tokenVars, nodeVars, callVars, At,
          TokensOK, Waitable, Open, CallOpen, Unpublished, Published
    <2> QED
      BY <2>1, <2>2, <2>3, <2>4, <2>5, <2>6
  <1>5. WorkOK'
    <2>1. Elements(tasks)' = Elements(tasks) /\ tasks' = tasks
      BY DEF Elements, WorkerFinish, tokenVars, nodeVars, callVars
    <2>2. WorkOK /\ executing' = executing
      BY DEF IInv, WorkerFinish, tokenVars, nodeVars, callVars
    <2> QED
      BY <1>1, <2>1, <2>2, InDispatchIs DEF WorkOK, OnWorker, Holding, At, WorkerFinish,
          tokenVars, nodeVars, callVars
  <1>6. OwnersOK'
    <2>1. /\ UNCHANGED <<nodes, cur, mine>> /\ live' = live \ {cur["worker"]}
          /\ pc["worker"] = "native"
      BY DEF nodeVars, At, WorkerFinish
    <2>2. Finishing = {} /\ Finishing' = {cur["worker"]} /\ Registering' = Registering
      BY <1>1, <2>1 DEF Finishing, Registering, At
    <2>3. pc["host"] = "publish" => mine # cur["worker"]
      BY <2>1, Ranges DEF IInv, CallOK, Unpublished
    <2> QED
      BY <1>1, <2>1, <2>2, <2>3 DEF IInv, OwnersOK, At
  <1> QED
    BY <1>3, <1>4, <1>5, <1>6 DEF IInv

(* Completing a task keeps it. *)
LEMMA WorkerCompleteStep ==
    ASSUME IInv, WorkerComplete
    PROVE  IInv'
  <1>1. pc'["host"] = pc["host"] /\ pc'["worker"] = (IF closing THEN "idle" ELSE "enter")
    BY DEF IInv, TypeOK, Threads, At, Goto, WorkerComplete, Complete, tokenVars,
        nodeVars, callVars
  <1>2. pc' \in [Threads -> HostLabels \cup WorkerLabels]
    BY DEF IInv, TypeOK, HostLabels, WorkerLabels, PumpLabels, Goto, WorkerComplete,
        Complete, tokenVars, nodeVars, callVars
  <1>a. /\ pc["worker"] = "complete" /\ OnWorker = {cur["worker"]}
    BY DEF At, OnWorker, WorkerComplete
  <1>b. /\ cur["worker"] \in executing /\ cur["worker"] \in nodes
        /\ cur["worker"] \notin InDispatch /\ cur["worker"] \notin Elements(tasks)
    BY <1>a, Ranges DEF IInv, WorkOK
  <1>c. /\ nodes' = nodes \ {cur["worker"]} /\ executing' = executing \ {cur["worker"]}
        /\ next' = next /\ skipped' = skipped
        /\ fifo' \in Seq(Sequences1) /\ credits' \in Nat
        /\ failures' \subseteq Sequences1 /\ pending' \subseteq Sequences1
        /\ completed' \in 0 .. MaxSequence /\ OrderOK' /\ CreditOK'
        /\ pc["host"] \in Unpublished => completed' < mine /\ mine # cur["worker"]
    BY <1>b, CompleteIs DEF WorkerComplete
  <1>d. /\ UNCHANGED <<tasks, cur, fault, mine, drainList, issued, observed>>
        /\ UNCHANGED <<pumping, closing, shutdown, live>>
    BY DEF callVars, WorkerComplete
  <1>3. TypeOK'
    <2>1. executing' \subseteq nodes' /\ nodes' \subseteq Sequences1
      BY <1>c, Ranges
    <2>2. pc'["host"] \in HostLabels /\ pc'["worker"] \in WorkerLabels
      BY <1>1 DEF IInv, TypeOK, HostLabels, WorkerLabels, PumpLabels
    <2> QED
      BY <1>2, <1>c, <1>d, <2>1, <2>2 DEF IInv, TypeOK
  <1>4. CallOK'
    BY <1>1, <1>a, <1>c, <1>d DEF IInv, CallOK, Unpublished, Published
  <1>5. OrderOK'
    BY <1>c
  <1>6. PumpOK' /\ CloseOK' /\ TokensOK'
    BY <1>1, Ranges DEF IInv, WorkerComplete, Complete, tokenVars, nodeVars, callVars,
        PumpOK, PumpLabels, At, CloseOK, TokensOK, Waitable, Open, CallOpen,
        Unpublished, Published
  <1>7. WorkOK'
    <2>1. InDispatch' = InDispatch /\ OnWorker' = {} /\ Elements(tasks)' = Elements(tasks)
      BY <1>1, <1>a, <1>d, InDispatchIs DEF Holding, OnWorker, Elements
    <2> QED
      BY <1>a, <1>b, <1>c, <1>d, <2>1 DEF IInv, WorkOK
  <1>8. CreditOK'
    BY <1>c
  <1>9. OwnersOK'
    <2>1. Finishing = {cur["worker"]} /\ Finishing' = {} /\ Registering' = Registering
      BY <1>1, <1>a, <1>d DEF Finishing, Registering, At
    <2>2. At("host", "publish")' => At("host", "publish")
      BY <1>1 DEF At
    <2> QED
      BY <1>c, <1>d, <2>1, <2>2 DEF IInv, OwnersOK
  <1> QED
    BY <1>3, <1>4, <1>5, <1>6, <1>7, <1>8, <1>9 DEF IInv

(* Starting a wait keeps it. *)
LEMMA WaitBeginStep ==
    ASSUME IInv, NEW s \in issued, WaitBegin(s)
    PROVE  IInv'
  <1>1. pc'["host"] = "waiting" /\ pc'["worker"] = pc["worker"]
    BY DEF IInv, TypeOK, Threads, At, Goto, WaitBegin, tokenVars, nodeVars, callVars
  <1>2. pc' \in [Threads -> HostLabels \cup WorkerLabels]
    BY DEF IInv, TypeOK, HostLabels, WorkerLabels, PumpLabels, Goto, WaitBegin,
        tokenVars, nodeVars, callVars
  <1>3. TypeOK'
    <2>1. /\ UNCHANGED <<tokenVars, nodeVars, pumping, closing, shutdown, tasks, live>>
          /\ UNCHANGED <<fault, mine, drainList, callVars>>
      BY DEF WaitBegin
    <2>2. cur' \in [Threads -> 0 .. MaxSequence]
      <3>1. s \in 0 .. MaxSequence
        BY Ranges DEF IInv, TypeOK, WaitBegin
      <3> QED
        BY <3>1 DEF IInv, TypeOK, WaitBegin, Threads
    <2>3. pc'["host"] \in HostLabels /\ pc'["worker"] \in WorkerLabels
      BY <1>1 DEF IInv, TypeOK, HostLabels
    <2> QED
      BY <1>2, <2>1, <2>2, <2>3 DEF IInv, TypeOK, tokenVars, nodeVars, callVars
  <1>4. CallOK'
    <2>1. cur'["host"] = s /\ s \in Sequences1 /\ mine' = mine /\ pc["host"] = "idle"
      BY DEF IInv, TypeOK, Threads, At, WaitBegin
    <2> QED
      BY <1>1, <2>1 DEF IInv, CallOK, Unpublished, Published
  <1>5. OrderOK' /\ PumpOK' /\ CreditOK' /\ CloseOK'
    BY <1>1, Ranges DEF IInv, WaitBegin, tokenVars, nodeVars, callVars, OrderOK,
        Elements, Increasing, At, PumpOK, PumpLabels, CreditOK, CloseOK
  <1>6. WorkOK'
    BY <1>1, InDispatchIs DEF IInv, WaitBegin, tokenVars, nodeVars, callVars, WorkOK,
        OnWorker, Holding, Elements, At
  <1>7. TokensOK' /\ OwnersOK'
    BY <1>1, Ranges DEF IInv, WaitBegin, tokenVars, nodeVars, callVars, TokensOK,
        Waitable, Open, CallOpen, Unpublished, Published, At, OwnersOK, Finishing,
        Registering
  <1> QED
    BY <1>3, <1>4, <1>5, <1>6, <1>7 DEF IInv

(* Waking from a wait keeps it. *)
LEMMA WaitWakeStep ==
    ASSUME IInv, WaitWake
    PROVE  IInv'
  <1>1. /\ pc'["host"] = (IF cur["host"] \in failures THEN "idle" ELSE "fence")
        /\ pc'["worker"] = pc["worker"]
    BY DEF IInv, TypeOK, Threads, At, Goto, WaitWake, tokenVars, nodeVars, callVars
  <1>2. pc' \in [Threads -> HostLabels \cup WorkerLabels]
    BY DEF IInv, TypeOK, HostLabels, WorkerLabels, PumpLabels, Goto, WaitWake,
        tokenVars, nodeVars, callVars
  <1>3. TypeOK'
    <2>1. /\ next' \in 1 .. MaxSequence + 1
          /\ completed' \in 0 .. MaxSequence
          /\ mine' \in 0 .. MaxSequence
      BY <1>1, Ranges DEF IInv, TypeOK, CallOK, Unpublished, Published, Holding,
          Sequences1, At, WaitWake, tokenVars, nodeVars, callVars
    <2>2. /\ failures' \subseteq Sequences1 /\ pending' \subseteq Sequences1
          /\ skipped' \subseteq Sequences1 /\ live' \subseteq Sequences1
          /\ nodes' \subseteq Sequences1 /\ executing' \subseteq nodes'
          /\ drainList' \subseteq Sequences1 /\ issued' \subseteq Sequences1
          /\ observed' \subseteq Sequences1 \X {"ok", "failed"}
      BY <1>1, Ranges DEF IInv, TypeOK, CallOK, Unpublished, Published, Holding, At,
          WaitWake, tokenVars, nodeVars, callVars
    <2>3. fifo' \in Seq(Sequences1) /\ credits' \in Nat /\ tasks' \in Seq(Sequences1)
      BY <1>1, Ranges DEF IInv, TypeOK, Unpublished, Published, Holding, At, WaitWake,
          tokenVars, nodeVars, callVars
    <2>4. /\ cur' \in [Threads -> 0 .. MaxSequence] /\ fault' \in [Threads -> BOOLEAN]
          /\ pumping' \in BOOLEAN /\ closing' \in BOOLEAN /\ shutdown' \in BOOLEAN
      BY Ranges DEF IInv, TypeOK, Sequences1, Threads, WaitWake, tokenVars, nodeVars,
          callVars
    <2>5. pc'["host"] \in HostLabels /\ pc'["worker"] \in WorkerLabels
      BY <1>1 DEF IInv, TypeOK, HostLabels, WorkerLabels, PumpLabels
    <2> QED
      BY <1>2, <2>1, <2>2, <2>3, <2>4, <2>5 DEF TypeOK
  <1>4. CallOK' /\ OrderOK' /\ PumpOK' /\ CreditOK' /\ CloseOK' /\ OwnersOK' /\ TokensOK'
    BY <1>1, Ranges DEF IInv, WaitWake, tokenVars, nodeVars, callVars, CallOK,
        Unpublished, Published, At, OrderOK, Elements, Increasing, PumpOK, PumpLabels,
        CreditOK, CloseOK, OwnersOK, Finishing, Registering, TokensOK, Waitable, Open,
        CallOpen
  <1>5. WorkOK'
    <2>1. tasks' = tasks /\ executing' = executing /\ OnWorker' = OnWorker
      BY <1>1 DEF WaitWake, nodeVars, OnWorker, At
    <2>2. InDispatch' = InDispatch
      BY <1>1, InDispatchIs DEF WaitWake, Holding, At
    <2> QED
      BY <2>1, <2>2 DEF IInv, WorkOK, Elements
  <1> QED
    BY <1>3, <1>4, <1>5 DEF IInv

(* Returning from a wait keeps it. *)
LEMMA WaitFenceStep ==
    ASSUME IInv, WaitFence
    PROVE  IInv'
  <1>1. pc'["host"] = "idle" /\ pc'["worker"] = pc["worker"]
    BY DEF IInv, TypeOK, Threads, At, Goto, WaitFence, tokenVars, nodeVars, callVars
  <1>2. pc' \in [Threads -> HostLabels \cup WorkerLabels]
    BY DEF IInv, TypeOK, HostLabels, WorkerLabels, PumpLabels, Goto, WaitFence,
        tokenVars, nodeVars, callVars
  <1>3. TypeOK'
    <2>1. /\ next' \in 1 .. MaxSequence + 1
          /\ completed' \in 0 .. MaxSequence
          /\ mine' \in 0 .. MaxSequence
      BY <1>1, Ranges DEF IInv, TypeOK, CallOK, Unpublished, Published, Holding,
          Sequences1, At, WaitFence, tokenVars, nodeVars, callVars
    <2>2. /\ failures' \subseteq Sequences1 /\ pending' \subseteq Sequences1
          /\ skipped' \subseteq Sequences1 /\ live' \subseteq Sequences1
          /\ nodes' \subseteq Sequences1 /\ executing' \subseteq nodes'
          /\ drainList' \subseteq Sequences1 /\ issued' \subseteq Sequences1
          /\ observed' \subseteq Sequences1 \X {"ok", "failed"}
      <3>1. cur["host"] \in Sequences1
        BY DEF IInv, CallOK, WaitFence, At
      <3>2. observed' \subseteq Sequences1 \X {"ok", "failed"}
        BY <3>1 DEF IInv, TypeOK, WaitFence
      <3> QED
        BY <3>2 DEF IInv, TypeOK, WaitFence, tokenVars, nodeVars
    <2>3. fifo' \in Seq(Sequences1) /\ credits' \in Nat /\ tasks' \in Seq(Sequences1)
      BY <1>1, Ranges DEF IInv, TypeOK, Unpublished, Published, Holding, At, WaitFence,
          tokenVars, nodeVars, callVars
    <2>4. /\ cur' \in [Threads -> 0 .. MaxSequence] /\ fault' \in [Threads -> BOOLEAN]
          /\ pumping' \in BOOLEAN /\ closing' \in BOOLEAN /\ shutdown' \in BOOLEAN
      BY Ranges DEF IInv, TypeOK, Sequences1, Threads, WaitFence, tokenVars, nodeVars,
          callVars
    <2>5. pc'["host"] \in HostLabels /\ pc'["worker"] \in WorkerLabels
      BY <1>1 DEF IInv, TypeOK, HostLabels, WorkerLabels, PumpLabels
    <2> QED
      BY <1>2, <2>1, <2>2, <2>3, <2>4, <2>5 DEF TypeOK
  <1>4. CallOK' /\ OrderOK' /\ PumpOK' /\ CreditOK' /\ CloseOK' /\ OwnersOK' /\ TokensOK'
    BY <1>1, Ranges DEF IInv, WaitFence, tokenVars, nodeVars, callVars, CallOK,
        Unpublished, Published, At, OrderOK, Elements, Increasing, PumpOK, PumpLabels,
        CreditOK, CloseOK, OwnersOK, Finishing, Registering, TokensOK, Waitable, Open,
        CallOpen
  <1>5. WorkOK'
    BY <1>1, InDispatchIs DEF IInv, WaitFence, tokenVars, nodeVars, callVars, WorkOK,
        OnWorker, Holding, Elements, At
  <1> QED
    BY <1>3, <1>4, <1>5 DEF IInv

(* Skipping numbers keeps it: the gap becomes no token. *)
LEMMA SeekNextSequenceStep ==
    ASSUME IInv, NEW n \in 2 .. MaxSequence + 1, SeekNextSequence(n)
    PROVE  IInv'
  <1>1. pc'["host"] = pc["host"] /\ pc'["worker"] = pc["worker"]
    BY DEF IInv, TypeOK, Threads, At, Goto, SeekNextSequence, tokenVars, nodeVars,
        callVars
  <1>2. pc' \in [Threads -> HostLabels \cup WorkerLabels]
    BY DEF IInv, TypeOK, HostLabels, WorkerLabels, PumpLabels, Goto, SeekNextSequence,
        tokenVars, nodeVars, callVars
  <1>3. TypeOK'
    <2>1. /\ next' \in 1 .. MaxSequence + 1
          /\ completed' \in 0 .. MaxSequence
          /\ mine' \in 0 .. MaxSequence
      BY <1>1, Ranges DEF IInv, TypeOK, CallOK, Unpublished, Published, Holding,
          Sequences1, At, SeekNextSequence, tokenVars, nodeVars, callVars
    <2>2. /\ failures' \subseteq Sequences1 /\ pending' \subseteq Sequences1
          /\ skipped' \subseteq Sequences1 /\ live' \subseteq Sequences1
          /\ nodes' \subseteq Sequences1 /\ executing' \subseteq nodes'
          /\ drainList' \subseteq Sequences1 /\ issued' \subseteq Sequences1
          /\ observed' \subseteq Sequences1 \X {"ok", "failed"}
      <3>1. next .. n - 1 \subseteq Sequences1
        BY Ranges DEF Sequences1, SeekNextSequence
      <3> QED
        BY <3>1 DEF IInv, TypeOK, SeekNextSequence, nodeVars, callVars
    <2>3. fifo' \in Seq(Sequences1) /\ credits' \in Nat /\ tasks' \in Seq(Sequences1)
      BY <1>1, Ranges DEF IInv, TypeOK, Unpublished, Published, Holding, At,
          SeekNextSequence, tokenVars, nodeVars, callVars
    <2>4. /\ cur' \in [Threads -> 0 .. MaxSequence] /\ fault' \in [Threads -> BOOLEAN]
          /\ pumping' \in BOOLEAN /\ closing' \in BOOLEAN /\ shutdown' \in BOOLEAN
      BY Ranges DEF IInv, TypeOK, Sequences1, Threads, SeekNextSequence, tokenVars,
          nodeVars, callVars
    <2>5. pc'["host"] \in HostLabels /\ pc'["worker"] \in WorkerLabels
      BY <1>1 DEF IInv, TypeOK, HostLabels, WorkerLabels, PumpLabels
    <2> QED
      BY <1>2, <2>1, <2>2, <2>3, <2>4, <2>5 DEF TypeOK
  <1>4. CallOK' /\ OrderOK' /\ PumpOK' /\ CreditOK' /\ CloseOK' /\ OwnersOK'
    <2>1. CallOK'
      BY <1>1, Ranges DEF IInv, SeekNextSequence, tokenVars, nodeVars, callVars, At,
          Unpublished, Published, CallOK
    <2>2. OrderOK'
      <3>1. UNCHANGED <<nodes, fifo, completed>> /\ next' \in Nat /\ next < next'
        BY Ranges DEF SeekNextSequence, nodeVars
      <3>2. \A s \in nodes : s < next'
        BY <3>1, Ranges DEF IInv, OrderOK, Sequences1
      <3> QED
        BY <3>1, <3>2, Ranges DEF IInv, OrderOK, Elements, Increasing
    <2>3. PumpOK'
      BY <1>1, Ranges DEF IInv, SeekNextSequence, tokenVars, nodeVars, callVars, At,
          PumpOK, PumpLabels
    <2>4. CreditOK'
      BY <1>1, Ranges DEF IInv, SeekNextSequence, tokenVars, nodeVars, callVars, At,
          CreditOK
    <2>5. CloseOK'
      BY <1>1, Ranges DEF IInv, SeekNextSequence, tokenVars, nodeVars, callVars, At,
          CloseOK
    <2>6. OwnersOK'
      BY <1>1, Ranges DEF IInv, SeekNextSequence, tokenVars, nodeVars, callVars, At,
          OwnersOK, Finishing, Registering
    <2> QED
      BY <2>1, <2>2, <2>3, <2>4, <2>5, <2>6
  <1>5. WorkOK'
    <2>1. Elements(tasks)' = Elements(tasks) /\ tasks' = tasks
      BY DEF Elements, SeekNextSequence, tokenVars, nodeVars, callVars
    <2>2. WorkOK /\ executing' = executing
      BY DEF IInv, SeekNextSequence, tokenVars, nodeVars, callVars
    <2> QED
      BY <1>1, <2>1, <2>2, InDispatchIs DEF WorkOK, OnWorker, Holding, At,
          SeekNextSequence, tokenVars, nodeVars, callVars
  <1>6. TokensOK'
    <2>1. /\ next' = n /\ skipped' = skipped \cup (next .. n - 1) /\ n > next /\ n \in Nat
          /\ UNCHANGED <<issued, pc, fault, mine>>
      BY Ranges DEF callVars, SeekNextSequence
    <2>2. Open' = Open
      BY <2>1 DEF Open, CallOpen
    <2>3. next \in Nat /\ skipped \subseteq 1 .. next - 1
      BY Ranges DEF IInv, TokensOK
    <2>4. Waitable' = {s \in 1 .. n - 1 : s \notin skipped \cup (next .. n - 1)}
      BY <2>1 DEF Waitable
    <2>5. Waitable' = Waitable
      BY <2>1, <2>3, <2>4 DEF Waitable
    <2>6. skipped' \subseteq 1 .. next' - 1
      BY <2>1, <2>3, Ranges
    <2> QED
      BY <2>1, <2>2, <2>5, <2>6 DEF IInv, TokensOK
  <1> QED
    BY <1>3, <1>4, <1>5, <1>6 DEF IInv

(* Entering the destructor keeps it. *)
LEMMA DestroyStep ==
    ASSUME IInv, Destroy
    PROVE  IInv'
  <1>1. /\ pc'["host"] = (IF JoinFirst THEN "join" ELSE "close")
        /\ pc'["worker"] = pc["worker"]
    BY DEF IInv, TypeOK, Threads, At, Goto, Destroy, tokenVars, nodeVars, callVars
  <1>2. pc' \in [Threads -> HostLabels \cup WorkerLabels]
    BY DEF IInv, TypeOK, HostLabels, WorkerLabels, PumpLabels, Goto, Destroy, tokenVars,
        nodeVars, callVars
  <1>3. TypeOK'
    BY <1>1, <1>2, Ranges DEF IInv, Destroy, tokenVars, nodeVars, callVars, TypeOK,
        HostLabels, WorkerLabels, PumpLabels, Threads, Sequences1, At
  <1>4. CallOK' /\ OrderOK' /\ PumpOK' /\ CreditOK' /\ CloseOK' /\ OwnersOK' /\ TokensOK'
    BY <1>1, Ranges DEF IInv, Destroy, tokenVars, nodeVars, callVars, CallOK,
        Unpublished, Published, At, OrderOK, Elements, Increasing, PumpOK, PumpLabels,
        CreditOK, CloseOK, OwnersOK, Finishing, Registering, TokensOK, Waitable, Open,
        CallOpen
  <1>5. WorkOK'
    BY <1>1, InDispatchIs DEF IInv, Destroy, tokenVars, nodeVars, callVars, WorkOK,
        OnWorker, Holding, Elements, At
  <1> QED
    BY <1>3, <1>4, <1>5 DEF IInv

(* Closing admission keeps it. *)
LEMMA CloseAdmissionStep ==
    ASSUME IInv, CloseAdmission
    PROVE  IInv'
  <1>1. pc'["host"] = "snapshot" /\ pc'["worker"] = pc["worker"]
    BY DEF IInv, TypeOK, Threads, At, Goto, CloseAdmission, tokenVars, nodeVars,
        callVars
  <1>2. pc' \in [Threads -> HostLabels \cup WorkerLabels]
    BY DEF IInv, TypeOK, HostLabels, WorkerLabels, PumpLabels, Goto, CloseAdmission,
        tokenVars, nodeVars, callVars
  <1>3. TypeOK'
    BY <1>1, <1>2, Ranges DEF IInv, CloseAdmission, tokenVars, nodeVars, callVars,
        TypeOK, HostLabels, WorkerLabels, PumpLabels, Threads, Sequences1, At
  <1>4. CallOK' /\ OrderOK' /\ PumpOK' /\ CreditOK' /\ CloseOK' /\ OwnersOK' /\ TokensOK'
    BY <1>1, Ranges DEF IInv, CloseAdmission, tokenVars, nodeVars, callVars, CallOK,
        Unpublished, Published, At, OrderOK, Elements, Increasing, PumpOK, PumpLabels,
        CreditOK, CloseOK, OwnersOK, Finishing, Registering, TokensOK, Waitable, Open,
        CallOpen
  <1>5. WorkOK'
    BY <1>1, InDispatchIs DEF IInv, CloseAdmission, tokenVars, nodeVars, callVars,
        WorkOK, OnWorker, Holding, Elements, At
  <1> QED
    BY <1>3, <1>4, <1>5 DEF IInv

(* The snapshot of the parked nodes keeps it. *)
LEMMA SnapshotParkedStep ==
    ASSUME IInv, SnapshotParked
    PROVE  IInv'
  <1>1. pc'["host"] = "drain" /\ pc'["worker"] = pc["worker"]
    BY DEF IInv, TypeOK, Threads, At, Goto, SnapshotParked, tokenVars, nodeVars,
        callVars
  <1>2. pc' \in [Threads -> HostLabels \cup WorkerLabels]
    BY DEF IInv, TypeOK, HostLabels, WorkerLabels, PumpLabels, Goto, SnapshotParked,
        tokenVars, nodeVars, callVars
  <1>3. TypeOK'
    <2>1. /\ next' \in 1 .. MaxSequence + 1
          /\ completed' \in 0 .. MaxSequence
          /\ mine' \in 0 .. MaxSequence
      BY <1>1, Ranges DEF IInv, TypeOK, CallOK, Unpublished, Published, Holding,
          Sequences1, At, SnapshotParked, tokenVars, nodeVars, callVars, Parked
    <2>2. /\ failures' \subseteq Sequences1 /\ pending' \subseteq Sequences1
          /\ skipped' \subseteq Sequences1 /\ live' \subseteq Sequences1
          /\ nodes' \subseteq Sequences1 /\ executing' \subseteq nodes'
          /\ drainList' \subseteq Sequences1 /\ issued' \subseteq Sequences1
          /\ observed' \subseteq Sequences1 \X {"ok", "failed"}
      BY <1>1, Ranges DEF IInv, TypeOK, CallOK, Unpublished, Published, Holding, At,
          SnapshotParked, tokenVars, nodeVars, callVars, Parked
    <2>3. fifo' \in Seq(Sequences1) /\ credits' \in Nat /\ tasks' \in Seq(Sequences1)
      BY <1>1, Ranges DEF IInv, TypeOK, Unpublished, Published, Holding, At,
          SnapshotParked, tokenVars, nodeVars, callVars, Parked
    <2>4. /\ cur' \in [Threads -> 0 .. MaxSequence] /\ fault' \in [Threads -> BOOLEAN]
          /\ pumping' \in BOOLEAN /\ closing' \in BOOLEAN /\ shutdown' \in BOOLEAN
      BY Ranges DEF IInv, TypeOK, Sequences1, Threads, SnapshotParked, tokenVars,
          nodeVars, callVars, Parked
    <2>5. pc'["host"] \in HostLabels /\ pc'["worker"] \in WorkerLabels
      BY <1>1 DEF IInv, TypeOK, HostLabels, WorkerLabels, PumpLabels
    <2> QED
      BY <1>2, <2>1, <2>2, <2>3, <2>4, <2>5 DEF TypeOK
  <1>4. CallOK' /\ OrderOK' /\ PumpOK' /\ CreditOK' /\ OwnersOK' /\ TokensOK'
    BY <1>1, Ranges DEF IInv, SnapshotParked, tokenVars, nodeVars, callVars, CallOK,
        Unpublished, Published, At, OrderOK, Elements, Increasing, PumpOK, PumpLabels,
        CreditOK, OwnersOK, Finishing, Registering, TokensOK, Waitable, Open, CallOpen
  <1>5. WorkOK'
    BY <1>1, InDispatchIs DEF IInv, SnapshotParked, tokenVars, nodeVars, callVars,
        WorkOK, OnWorker, Holding, Elements, At
  <1>6. CloseOK'
    <2>1. /\ UNCHANGED <<nodes, tasks>> /\ drainList' = nodes \ executing
          /\ pc["host"] = "snapshot"
      BY DEF nodeVars, At, Parked, SnapshotParked
    <2> QED
      BY <1>1, <2>1, ExitedIdle DEF IInv, CloseOK, At
  <1> QED
    BY <1>3, <1>4, <1>5, <1>6 DEF IInv

(* Ending the drain keeps it: nothing is left once the worker has gone. *)
LEMMA DrainEndStep ==
    ASSUME IInv, DrainEnd
    PROVE  IInv'
  <1>1. /\ pc'["host"] = (IF At("worker", "exited") THEN "destroyed" ELSE "join")
        /\ pc'["worker"] = pc["worker"]
    BY DEF IInv, TypeOK, Threads, At, Goto, DrainEnd, tokenVars, nodeVars, callVars
  <1>2. pc' \in [Threads -> HostLabels \cup WorkerLabels]
    BY DEF IInv, TypeOK, HostLabels, WorkerLabels, PumpLabels, Goto, DrainEnd,
        tokenVars, nodeVars, callVars
  <1>3. TypeOK'
    BY <1>1, <1>2, Ranges DEF IInv, DrainEnd, tokenVars, nodeVars, callVars, TypeOK,
        HostLabels, WorkerLabels, PumpLabels, Threads, Sequences1, At
  <1>4. CallOK' /\ OrderOK' /\ PumpOK' /\ CreditOK' /\ CloseOK' /\ OwnersOK' /\ TokensOK'
    BY <1>1, Ranges DEF IInv, DrainEnd, tokenVars, nodeVars, callVars, CallOK,
        Unpublished, Published, At, OrderOK, Elements, Increasing, PumpOK, PumpLabels,
        CreditOK, CloseOK, OwnersOK, Finishing, Registering, TokensOK, Waitable, Open,
        CallOpen
  <1>5. WorkOK'
    BY <1>1, InDispatchIs DEF IInv, DrainEnd, tokenVars, nodeVars, callVars, WorkOK,
        OnWorker, Holding, Elements, At
  <1> QED
    BY <1>3, <1>4, <1>5 DEF IInv

(* Telling the worker to stop keeps it. *)
LEMMA ShutdownWorkerStep ==
    ASSUME IInv, ShutdownWorker
    PROVE  IInv'
  <1>1. pc'["host"] = "joining" /\ pc'["worker"] = pc["worker"]
    BY DEF IInv, TypeOK, Threads, At, Goto, ShutdownWorker, tokenVars, nodeVars,
        callVars
  <1>2. pc' \in [Threads -> HostLabels \cup WorkerLabels]
    BY DEF IInv, TypeOK, HostLabels, WorkerLabels, PumpLabels, Goto, ShutdownWorker,
        tokenVars, nodeVars, callVars
  <1>3. TypeOK'
    BY <1>1, <1>2, Ranges DEF IInv, ShutdownWorker, tokenVars, nodeVars, callVars,
        TypeOK, HostLabels, WorkerLabels, PumpLabels, Threads, Sequences1, At
  <1>4. CallOK' /\ OrderOK' /\ PumpOK' /\ CreditOK' /\ CloseOK' /\ OwnersOK' /\ TokensOK'
    BY <1>1, Ranges DEF IInv, ShutdownWorker, tokenVars, nodeVars, callVars, CallOK,
        Unpublished, Published, At, OrderOK, Elements, Increasing, PumpOK, PumpLabels,
        CreditOK, CloseOK, OwnersOK, Finishing, Registering, TokensOK, Waitable, Open,
        CallOpen
  <1>5. WorkOK'
    BY <1>1, InDispatchIs DEF IInv, ShutdownWorker, tokenVars, nodeVars, callVars,
        WorkOK, OnWorker, Holding, Elements, At
  <1> QED
    BY <1>3, <1>4, <1>5 DEF IInv

(* Joining the worker keeps it: its list is empty. *)
LEMMA JoinWorkerStep ==
    ASSUME IInv, JoinWorker
    PROVE  IInv'
  <1>1. pc'["host"] = "close" /\ pc'["worker"] = "exited"
    BY DEF IInv, TypeOK, Threads, At, Goto, JoinWorker, tokenVars, nodeVars, callVars
  <1>2. pc' \in [Threads -> HostLabels \cup WorkerLabels]
    BY DEF IInv, TypeOK, HostLabels, WorkerLabels, PumpLabels, Goto, JoinWorker,
        tokenVars, nodeVars, callVars
  <1>3. TypeOK'
    BY <1>1, <1>2, Ranges DEF IInv, JoinWorker, tokenVars, nodeVars, callVars, TypeOK,
        HostLabels, WorkerLabels, PumpLabels, Threads, Sequences1, At
  <1>4. CallOK' /\ OrderOK' /\ PumpOK' /\ CreditOK' /\ CloseOK' /\ OwnersOK' /\ TokensOK'
    BY <1>1, Ranges DEF IInv, JoinWorker, tokenVars, nodeVars, callVars, CallOK,
        Unpublished, Published, At, OrderOK, Elements, Increasing, PumpOK, PumpLabels,
        CreditOK, CloseOK, OwnersOK, Finishing, Registering, TokensOK, Waitable, Open,
        CallOpen
  <1>5. WorkOK'
    BY <1>1, InDispatchIs DEF IInv, JoinWorker, tokenVars, nodeVars, callVars, WorkOK,
        OnWorker, Holding, Elements, At
  <1> QED
    BY <1>3, <1>4, <1>5 DEF IInv
(* Draining one parked node keeps it. *)
LEMMA DrainOneStep ==
    ASSUME IInv, DrainOne
    PROVE  IInv'
  <1> DEFINE least == CHOOSE s \in drainList : \A o \in drainList : s <= o
  <1>1. least \in drainList
    <2>1. drainList \in SUBSET Nat /\ drainList # {}
      BY Ranges DEF IInv, TypeOK, DrainOne
    <2> QED
      BY <2>1, NatMin
  <1>2. /\ drainList' = drainList \ {least}
        /\ IF least \in Parked
           THEN live' = live \ {least} /\ Complete(least, TRUE)
           ELSE UNCHANGED <<live, tokenVars, nodeVars>>
        /\ UNCHANGED <<pumping, closing, shutdown, tasks, pc, cur, fault, mine, issued, observed>>
        /\ pc["host"] = "drain"
    BY DEF DrainOne, At, callVars
  <1> HIDE DEF least
  <1>3. PumpOK'
    BY <1>2 DEF IInv, PumpOK
  <1>4. UNCHANGED <<InDispatch, OnWorker, Elements(tasks), Finishing, Registering, Open>>
    BY <1>2 DEF InDispatch, OnWorker, Elements, Finishing, Registering, Open, CallOpen, At
  <1>5. CASE least \in Parked
    <2>1. least \in nodes /\ least \notin executing /\ least \in Sequences1
      BY <1>5, Ranges DEF Parked
    <2>2. /\ nodes' = nodes \ {least} /\ executing' = executing \ {least}
          /\ next' = next /\ skipped' = skipped
          /\ fifo' \in Seq(Sequences1) /\ credits' \in Nat
          /\ failures' \subseteq Sequences1 /\ pending' \subseteq Sequences1
          /\ completed' \in 0 .. MaxSequence /\ OrderOK' /\ CreditOK'
      BY <1>2, <1>5, <2>1, CompleteIs
    <2>3. executing' = executing /\ live' = live \ {least}
      BY <1>2, <1>5, <2>1, <2>2
    <2>4. TypeOK'
      BY <1>2, <2>2, <2>3, Ranges DEF IInv, TypeOK
    <2>5. CallOK'
      BY <1>2 DEF IInv, CallOK, Unpublished, Published
    <2>6. WorkOK'
      BY <1>2, <1>4, <2>3 DEF IInv, WorkOK
    <2>7. TokensOK'
      BY <1>2, <1>4, <2>2, TokensSame DEF IInv
    <2>8. OwnersOK'
      <3>1. Registering = {}
        BY <1>2 DEF Registering
      <3> QED
        BY <1>2, <1>4, <2>2, <2>3, <3>1 DEF IInv, OwnersOK, At
    <2>9. CloseOK'
      BY <1>2, <2>2 DEF IInv, CloseOK, At
    <2> QED
      BY <1>3, <2>2, <2>4, <2>5, <2>6, <2>7, <2>8, <2>9 DEF IInv
  <1>6. CASE least \notin Parked
    <2>1. UNCHANGED <<next, completed, failures, pending, skipped, nodes, executing, fifo,
                      credits, live>>
      BY <1>2, <1>6 DEF tokenVars, nodeVars
    <2>2. TypeOK'
      BY <1>2, <2>1 DEF IInv, TypeOK
    <2>3. CallOK' /\ OrderOK' /\ CreditOK'
      BY <1>2, <2>1 DEF IInv, CallOK, OrderOK, CreditOK, Elements, Increasing
    <2>4. WorkOK'
      BY <1>2, <1>4, <2>1 DEF IInv, WorkOK
    <2>5. TokensOK'
      BY <1>2, <1>4, <2>1, TokensSame DEF IInv
    <2>6. OwnersOK'
      BY <1>2, <1>4, <2>1 DEF IInv, OwnersOK, At
    <2>7. CloseOK'
      <3>1. At("worker", "exited") => least \notin nodes
        BY <1>6, ExitedIdle DEF Parked
      <3> QED
        BY <1>2, <2>1, <3>1 DEF IInv, CloseOK, At
    <2> QED
      BY <1>3, <2>2, <2>3, <2>4, <2>5, <2>6, <2>7 DEF IInv
  <1> QED
    BY <1>5, <1>6

--------------------------------------------------------------------------------
(* The invariant holds in a new queue. *)
LEMMA InitIInv == Init => IInv
  <1> SUFFICES ASSUME Init PROVE IInv
    OBVIOUS
  <1>1. pc["host"] = "idle" /\ pc["worker"] = "idle"
    BY DEF Init, Threads
  <1>2. TypeOK
    <2>1. next \in 1 .. MaxSequence + 1 /\ 0 \in 0 .. MaxSequence
      BY DeviceOpsAssumption DEF Init
    <2>2. /\ pc \in [Threads -> HostLabels \cup WorkerLabels]
          /\ pc["host"] \in HostLabels /\ pc["worker"] \in WorkerLabels
      BY <1>1 DEF Init, HostLabels, WorkerLabels
    <2>3. cur \in [Threads -> 0 .. MaxSequence] /\ fault \in [Threads -> BOOLEAN]
      BY <2>1 DEF Init
    <2>4. fifo \in Seq(Sequences1) /\ tasks \in Seq(Sequences1) /\ credits \in Nat
      BY DEF Init
    <2>5. pumping \in BOOLEAN /\ closing \in BOOLEAN /\ shutdown \in BOOLEAN
      BY DEF Init
    <2>6. /\ failures = {} /\ pending = {} /\ skipped = {} /\ nodes = {} /\ executing = {}
          /\ live = {} /\ drainList = {} /\ issued = {} /\ observed = {}
          /\ completed = 0 /\ mine = 0
      BY DEF Init
    <2> QED
      BY <2>1, <2>2, <2>3, <2>4, <2>5, <2>6 DEF TypeOK
  <1>3. CallOK /\ PumpOK /\ CloseOK
    BY <1>1 DEF Init, CallOK, PumpOK, CloseOK, Unpublished, Published, PumpLabels, At
  <1>4. OrderOK
    BY DEF Init, OrderOK, Elements, Increasing
  <1>5. WorkOK
    <2>1. InDispatch = {} /\ OnWorker = {} /\ Elements(tasks) = {}
      BY <1>1, InDispatchIs DEF Init, OnWorker, Elements, Holding
    <2> QED
      BY <2>1 DEF Init, WorkOK
  <1>6. CreditOK
    BY FS_EmptySet, DeviceOpsAssumption DEF Init, CreditOK
  <1>7. TokensOK
    BY <1>1 DEF Init, TokensOK, Waitable, Open, CallOpen, Unpublished, Published
  <1>8. OwnersOK
    BY <1>1 DEF Init, OwnersOK, Finishing, At
  <1> QED
    BY <1>2, <1>3, <1>4, <1>5, <1>6, <1>7, <1>8 DEF IInv

(* A step that changes none of the variables keeps it. *)
LEMMA StutterIInv == ASSUME IInv, UNCHANGED vars PROVE IInv'
  <1>1. TypeOK'
    BY DEF IInv, vars, TypeOK
  <1>2. CallOK' /\ OrderOK' /\ PumpOK' /\ CreditOK' /\ CloseOK'
    BY DEF IInv, vars, CallOK, OrderOK, PumpOK, CreditOK, CloseOK, Elements, Increasing, At
  <1>3. WorkOK'
    BY DEF IInv, vars, WorkOK, InDispatch, OnWorker, Elements
  <1>4. TokensOK' /\ OwnersOK'
    BY DEF IInv, vars, TokensOK, OwnersOK, Waitable, Open, CallOpen, Finishing, Registering, At
  <1> QED
    BY <1>1, <1>2, <1>3, <1>4 DEF IInv

(* Every step of either thread keeps it. *)
LEMMA NextIInv == IInv /\ [Next]_vars => IInv'
  <1> SUFFICES ASSUME IInv, [Next]_vars PROVE IInv'
    OBVIOUS
  <1>1. ASSUME NEW t \in Threads, Pump(t) PROVE IInv'
    BY <1>1, PumpBusyStep, PumpEnterStep, PumpStopStep, PumpTakeStep, DispatchAcceptStep,
       DispatchUnavailableStep, ParkStep, DispatchFailsStep DEF Pump
  <1>2. CASE Caller
    BY <1>2, SubmitStep, WaitBeginStep, SeekNextSequenceStep, DestroyStep DEF Caller
  <1>3. CASE Host
    <2>1. "host" \in Threads
      BY DEF Threads
    <2> QED
      BY <1>1, <1>3, <2>1, PrepareStep, PublishStep, PublishFailsStep, UnwindStep,
         DispatchRejectedStep, AbandonRejectedStep, WaitWakeStep, WaitFenceStep,
         CloseAdmissionStep, SnapshotParkedStep, DrainOneStep, DrainEndStep,
         ShutdownWorkerStep, JoinWorkerStep DEF Host
  <1>4. CASE Worker
    <2>1. "worker" \in Threads
      BY DEF Threads
    <2> QED
      BY <1>1, <1>4, <2>1, WorkerPopStep, WorkerFinishStep, WorkerCompleteStep DEF Worker
  <1>5. CASE CommitFailure
    BY <1>5, CommitFailureStep
  <1>6. CASE UNCHANGED vars
    BY <1>6, StutterIInv
  <1> QED
    BY <1>2, <1>3, <1>4, <1>5, <1>6 DEF Next

(* The invariant holds in every state a queue can reach. *)
THEOREM Invariance == Spec => []IInv
  <1>1. Init => IInv
    BY InitIInv
  <1>2. IInv /\ [Next]_vars => IInv'
    BY NextIInv
  <1> QED
    BY <1>1, <1>2, PTL DEF Spec

(* Every field and every thread local of device_ops.cpp keeps its type, for  *)
(* every capacity and every length of the sequence space.                    *)
THEOREM TypeCorrect == Spec => []TypeOK
  <1>1. IInv => TypeOK
    BY DEF IInv
  <1> QED
    BY <1>1, Invariance, PTL

(* admission_fifo_ and admission_nodes_ never disagree, and the deque stays  *)
(* in submission order although the worker erases from its middle.           *)
THEOREM FifoCorrect == Spec => []FifoMatchesNodes
  <1>1. IInv => FifoMatchesNodes
    BY DEF IInv, OrderOK, Elements, Increasing, FifoMatchesNodes
  <1> QED
    BY <1>1, Invariance, PTL

(* admission_credits_ counts the executing nodes exactly, stays within the   *)
(* capacity, and every executing node is in one of the worker's hands.       *)
THEOREM CreditsCorrect == Spec => []CreditsExact
  <1>1. IInv => CreditsExact
    BY DEF IInv, WorkOK, CreditOK, Elements, CreditsExact
  <1> QED
    BY <1>1, Invariance, PTL

(* The host and the worker are never both inside pump_admission's loop.      *)
THEOREM PumpExclusive == Spec => []OnePump
  <1>1. ASSUME IInv PROVE OnePump
    <2> DEFINE pumps == {t \in Threads : pc[t] \in PumpLabels}
    <2>1. CASE pumping
      <3>1. PICK t \in Threads : pumps = {t}
        BY <1>1, <2>1 DEF IInv, PumpOK, Threads
      <3> QED
        BY <2>1, <3>1, FS_Singleton DEF OnePump
    <2>2. CASE ~pumping
      <3>1. pumps = {}
        BY <1>1, <2>2 DEF IInv, PumpOK, Threads
      <3> QED
        BY <2>2, <3>1, FS_EmptySet DEF OnePump
    <2> QED
      BY <2>1, <2>2
  <1> QED
    BY <1>1, Invariance, PTL

(* The deque, the node map, the credits and the pump flag always agree.      *)
THEOREM AdmissionCorrect == Spec => []AdmissionConsistent
  <1>1. TypeOK /\ FifoMatchesNodes /\ CreditsExact /\ OnePump => AdmissionConsistent
    BY DEF AdmissionConsistent
  <1> QED
    BY <1>1, TypeCorrect, FifoCorrect, CreditsCorrect, PumpExclusive, PTL

(* wait() accepts exactly the returned tokens, although failed submissions   *)
(* give their number back and seek_next_sequence leaves gaps.                *)
THEOREM TokensCorrect == Spec => []TokensExact
  <1>1. IInv => TokensExact
    BY DEF IInv, TokensOK, Open, CallOpen, Unpublished, Published, TokensExact, At
  <1> QED
    BY <1>1, Invariance, PTL

(* A submission's owners are registered for as long as it can be dispatched  *)
(* or runs, and no longer.                                                   *)
THEOREM OwnersCorrect == Spec => []OwnersProtected
  <1>1. ASSUME IInv PROVE OwnersProtected
    <2>1. (IF At("worker", "complete") THEN OnWorker ELSE {}) = Finishing
      BY DEF OnWorker, Finishing, At
    <2>2. Registering \subseteq (IF mine # 0 THEN {mine} ELSE {})
      BY <1>1, Ranges DEF Registering, Unpublished, Sequences1
    <2> QED
      BY <1>1, <2>1, <2>2 DEF IInv, OwnersOK, OwnersProtected
  <1> QED
    BY <1>1, Invariance, PTL

(* The destructor leaves nothing behind, whichever of the two orders of      *)
(* closing admission and joining the worker the backend uses.                *)
THEOREM DestructionCorrect == Spec => []DestroyedClean
  <1>1. ASSUME IInv, At("host", "destroyed")
        PROVE  /\ nodes = {} /\ fifo = <<>> /\ credits = 0 /\ tasks = <<>>
               /\ live = {} /\ ~pumping
    <2>1. /\ pc["host"] = "destroyed" /\ pc["worker"] = "exited" /\ nodes = {}
          /\ tasks = <<>>
      BY <1>1 DEF IInv, CloseOK, At
    <2>2. executing = {} /\ live = {}
      BY <1>1, <2>1, Ranges DEF IInv, OwnersOK, Registering
    <2>3. ~pumping
      BY <1>1, <2>1 DEF IInv, PumpOK, PumpLabels
    <2>4. credits = 0
      BY <1>1, <2>2, FS_EmptySet DEF IInv, CreditOK
    <2>5. fifo = <<>>
      <3>1. fifo \in Seq(Sequences1) /\ Elements(fifo) = {}
        BY <1>1, <2>1 DEF IInv, TypeOK, OrderOK
      <3>2. Len(fifo) = 0
        BY <3>1 DEF Elements
      <3> QED
        BY <3>1, <3>2
    <2> QED
      BY <2>1, <2>2, <2>3, <2>4, <2>5
  <1>2. IInv => DestroyedClean
    BY <1>1 DEF DestroyedClean
  <1> QED
    BY <1>2, Invariance, PTL

--------------------------------------------------------------------------------
(* The order in which submissions end: the high-water mark is exact, waits  *)
(* can be repeated, no wakeup is lost, and the queue implements the ordered *)
(* tokens of its contract.                                                  *)
(*                                                                          *)
(* The order is that of a queue whose retried dispatches do not throw.      *)
(* With RetryMayThrow, complete() of the thrown submission moves the mark   *)
(* past work that is still in flight (DispatchFails).                       *)

(* Submissions go through dispatch, task list and worker in their order. *)
SerialOK ==
    /\ Increasing(tasks)
    /\ \A e \in executing, p \in Parked : e < p
    /\ \A s \in Elements(tasks), d \in InDispatch : s < d
    /\ \A w \in OnWorker, s \in Elements(tasks) \cup InDispatch : w < s

(* Only the destructor closes admission or shuts the worker down. *)
Destructor == {"close", "snapshot", "drain", "join", "joining", "destroyed"}
ClosingOK ==
    /\ closing \/ shutdown => pc["host"] \in Destructor
    /\ pc["host"] \in {"snapshot", "drain", "destroyed"} => closing

(* A skipped number is not a submission. *)
KnownOK == nodes \cap skipped = {}

(* What a wait has seen is final. *)
SeenOK ==
    /\ pc["host"] \in {"waiting", "fence"} => cur["host"] \in issued
    /\ pc["host"] = "fence" => cur["host"] \notin nodes \cup failures
    /\ \A s : <<s, "ok">> \in observed => s \in issued \ (nodes \cup failures)
    /\ \A s : <<s, "failed">> \in observed => s \in failures

OInv == SerialOK /\ ClosingOK /\ KnownOK /\ HighWaterExact /\ SeenOK

(* A backend that never parks for a resource is never seen parking one. *)
WakeInv == (\A t \in Threads : pc[t] # "park") /\ NoLostWakeup

--------------------------------------------------------------------------------
(* The functions of the two threads. *)
LEMMA Locals ==
    ASSUME IInv
    PROVE  /\ pc \in [Threads -> HostLabels \cup WorkerLabels]
           /\ cur \in [Threads -> 0 .. MaxSequence] /\ fault \in [Threads -> BOOLEAN]
           /\ Threads = {"host", "worker"}
  BY DEF IInv, TypeOK, Threads

(* The steps that move no submission from one place to another. *)
Calm ==
    /\ UNCHANGED <<nodes, executing, tasks, failures, completed>>
    /\ InDispatch' = InDispatch /\ OnWorker' = OnWorker
    /\ closing => closing'
    /\ shutdown => shutdown'

(* The calls, most of the pump and of the destructor are calm. *)
LEMMA CalmSteps ==
    ASSUME IInv
    PROVE  /\ Submit => Calm
           /\ \A s : WaitBegin(s) => Calm
           /\ \A n \in Int : SeekNextSequence(n) => Calm
           /\ Destroy => Calm
           /\ \A t \in Threads : PumpBusy(t) => Calm
           /\ \A t \in Threads : PumpEnter(t) => Calm
           /\ \A t \in Threads : PumpStop(t) => Calm
           /\ \A t \in Threads : DispatchUnavailable(t) => Calm
           /\ \A ok \in BOOLEAN : Prepare(ok) => Calm
           /\ PublishFails => Calm
           /\ Unwind => Calm
           /\ AbandonRejected => Calm
           /\ WaitWake => Calm
           /\ WaitFence => Calm
           /\ CloseAdmission => Calm
           /\ SnapshotParked => Calm
           /\ DrainEnd => Calm
           /\ ShutdownWorker => Calm
           /\ JoinWorker => Calm
           /\ \A failed \in BOOLEAN : WorkerFinish(failed) => Calm
           /\ CommitFailure => Calm
  <1> USE DEF Calm, OnWorker, Holding, tokenVars, nodeVars, callVars, At, Goto
  <1>1. Submit => Calm
    BY Locals, InDispatchIs DEF Submit
  <1>2. \A s : WaitBegin(s) => Calm
    BY Locals, InDispatchIs DEF WaitBegin
  <1>3. \A n \in Int : SeekNextSequence(n) => Calm
    BY Locals, InDispatchIs DEF SeekNextSequence
  <1>4. Destroy => Calm
    BY Locals, InDispatchIs DEF Destroy
  <1>5. \A t \in Threads : PumpBusy(t) => Calm
    BY Locals, InDispatchIs DEF PumpBusy, LeavePump
  <1>6. \A t \in Threads : PumpEnter(t) => Calm
    BY Locals, InDispatchIs DEF PumpEnter
  <1>7. \A t \in Threads : PumpStop(t) => Calm
    BY Locals, InDispatchIs DEF PumpStop, LeavePump
  <1>8. \A t \in Threads : DispatchUnavailable(t) => Calm
    BY Locals, InDispatchIs DEF DispatchUnavailable
  <1>9. \A ok \in BOOLEAN : Prepare(ok) => Calm
    BY Locals, InDispatchIs DEF Prepare
  <1>10. PublishFails => Calm
    BY Locals, InDispatchIs DEF PublishFails
  <1>11. Unwind => Calm
    BY Locals, InDispatchIs DEF Unwind, AbandonSequence
  <1>12. AbandonRejected => Calm
    BY Locals, InDispatchIs DEF AbandonRejected, AbandonSequence
  <1>13. WaitWake => Calm
    BY Locals, InDispatchIs DEF WaitWake
  <1>14. WaitFence => Calm
    BY Locals, InDispatchIs DEF WaitFence
  <1>15. CloseAdmission => Calm
    BY Locals, InDispatchIs DEF CloseAdmission
  <1>16. SnapshotParked => Calm
    BY Locals, InDispatchIs DEF SnapshotParked
  <1>17. DrainEnd => Calm
    BY Locals, InDispatchIs DEF DrainEnd
  <1>18. ShutdownWorker => Calm
    BY Locals, InDispatchIs DEF ShutdownWorker
  <1>19. JoinWorker => Calm
    BY Locals, InDispatchIs DEF JoinWorker
  <1>20. \A failed \in BOOLEAN : WorkerFinish(failed) => Calm
    BY Locals, InDispatchIs DEF WorkerFinish
  <1>21. CommitFailure => Calm
    BY Locals, InDispatchIs DEF CommitFailure
  <1> QED
    BY <1>1, <1>2, <1>3, <1>4, <1>5, <1>6, <1>7, <1>8, <1>9, <1>10, <1>11, <1>12, <1>13,
       <1>14, <1>15, <1>16, <1>17, <1>18, <1>19, <1>20, <1>21

(* Only the destructor closes anything, in every step. *)
LEMMA ClosingSteps ==
    ASSUME IInv, ClosingOK, [Next]_vars
    PROVE  ClosingOK'
  <1> USE DEF ClosingOK, Destructor, tokenVars, nodeVars, callVars, At, Goto
  <1>1. Submit => ClosingOK'
    BY Locals DEF Submit
  <1>2. \A s : WaitBegin(s) => ClosingOK'
    BY Locals DEF WaitBegin
  <1>3. \A n \in Int : SeekNextSequence(n) => ClosingOK'
    BY Locals DEF SeekNextSequence
  <1>4. Destroy => ClosingOK'
    BY Locals DEF Destroy
  <1>5. \A t \in Threads : PumpBusy(t) => ClosingOK'
    BY Locals DEF PumpBusy, LeavePump
  <1>6. \A t \in Threads : PumpEnter(t) => ClosingOK'
    BY Locals DEF PumpEnter
  <1>7. \A t \in Threads : PumpStop(t) => ClosingOK'
    BY Locals DEF PumpStop, LeavePump
  <1>8. \A t \in Threads : DispatchUnavailable(t) => ClosingOK'
    BY Locals DEF DispatchUnavailable
  <1>9. \A ok \in BOOLEAN : Prepare(ok) => ClosingOK'
    BY Locals DEF Prepare
  <1>10. PublishFails => ClosingOK'
    BY Locals DEF PublishFails
  <1>11. Unwind => ClosingOK'
    BY Locals DEF Unwind, AbandonSequence
  <1>12. AbandonRejected => ClosingOK'
    BY Locals DEF AbandonRejected, AbandonSequence
  <1>13. WaitWake => ClosingOK'
    BY Locals DEF WaitWake
  <1>14. WaitFence => ClosingOK'
    BY Locals DEF WaitFence
  <1>15. CloseAdmission => ClosingOK'
    BY Locals DEF CloseAdmission
  <1>16. SnapshotParked => ClosingOK'
    BY Locals DEF SnapshotParked
  <1>17. DrainEnd => ClosingOK'
    BY Locals DEF DrainEnd
  <1>18. ShutdownWorker => ClosingOK'
    BY Locals DEF ShutdownWorker
  <1>19. JoinWorker => ClosingOK'
    BY Locals DEF JoinWorker
  <1>20. \A failed \in BOOLEAN : WorkerFinish(failed) => ClosingOK'
    BY Locals DEF WorkerFinish
  <1>21. CommitFailure => ClosingOK'
    BY Locals DEF CommitFailure
  <1>22. Publish => ClosingOK'
    BY Locals DEF Publish
  <1>23. \A t \in Threads : PumpTake(t) => ClosingOK'
    BY Locals DEF PumpTake
  <1>24. \A t \in Threads : DispatchAccept(t) => ClosingOK'
    BY Locals DEF DispatchAccept
  <1>25. \A t \in Threads : Park(t) => ClosingOK'
    BY Locals DEF Park, LeavePump
  <1>26. DispatchRejected => ClosingOK'
    BY Locals DEF DispatchRejected, EraseNode
  <1>27. \A t \in Threads : DispatchFails(t) => ClosingOK'
    BY Locals DEF DispatchFails, Complete, EraseNode
  <1>28. WorkerPop => ClosingOK'
    BY Locals DEF WorkerPop
  <1>29. WorkerComplete => ClosingOK'
    BY Locals DEF WorkerComplete, Complete, EraseNode
  <1>30. DrainOne => ClosingOK'
    BY Locals DEF DrainOne, Complete, EraseNode
  <1>31. UNCHANGED vars => ClosingOK'
    BY DEF vars
  <1> QED
    BY <1>1, <1>2, <1>3, <1>4, <1>5, <1>6, <1>7, <1>8, <1>9, <1>10, <1>11, <1>12, <1>13,
       <1>14, <1>15, <1>16, <1>17, <1>18, <1>19, <1>20, <1>21, <1>22, <1>23, <1>24, <1>25,
       <1>26, <1>27, <1>28, <1>29, <1>30, <1>31 DEF Next, Caller, Host, Worker, Pump, Threads

(* A published number is never one that wait() rejects. *)
LEMMA KnownSteps ==
    ASSUME IInv, KnownOK, [Next]_vars
    PROVE  KnownOK'
  <1> USE DEF KnownOK, tokenVars, nodeVars, callVars, At, Goto
  <1>1. Submit => KnownOK'
    BY Locals DEF Submit
  <1>2. \A s : WaitBegin(s) => KnownOK'
    BY Locals DEF WaitBegin
  <1>3. \A n \in Int : SeekNextSequence(n) => KnownOK'
    BY Ranges DEF SeekNextSequence, IInv, OrderOK
  <1>4. Destroy => KnownOK'
    BY Locals DEF Destroy
  <1>5. \A t \in Threads : PumpBusy(t) => KnownOK'
    BY Locals DEF PumpBusy, LeavePump
  <1>6. \A t \in Threads : PumpEnter(t) => KnownOK'
    BY Locals DEF PumpEnter
  <1>7. \A t \in Threads : PumpStop(t) => KnownOK'
    BY Locals DEF PumpStop, LeavePump
  <1>8. \A t \in Threads : DispatchUnavailable(t) => KnownOK'
    BY Locals DEF DispatchUnavailable
  <1>9. \A ok \in BOOLEAN : Prepare(ok) => KnownOK'
    BY Locals DEF Prepare
  <1>10. PublishFails => KnownOK'
    BY Locals DEF PublishFails
  <1>11. Unwind => KnownOK'
    BY AbandonIs DEF Unwind, Unpublished
  <1>12. AbandonRejected => KnownOK'
    BY AbandonIs DEF AbandonRejected, Unpublished
  <1>13. WaitWake => KnownOK'
    BY Locals DEF WaitWake
  <1>14. WaitFence => KnownOK'
    BY Locals DEF WaitFence
  <1>15. CloseAdmission => KnownOK'
    BY Locals DEF CloseAdmission
  <1>16. SnapshotParked => KnownOK'
    BY Locals DEF SnapshotParked
  <1>17. DrainEnd => KnownOK'
    BY Locals DEF DrainEnd
  <1>18. ShutdownWorker => KnownOK'
    BY Locals DEF ShutdownWorker
  <1>19. JoinWorker => KnownOK'
    BY Locals DEF JoinWorker
  <1>20. \A failed \in BOOLEAN : WorkerFinish(failed) => KnownOK'
    BY Locals DEF WorkerFinish
  <1>21. CommitFailure => KnownOK'
    BY Locals DEF CommitFailure
  <1>22. Publish => KnownOK'
    BY DEF Publish, IInv, TokensOK, Waitable, Open, CallOpen, Unpublished
  <1>23. \A t \in Threads : PumpTake(t) => KnownOK'
    BY Locals DEF PumpTake
  <1>24. \A t \in Threads : DispatchAccept(t) => KnownOK'
    BY Locals DEF DispatchAccept
  <1>25. \A t \in Threads : Park(t) => KnownOK'
    BY Locals DEF Park, LeavePump
  <1>26. DispatchRejected => KnownOK'
    BY Locals DEF DispatchRejected, EraseNode
  <1>27. \A t \in Threads : DispatchFails(t) => KnownOK'
    BY Locals DEF DispatchFails, Complete, EraseNode
  <1>28. WorkerPop => KnownOK'
    BY Locals DEF WorkerPop
  <1>29. WorkerComplete => KnownOK'
    BY Locals DEF WorkerComplete, Complete, EraseNode
  <1>30. DrainOne => KnownOK'
    BY Locals DEF DrainOne, Complete, EraseNode
  <1>31. UNCHANGED vars => KnownOK'
    BY DEF vars
  <1> QED
    BY <1>1, <1>2, <1>3, <1>4, <1>5, <1>6, <1>7, <1>8, <1>9, <1>10, <1>11, <1>12, <1>13,
       <1>14, <1>15, <1>16, <1>17, <1>18, <1>19, <1>20, <1>21, <1>22, <1>23, <1>24, <1>25,
       <1>26, <1>27, <1>28, <1>29, <1>30, <1>31 DEF Next, Caller, Host, Worker, Pump, Threads

--------------------------------------------------------------------------------
(* The pump takes the oldest parked submission. *)
LEMMA CandidateLeast ==
    ASSUME IInv, Parked # {}
    PROVE  Candidate \in Parked /\ \A p \in Parked : Candidate <= p
  <1> DEFINE P == {k \in 1 .. Len(fifo) : fifo[k] \in Parked}
  <1>1. Len(fifo) \in Nat /\ \A k \in 1 .. Len(fifo) : fifo[k] \in Nat
    BY Ranges DEF IInv, TypeOK
  <1>2. P \in SUBSET Nat /\ P # {}
    BY <1>1 DEF IInv, OrderOK, Elements, Parked
  <1>3. PICK k \in P : \A j \in P : k <= j
    BY <1>2, NatMin
  <1>4. \A j \in 1 .. k - 1 : fifo[j] \notin Parked
    BY <1>1, <1>3
  <1>5. PICK i \in 1 .. Len(fifo) :
            /\ fifo[i] \in Parked /\ Candidate = fifo[i]
            /\ \A j \in 1 .. i - 1 : fifo[j] \notin Parked
    BY <1>3, <1>4 DEF Candidate
  <1>6. ASSUME NEW p \in Parked PROVE Candidate <= p
    <2>1. PICK j \in 1 .. Len(fifo) : fifo[j] = p
      BY DEF IInv, OrderOK, Elements, Parked
    <2>2. i <= j
      BY <1>1, <1>5, <2>1
    <2> QED
      BY <1>1, <1>5, <2>1, <2>2 DEF IInv, OrderOK, Increasing
  <1> QED
    BY <1>5, <1>6

(* Submissions that leave a place disturb nobody's order.                    *)
LEMMA SerialKept ==
    ASSUME SerialOK, tasks' = tasks, InDispatch' \subseteq InDispatch,
           OnWorker' \subseteq OnWorker, executing' \subseteq executing,
           Parked' \subseteq Parked
    PROVE  SerialOK'
  <1>1. Elements(tasks') = Elements(tasks) /\ Increasing(tasks')
    BY DEF SerialOK, Elements, Increasing
  <1> QED
    BY <1>1 DEF SerialOK

(* A submission is dispatched, queued and run after all the older ones, in   *)
(* every step.                                                               *)
LEMMA SerialSteps ==
    ASSUME IInv, SerialOK, [Next]_vars
    PROVE  SerialOK'
  <1> USE DEF tokenVars, nodeVars, callVars, At, Goto
  <1>1. /\ \A s \in Sequences1 : s \in Nat
        /\ executing \subseteq nodes /\ nodes \subseteq Sequences1 /\ next \in Nat
        /\ executing = InDispatch \cup OnWorker \cup Elements(tasks)
        /\ InDispatch \cap OnWorker = {} /\ InDispatch \cap Elements(tasks) = {}
        /\ tasks \in Seq(Sequences1)
    BY Ranges DEF IInv, WorkOK, TypeOK
  <1>2. Calm => SerialOK'
    BY SerialKept DEF Calm, Parked
  <1>3. Publish => SerialOK'
    <2> SUFFICES ASSUME Publish PROVE SerialOK'
      OBVIOUS
    <2>1. /\ nodes' = nodes \cup {mine} /\ UNCHANGED <<executing, tasks>>
          /\ InDispatch' = InDispatch /\ OnWorker' = OnWorker
      BY Locals, InDispatchIs DEF Publish, Holding, OnWorker
    <2>2. mine = next - 1 /\ \A s \in nodes : s < mine
      BY <1>1 DEF Publish, IInv, CallOK, OrderOK, Unpublished
    <2> QED
      <3>1. /\ Elements(tasks') = Elements(tasks) /\ Increasing(tasks')
            /\ Parked' \subseteq Parked \cup {mine}
        BY <2>1 DEF SerialOK, Elements, Increasing, Parked
      <3> QED
        BY <1>1, <2>1, <2>2, <3>1 DEF SerialOK
  <1>4. ASSUME NEW t \in Threads, PumpTake(t) PROVE SerialOK'
    <2>1. Candidate \in Parked /\ \A p \in Parked : Candidate <= p
      BY <1>4, CandidateLeast DEF PumpTake
    <2>2. InDispatch = {} /\ InDispatch' = {Candidate}
      BY <1>4, Locals, LonePump, InDispatchIs DEF PumpTake, Holding, PumpLabels
    <2>3. /\ UNCHANGED <<nodes, tasks>> /\ executing' = executing \cup {Candidate}
          /\ OnWorker' = OnWorker
      BY <1>4, Locals DEF PumpTake, OnWorker
    <2>4. \A p \in Parked' : p \in Parked /\ Candidate < p
      BY <1>1, <2>1, <2>3 DEF Parked
    <2> QED
      <3>1. /\ Elements(tasks') = Elements(tasks) /\ Increasing(tasks')
            /\ Elements(tasks) \subseteq executing /\ OnWorker \subseteq executing
        BY <1>1, <2>3 DEF SerialOK, Elements, Increasing
      <3> QED
        BY <1>1, <2>1, <2>2, <2>3, <2>4, <3>1 DEF SerialOK
  <1>5. ASSUME NEW t \in Threads, DispatchAccept(t) PROVE SerialOK'
    <2>1. InDispatch = {cur[t]} /\ InDispatch' = {} /\ cur[t] \in Sequences1
      BY <1>1, <1>5, Locals, LonePump, InDispatchIs
         DEF DispatchAccept, Holding, PumpLabels
    <2>2. UNCHANGED <<nodes, executing>> /\ OnWorker' = OnWorker
      BY <1>5, Locals DEF DispatchAccept, OnWorker
    <2>3. tasks' = Append(tasks, cur[t])
      BY <1>5 DEF DispatchAccept
    <2>4. /\ Elements(tasks') = Elements(tasks) \cup {cur[t]}
          /\ Len(tasks') = Len(tasks) + 1 /\ Len(tasks) \in Nat
          /\ \A i \in 1 .. Len(tasks) : tasks'[i] = tasks[i] /\ tasks[i] \in Elements(tasks)
          /\ tasks'[Len(tasks) + 1] = cur[t]
      BY <1>1, <2>1, <2>3, AppendLemma DEF Elements
    <2>5. Increasing(tasks')
      BY <2>1, <2>4 DEF SerialOK, Increasing
    <2> QED
      BY <1>1, <2>1, <2>2, <2>4, <2>5 DEF SerialOK, Parked
  <1>6. ASSUME NEW t \in Threads, Park(t) PROVE SerialOK'
    <2>1. InDispatch = {cur[t]} /\ InDispatch' = {}
      BY <1>6, Locals, LonePump, InDispatchIs DEF Park, LeavePump, Holding, PumpLabels
    <2>2. /\ UNCHANGED <<nodes, tasks>> /\ executing' = executing \ {cur[t]}
          /\ OnWorker' = OnWorker
      BY <1>6, Locals DEF Park, LeavePump, OnWorker
    <2>3. \A e \in executing' : e < cur[t]
      BY <1>1, <2>1, <2>2 DEF SerialOK
    <2> QED
      BY <1>1, <2>1, <2>2, <2>3 DEF SerialOK, Parked, Elements, Increasing
  <1>7. DispatchRejected => SerialOK'
    <2> SUFFICES ASSUME DispatchRejected PROVE SerialOK'
      OBVIOUS
    <2>1. /\ InDispatch' \subseteq InDispatch /\ OnWorker' = OnWorker
          /\ nodes' = nodes \ {mine} /\ executing' = executing \ {mine} /\ tasks' = tasks
      BY Locals, InDispatchIs DEF DispatchRejected, EraseNode, Holding, OnWorker
    <2> QED
      BY <2>1, SerialKept DEF Parked
  <1>8. ASSUME NEW t \in Threads, DispatchFails(t) PROVE SerialOK'
    <2>1. InDispatch = {cur[t]} /\ InDispatch' = {}
      BY <1>8, Locals, LonePump, InDispatchIs DEF DispatchFails, Holding, PumpLabels
    <2>2. /\ nodes' = nodes \ {cur[t]} /\ executing' = executing \ {cur[t]}
          /\ tasks' = tasks /\ OnWorker' = OnWorker
      BY <1>8, Locals DEF DispatchFails, Complete, EraseNode, OnWorker
    <2> QED
      BY <2>1, <2>2, SerialKept DEF Parked
  <1>9. WorkerPop => SerialOK'
    <2> SUFFICES ASSUME WorkerPop PROVE SerialOK'
      OBVIOUS
    <2>1. /\ tasks # <<>> /\ tasks' = Tail(tasks) /\ UNCHANGED <<nodes, executing>>
          /\ OnWorker' = {Head(tasks)} /\ InDispatch' = InDispatch
      BY Locals, InDispatchIs DEF WorkerPop, OnWorker, Holding
    <2>2. /\ Len(tasks) \in Nat \ {0} /\ Head(tasks) = tasks[1]
          /\ Len(tasks') = Len(tasks) - 1
          /\ \A i \in 1 .. Len(tasks) - 1 : tasks'[i] = tasks[i + 1]
      BY <1>1, <2>1
    <2>3. \A i \in 1 .. Len(tasks) : tasks[i] \in Elements(tasks)
      BY DEF Elements
    <2>4. \A s \in Elements(tasks') : s \in Elements(tasks) /\ Head(tasks) < s
      BY <2>2 DEF SerialOK, Increasing, Elements
    <2>5. Increasing(tasks')
      BY <2>2 DEF SerialOK, Increasing
    <2> QED
      BY <1>1, <2>1, <2>2, <2>3, <2>4, <2>5 DEF SerialOK, Parked
  <1>10. WorkerComplete => SerialOK'
    <2> SUFFICES ASSUME WorkerComplete PROVE SerialOK'
      OBVIOUS
    <2>1. /\ OnWorker' = {} /\ InDispatch' = InDispatch /\ tasks' = tasks
          /\ nodes' = nodes \ {cur["worker"]} /\ executing' = executing \ {cur["worker"]}
      BY Locals, InDispatchIs DEF WorkerComplete, Complete, EraseNode, OnWorker, Holding
    <2> QED
      BY <2>1, SerialKept DEF Parked
  <1>11. DrainOne => SerialOK'
    <2> SUFFICES ASSUME DrainOne PROVE SerialOK'
      OBVIOUS
    <2>1. InDispatch' = InDispatch /\ OnWorker' = OnWorker /\ tasks' = tasks
      BY Locals, InDispatchIs DEF DrainOne, OnWorker, Holding
    <2>2. nodes' \subseteq nodes /\ executing' = executing
      BY DEF DrainOne, Complete, EraseNode, Parked
    <2> QED
      BY <2>1, <2>2, SerialKept DEF Parked
  <1>12. UNCHANGED vars => Calm
    BY DEF vars, Calm, InDispatch, OnWorker
  <1> QED
    BY <1>2, <1>3, <1>4, <1>5, <1>6, <1>7, <1>8, <1>9, <1>10, <1>11, <1>12, CalmSteps
       DEF Next, Caller, Host, Worker, Pump, Threads

(* The mark stays below everything unfinished, unless a retried dispatch     *)
(* throws: what completes is the oldest unfinished submission.               *)
LEMMA HighWaterSteps ==
    ASSUME IInv, SerialOK, ClosingOK, HighWaterExact, ~RetryMayThrow, [Next]_vars
    PROVE  HighWaterExact'
  <1> USE DEF tokenVars, nodeVars, callVars, At, Goto
  <1>1. /\ \A s \in nodes : s \in Nat
        /\ completed \in Nat /\ executing \subseteq nodes /\ next \in Nat
        /\ executing = InDispatch \cup OnWorker \cup Elements(tasks)
    BY Ranges DEF IInv, WorkOK
  <1>2. Calm => HighWaterExact'
    BY DEF Calm, HighWaterExact
  <1>3. Publish => HighWaterExact'
    BY <1>1 DEF Publish, HighWaterExact, IInv, CallOK, Unpublished
  <1>4. ASSUME NEW t \in Threads, PumpTake(t) \/ DispatchAccept(t) \/ Park(t)
        PROVE  HighWaterExact'
    BY <1>4 DEF PumpTake, DispatchAccept, Park, LeavePump, HighWaterExact
  <1>5. DispatchRejected \/ WorkerPop => HighWaterExact'
    BY DEF DispatchRejected, EraseNode, WorkerPop, HighWaterExact
  <1>6. ASSUME NEW t \in Threads, DispatchFails(t) PROVE HighWaterExact'
    BY <1>6 DEF DispatchFails, HighWaterExact
  <1>7. WorkerComplete => HighWaterExact'
    <2> SUFFICES ASSUME WorkerComplete PROVE HighWaterExact'
      OBVIOUS
    <2>1. OnWorker = {cur["worker"]} /\ cur["worker"] \in nodes
      BY Ranges DEF WorkerComplete, OnWorker
    <2>2. \A s \in nodes : s = cur["worker"] \/ cur["worker"] < s
      BY <1>1, <2>1 DEF SerialOK, Parked
    <2>3. /\ nodes' = nodes \ {cur["worker"]} /\ UNCHANGED <<closing, shutdown>>
          /\ completed' = IF completed < cur["worker"] THEN cur["worker"] ELSE completed
      BY DEF WorkerComplete, Complete, EraseNode
    <2> QED
      BY <1>1, <2>2, <2>3 DEF HighWaterExact
  <1>8. DrainOne => HighWaterExact'
    BY DEF DrainOne, ClosingOK, HighWaterExact
  <1>9. UNCHANGED vars => HighWaterExact'
    BY DEF vars, HighWaterExact
  <1> QED
    BY <1>2, <1>3, <1>4, <1>5, <1>6, <1>7, <1>8, <1>9, CalmSteps
       DEF Next, Caller, Host, Worker, Pump, Threads

(* A wait's outcome is final, in every step. *)
LEMMA SeenSteps ==
    ASSUME IInv, ClosingOK, HighWaterExact, SeenOK, [Next]_vars
    PROVE  SeenOK'
  <1> USE DEF tokenVars, nodeVars, callVars, At, Goto
  <1> DEFINE Later == /\ issued \subseteq issued' /\ observed' = observed
                      /\ nodes' \cap issued \subseteq nodes
                      /\ failures \subseteq failures' /\ failures' \subseteq failures \cup nodes
                      /\ pc'["host"] \notin {"waiting", "fence"}
                         \/ (pc'["host"] = pc["host"] /\ cur'["host"] = cur["host"])
  <1>1. Later => SeenOK'
    BY DEF SeenOK
  <1> HIDE DEF Later
  <1>2. Submit => Later
    BY Locals DEF Later, Submit
  <1>3. \A n \in Int : SeekNextSequence(n) => Later
    BY Locals DEF Later, SeekNextSequence
  <1>4. Destroy => Later
    BY Locals DEF Later, Destroy
  <1>5. \A t \in Threads : PumpBusy(t) => Later
    BY Locals DEF Later, PumpBusy, LeavePump
  <1>6. \A t \in Threads : PumpEnter(t) => Later
    BY Locals DEF Later, PumpEnter
  <1>7. \A t \in Threads : PumpStop(t) => Later
    BY Locals DEF Later, PumpStop, LeavePump
  <1>8. \A t \in Threads : DispatchUnavailable(t) => Later
    BY Locals DEF Later, DispatchUnavailable
  <1>9. \A ok \in BOOLEAN : Prepare(ok) => Later
    BY Locals DEF Later, Prepare
  <1>10. PublishFails => Later
    BY Locals DEF Later, PublishFails
  <1>11. Unwind => Later
    BY Locals DEF Later, Unwind, AbandonSequence
  <1>12. AbandonRejected => Later
    BY Locals DEF Later, AbandonRejected, AbandonSequence
  <1>13. CloseAdmission => Later
    BY Locals DEF Later, CloseAdmission
  <1>14. SnapshotParked => Later
    BY Locals DEF Later, SnapshotParked
  <1>15. DrainEnd => Later
    BY Locals DEF Later, DrainEnd
  <1>16. ShutdownWorker => Later
    BY Locals DEF Later, ShutdownWorker
  <1>17. JoinWorker => Later
    BY Locals DEF Later, JoinWorker
  <1>18. \A failed \in BOOLEAN : WorkerFinish(failed) => Later
    BY Locals DEF Later, WorkerFinish
  <1>19. CommitFailure => Later
    BY Locals DEF Later, CommitFailure
  <1>20. Publish => Later
    BY Locals DEF Later, Publish, IInv, TokensOK, Open, CallOpen, Unpublished
  <1>21. \A t \in Threads : PumpTake(t) => Later
    BY Locals DEF Later, PumpTake
  <1>22. \A t \in Threads : DispatchAccept(t) => Later
    BY Locals DEF Later, DispatchAccept
  <1>23. \A t \in Threads : Park(t) => Later
    BY Locals DEF Later, Park, LeavePump
  <1>24. DispatchRejected => Later
    BY Locals DEF Later, DispatchRejected, EraseNode
  <1>25. \A t \in Threads : DispatchFails(t) => Later
    BY Locals, LonePump DEF Later, DispatchFails, Complete, EraseNode, Holding, PumpLabels
  <1>26. WorkerPop => Later
    BY Locals DEF Later, WorkerPop
  <1>27. WorkerComplete => Later
    BY Locals, Ranges DEF Later, WorkerComplete, Complete, EraseNode
  <1>28. DrainOne => Later
    BY Locals DEF Later, DrainOne, Complete, EraseNode, Parked
  <1>29. UNCHANGED vars => Later
    BY DEF Later, vars
  <1>30. \A s : WaitBegin(s) => SeenOK'
    BY Locals DEF WaitBegin, SeenOK
  <1>31. WaitWake => SeenOK'
    <2> SUFFICES ASSUME WaitWake PROVE SeenOK'
      OBVIOUS
    <2>1. ~closing /\ ~shutdown
      BY DEF WaitWake, ClosingOK, Destructor
    <2>2. cur["host"] \in failures \/ cur["host"] \notin nodes
      BY <2>1, Ranges DEF WaitWake, HighWaterExact
    <2> QED
      BY <2>2, Locals DEF WaitWake, SeenOK
  <1>32. WaitFence => SeenOK'
    BY Locals DEF WaitFence, SeenOK
  <1> QED
    BY <1>1, <1>2, <1>3, <1>4, <1>5, <1>6, <1>7, <1>8, <1>9, <1>10, <1>11, <1>12, <1>13,
       <1>14, <1>15, <1>16, <1>17, <1>18, <1>19, <1>20, <1>21, <1>22, <1>23, <1>24, <1>25,
       <1>26, <1>27, <1>28, <1>29, <1>30, <1>31, <1>32 DEF Next, Caller, Host, Worker, Pump,
       Threads

--------------------------------------------------------------------------------
(* No step leaves a submission parked beside a free credit with nobody on    *)
(* the way to the pump.                                                      *)
LEMMA WakeSteps ==
    ASSUME IInv, ClosingOK, WakeInv, ~MayPark, [Next]_vars
    PROVE  WakeInv'
  <1> USE DEF WakeInv, NoLostWakeup, PumpLabels, Parked, tokenVars, nodeVars, callVars, At,
          Goto
  <1>1. Submit => WakeInv'
    BY Locals DEF Submit
  <1>2. \A s : WaitBegin(s) => WakeInv'
    BY Locals DEF WaitBegin
  <1>3. \A n \in Int : SeekNextSequence(n) => WakeInv'
    BY Locals DEF SeekNextSequence
  <1>4. Destroy => WakeInv'
    BY Locals DEF Destroy
  <1>5. \A t \in Threads : PumpBusy(t) => WakeInv'
    BY Locals DEF PumpBusy, LeavePump, IInv, PumpOK
  <1>6. \A t \in Threads : PumpEnter(t) => WakeInv'
    BY Locals DEF PumpEnter
  <1>7. \A t \in Threads : PumpStop(t) => WakeInv'
    BY Locals, Ranges DEF PumpStop, LeavePump, IInv, TypeOK
  <1>8. \A t \in Threads : DispatchUnavailable(t) => WakeInv'
    BY DEF DispatchUnavailable
  <1>9. \A ok \in BOOLEAN : Prepare(ok) => WakeInv'
    BY Locals DEF Prepare
  <1>10. PublishFails => WakeInv'
    BY Locals DEF PublishFails
  <1>11. Unwind => WakeInv'
    BY Locals DEF Unwind, AbandonSequence
  <1>12. AbandonRejected => WakeInv'
    BY Locals DEF AbandonRejected, AbandonSequence
  <1>13. WaitWake => WakeInv'
    BY Locals DEF WaitWake
  <1>14. WaitFence => WakeInv'
    BY Locals DEF WaitFence
  <1>15. CloseAdmission => WakeInv'
    BY Locals DEF CloseAdmission
  <1>16. SnapshotParked => WakeInv'
    BY Locals DEF SnapshotParked
  <1>17. DrainEnd => WakeInv'
    BY Locals DEF DrainEnd
  <1>18. ShutdownWorker => WakeInv'
    BY Locals DEF ShutdownWorker
  <1>19. JoinWorker => WakeInv'
    BY Locals DEF JoinWorker
  <1>20. \A failed \in BOOLEAN : WorkerFinish(failed) => WakeInv'
    BY Locals DEF WorkerFinish
  <1>21. CommitFailure => WakeInv'
    BY Locals DEF CommitFailure
  <1>22. Publish => WakeInv'
    BY Locals DEF Publish
  <1>23. \A t \in Threads : PumpTake(t) => WakeInv'
    BY Locals DEF PumpTake
  <1>24. \A t \in Threads : DispatchAccept(t) => WakeInv'
    BY Locals DEF DispatchAccept
  <1>25. \A t \in Threads : Park(t) => WakeInv'
    BY DEF Park
  <1>26. DispatchRejected => WakeInv'
    BY Locals DEF DispatchRejected, EraseNode
  <1>27. \A t \in Threads : DispatchFails(t) => WakeInv'
    BY Locals DEF DispatchFails, Complete, EraseNode
  <1>28. WorkerPop => WakeInv'
    BY Locals DEF WorkerPop
  <1>29. WorkerComplete => WakeInv'
    BY Locals DEF WorkerComplete, Complete, EraseNode
  <1>30. DrainOne => WakeInv'
    BY Locals DEF DrainOne, ClosingOK
  <1>31. UNCHANGED vars => WakeInv'
    BY DEF vars
  <1> QED
    BY <1>1, <1>2, <1>3, <1>4, <1>5, <1>6, <1>7, <1>8, <1>9, <1>10, <1>11, <1>12, <1>13,
       <1>14, <1>15, <1>16, <1>17, <1>18, <1>19, <1>20, <1>21, <1>22, <1>23, <1>24, <1>25,
       <1>26, <1>27, <1>28, <1>29, <1>30, <1>31 DEF Next, Caller, Host, Worker, Pump, Threads

--------------------------------------------------------------------------------
(* The refinement, step by step. *)

(* A step that changes neither the nodes, the outcomes nor whether the queue *)
(* is closed.                                                                *)
Still ==
    /\ nodes' = nodes /\ failures' = failures /\ Finished' = Finished
    /\ (closing \/ shutdown)' = (closing \/ shutdown)

(* Calls, the pump and the worker's pop are not seen through the contract.   *)
LEMMA StillSteps ==
    ASSUME IInv
    PROVE  /\ Submit => Still
           /\ \A s : WaitBegin(s) => Still
           /\ \A n \in Int : SeekNextSequence(n) => Still
           /\ Destroy => Still
           /\ \A t \in Threads : PumpBusy(t) => Still
           /\ \A t \in Threads : PumpEnter(t) => Still
           /\ \A t \in Threads : PumpStop(t) => Still
           /\ \A t \in Threads : DispatchUnavailable(t) => Still
           /\ \A ok \in BOOLEAN : Prepare(ok) => Still
           /\ PublishFails => Still
           /\ Unwind => Still
           /\ AbandonRejected => Still
           /\ WaitWake => Still
           /\ WaitFence => Still
           /\ SnapshotParked => Still
           /\ DrainEnd => Still
           /\ JoinWorker => Still
           /\ \A failed \in BOOLEAN : WorkerFinish(failed) => Still
           /\ CommitFailure => Still
           /\ \A t \in Threads : PumpTake(t) => Still
           /\ \A t \in Threads : DispatchAccept(t) => Still
           /\ \A t \in Threads : Park(t) => Still
           /\ WorkerPop => Still
  <1> USE DEF Still, Finished, Reserved, Waitable, tokenVars, nodeVars, callVars, At, Goto
  <1>1. Submit => Still
    BY Locals, Ranges DEF Submit, IInv, OrderOK
  <1>2. \A s : WaitBegin(s) => Still
    BY Locals, Ranges DEF WaitBegin
  <1>3. \A n \in Int : SeekNextSequence(n) => Still
    BY Locals, Ranges DEF SeekNextSequence
  <1>4. Destroy => Still
    BY Locals, Ranges DEF Destroy
  <1>5. \A t \in Threads : PumpBusy(t) => Still
    BY Locals, Ranges DEF PumpBusy, LeavePump
  <1>6. \A t \in Threads : PumpEnter(t) => Still
    BY Locals, Ranges DEF PumpEnter
  <1>7. \A t \in Threads : PumpStop(t) => Still
    BY Locals, Ranges DEF PumpStop, LeavePump
  <1>8. \A t \in Threads : DispatchUnavailable(t) => Still
    BY Locals, Ranges DEF DispatchUnavailable
  <1>9. \A ok \in BOOLEAN : Prepare(ok) => Still
    BY Locals, Ranges DEF Prepare
  <1>10. PublishFails => Still
    BY Locals, Ranges DEF PublishFails
  <1>11. Unwind => Still
    BY Locals, Ranges, AbandonIs DEF Unwind, Unpublished
  <1>12. AbandonRejected => Still
    BY Locals, Ranges, AbandonIs DEF AbandonRejected, Unpublished
  <1>13. WaitWake => Still
    BY Locals, Ranges DEF WaitWake
  <1>14. WaitFence => Still
    BY Locals, Ranges DEF WaitFence
  <1>15. SnapshotParked => Still
    BY Locals, Ranges DEF SnapshotParked
  <1>16. DrainEnd => Still
    BY Locals, Ranges DEF DrainEnd
  <1>17. JoinWorker => Still
    BY Locals, Ranges DEF JoinWorker
  <1>18. \A failed \in BOOLEAN : WorkerFinish(failed) => Still
    BY Locals, Ranges DEF WorkerFinish
  <1>19. CommitFailure => Still
    BY Locals, Ranges DEF CommitFailure
  <1>20. \A t \in Threads : PumpTake(t) => Still
    BY Locals, Ranges DEF PumpTake
  <1>21. \A t \in Threads : DispatchAccept(t) => Still
    BY Locals, Ranges DEF DispatchAccept
  <1>22. \A t \in Threads : Park(t) => Still
    BY Locals, Ranges DEF Park, LeavePump
  <1>23. WorkerPop => Still
    BY Locals, Ranges DEF WorkerPop
  <1> QED
    BY <1>1, <1>2, <1>3, <1>4, <1>5, <1>6, <1>7, <1>8, <1>9, <1>10, <1>11, <1>12, <1>13,
       <1>14, <1>15, <1>16, <1>17, <1>18, <1>19, <1>20, <1>21, <1>22, <1>23

(* complete() finishes a submission with the outcome it records. *)
LEMMA CompleteFinishes ==
    ASSUME IInv, KnownOK, NEW s \in nodes, NEW failed, Complete(s, failed),
           UNCHANGED <<closing, shutdown>>, Reserved' = Reserved,
           closing \/ shutdown \/ \A u \in nodes : s <= u
    PROVE  Tokens!Next
  <1> DEFINE result == IF s \in failures' THEN "failed" ELSE "ok"
             Oc == [k \in Finished |-> IF k \in failures THEN "failed" ELSE "ok"]
  <1>1. /\ nodes' = nodes \ {s} /\ next' = next /\ skipped' = skipped
        /\ failures' \in {failures, failures \cup {s}}
    BY DEF Complete, EraseNode
  <1>2. s \in 1 .. MaxSequence /\ s \in Waitable /\ s \notin Reserved
    BY Ranges DEF IInv, OrderOK, CallOK, KnownOK, Waitable, Reserved, Unpublished
  <1>3. Finished' = Finished \cup {s} /\ s \notin Finished
    BY <1>1, <1>2 DEF Finished, Waitable
  <1>4. Oc' = [k \in DOMAIN Oc \cup {s} |-> IF k = s THEN result ELSE Oc[k]]
    BY <1>1, <1>3
  <1>5. PICK r \in Tokens!Outcomes : r = result
    BY DEF Tokens!Outcomes
  <1>6. Tokens!Finish(s, r)
    BY <1>1, <1>4, <1>5 DEF Tokens!Finish
  <1> QED
    BY <1>2, <1>6 DEF Tokens!Next

(* Every step is a step of the ordered tokens, or none. *)
LEMMA StepRefines ==
    ASSUME IInv, OInv, ~RetryMayThrow, [Next]_vars
    PROVE  [Tokens!Next]_Tokens!tokenQueueVars
  <1> USE DEF tokenVars, nodeVars, callVars, At, Goto
  <1> DEFINE Goal == Tokens!Next \/ UNCHANGED Tokens!tokenQueueVars
  <1>1. Still => Goal
    BY DEF Still, Tokens!tokenQueueVars
  <1>2. CloseAdmission \/ ShutdownWorker => Goal
    <2> SUFFICES ASSUME CloseAdmission \/ ShutdownWorker PROVE Tokens!Close
      BY DEF Tokens!Next
    <2>1. UNCHANGED <<next, skipped, nodes, failures, mine>> /\ (closing \/ shutdown)'
      BY DEF CloseAdmission, ShutdownWorker
    <2>2. Reserved' = Reserved
      BY Locals DEF CloseAdmission, ShutdownWorker, Reserved
    <2> QED
      BY <2>1, <2>2 DEF Tokens!Close, Finished, Waitable
  <1>3. Publish => Goal
    <2> SUFFICES ASSUME Publish PROVE Tokens!Accept(mine) /\ mine \in 1 .. MaxSequence
      BY DEF Tokens!Next
    <2>1. /\ mine \in 1 .. MaxSequence /\ mine = next - 1 /\ mine \notin nodes
          /\ next \in Nat /\ \A s \in nodes : s \in Nat /\ s < next
      BY Ranges DEF Publish, IInv, CallOK, OrderOK, Unpublished, Sequences1
    <2>2. ~closing /\ ~shutdown
      BY DEF Publish, OInv, ClosingOK, Destructor
    <2>3. /\ UNCHANGED <<next, skipped, failures, closing, shutdown, mine>>
          /\ nodes' = nodes \cup {mine} /\ Reserved = {mine} /\ Reserved' = {}
      BY Locals DEF Publish, Reserved
    <2>4. Finished' = Finished
      BY <2>3 DEF Finished, Waitable
    <2>5. \A k \in nodes \cup Finished : k < mine
      BY <2>1, <2>3 DEF Finished, Waitable
    <2> QED
      BY <2>1, <2>2, <2>3, <2>4, <2>5 DEF Tokens!Accept, Tokens!Known
  <1>4. DispatchRejected => Goal
    <2> SUFFICES ASSUME DispatchRejected
                 PROVE  Tokens!Withdraw(mine) /\ mine \in 1 .. MaxSequence
      BY DEF Tokens!Next
    <2>1. mine \in nodes /\ mine \in 1 .. MaxSequence
      BY Ranges, LonePump, Locals DEF DispatchRejected, Holding, PumpLabels, Sequences1
    <2>2. mine = next - 1 /\ next \in Nat /\ \A s \in nodes : s \in Nat /\ s < next
      BY <2>1, Ranges DEF DispatchRejected, IInv, CallOK, OrderOK, Published
    <2>3. /\ UNCHANGED <<next, skipped, failures, closing, shutdown, mine>>
          /\ nodes' = nodes \ {mine} /\ Reserved = {} /\ Reserved' = {mine}
      BY Locals DEF DispatchRejected, EraseNode, Reserved
    <2>4. Finished' = Finished
      BY <2>1, <2>3 DEF Finished, Waitable
    <2>5. \A k \in nodes \cup Finished : k <= mine
      BY <2>2 DEF Finished, Waitable
    <2> QED
      BY <2>1, <2>3, <2>4, <2>5 DEF Tokens!Withdraw, Tokens!Known
  <1>5. ASSUME NEW t \in Threads, DispatchFails(t) PROVE Goal
    <2>1. /\ cur[t] \in nodes /\ Complete(cur[t], TRUE) /\ shutdown
          /\ UNCHANGED <<closing, shutdown, mine>>
      BY <1>5, LonePump DEF DispatchFails, Holding, PumpLabels
    <2>2. Reserved' = Reserved
      BY <1>5, <2>1, Locals DEF DispatchFails, Reserved
    <2> QED
      BY <2>1, <2>2, CompleteFinishes DEF OInv
  <1>6. WorkerComplete => Goal
    <2> SUFFICES ASSUME WorkerComplete PROVE Goal
      OBVIOUS
    <2>1. /\ cur["worker"] \in nodes /\ Complete(cur["worker"], fault["worker"])
          /\ UNCHANGED <<closing, shutdown, mine>> /\ OnWorker = {cur["worker"]}
      BY Ranges DEF WorkerComplete, OnWorker
    <2>2. Reserved' = Reserved
      BY <2>1, Locals DEF WorkerComplete, Reserved
    <2>3. \A u \in nodes : cur["worker"] <= u
      BY <2>1, Ranges DEF OInv, SerialOK, Parked, IInv, WorkOK
    <2> QED
      BY <2>1, <2>2, <2>3, CompleteFinishes DEF OInv
  <1>7. DrainOne => Goal
    <2> SUFFICES ASSUME DrainOne PROVE Goal
      OBVIOUS
    <2>1. closing /\ UNCHANGED <<closing, shutdown, mine>> /\ Reserved' = Reserved
      BY DEF DrainOne, OInv, ClosingOK, Reserved
    <2>2. ASSUME NEW s \in Parked, Complete(s, TRUE) PROVE Goal
      BY <2>1, <2>2, CompleteFinishes DEF OInv, Parked
    <2>3. \/ \E s \in Parked : Complete(s, TRUE)
          \/ UNCHANGED <<next, skipped, failures, nodes>>
      BY DEF DrainOne
    <2>4. UNCHANGED <<next, skipped, failures, nodes>> => Still
      BY <2>1 DEF Still, Finished, Waitable
    <2> QED
      BY <1>1, <2>2, <2>3, <2>4
  <1>8. UNCHANGED vars => Still
    BY DEF vars, Still, Finished, Waitable, Reserved
  <1> QED
    BY <1>1, <1>2, <1>3, <1>4, <1>5, <1>6, <1>7, <1>8, StillSteps
       DEF Next, Caller, Host, Worker, Pump, Threads

--------------------------------------------------------------------------------
(* The invariant holds in a new queue. *)
LEMMA InitOInv ==
    ASSUME Init
    PROVE  OInv /\ WakeInv
  <1>1. /\ pc["host"] = "idle" /\ pc["worker"] = "idle" /\ Threads = {"host", "worker"}
        /\ nodes = {} /\ executing = {} /\ tasks = <<>> /\ observed = {}
        /\ ~closing /\ ~shutdown
    BY DEF Init, Threads
  <1>2. SerialOK
    BY <1>1 DEF SerialOK, Elements, Increasing, Parked, OnWorker, InDispatch
  <1> QED
    BY <1>1, <1>2 DEF OInv, ClosingOK, KnownOK, HighWaterExact, SeenOK, WakeInv,
       NoLostWakeup, Parked

(* On a queue whose retried dispatches do not throw, the order invariant     *)
(* holds in every reachable state.                                           *)
THEOREM OrderInvariance ==
    ASSUME ~RetryMayThrow
    PROVE  Spec => [](IInv /\ OInv)
  <1>1. Init => IInv /\ OInv
    BY InitIInv, InitOInv
  <1>2. IInv /\ OInv /\ [Next]_vars => (IInv /\ OInv)'
    BY NextIInv, SerialSteps, ClosingSteps, KnownSteps, HighWaterSteps, SeenSteps DEF OInv
  <1> QED
    BY <1>1, <1>2, PTL DEF Spec

(* completed_ never covers a submission the backend still runs, for every    *)
(* capacity and whichever thread dispatches, parks, rejects or completes.    *)
THEOREM HighWaterCorrect ==
    ASSUME ~RetryMayThrow
    PROVE  Spec => []HighWaterExact
  <1>1. IInv /\ OInv => HighWaterExact
    BY DEF OInv
  <1> QED
    BY <1>1, OrderInvariance, PTL

(* Two waits on one token report the same outcome, although wait() releases  *)
(* the mutex between its test of completed_ and its test of failures_.       *)
THEOREM WaitsRepeat ==
    ASSUME ~RetryMayThrow
    PROVE  Spec => []RepeatableWait
  <1>1. IInv /\ OInv => RepeatableWait
    BY DEF OInv, SeenOK, RepeatableWait
  <1> QED
    BY <1>1, OrderInvariance, PTL

(* A backend that never lacks a resource never leaves a submission parked    *)
(* beside a free credit unless some thread is about to look at the deque,    *)
(* whether or not its dispatches throw.                                      *)
THEOREM WakeupsKept ==
    ASSUME ~MayPark
    PROVE  Spec => []NoLostWakeup
  <1> DEFINE I == IInv /\ ClosingOK /\ WakeInv
  <1>1. Init => I
    BY InitIInv, InitOInv DEF OInv
  <1>2. I /\ [Next]_vars => I'
    BY NextIInv, ClosingSteps, WakeSteps
  <1>3. I => NoLostWakeup
    BY DEF WakeInv
  <1> QED
    BY <1>1, <1>2, <1>3, PTL DEF Spec

(* device_ops.cpp implements the ordered tokens of the queue contract:       *)
(* submissions finish one by one in submission order with an outcome that    *)
(* never changes, and only the newest can be withdrawn.                      *)
THEOREM TokensImplemented ==
    ASSUME ~RetryMayThrow
    PROVE  Spec => ImplementsOrderedTokens
  <1>1. Init => Tokens!Init
    <2> SUFFICES ASSUME Init PROVE Tokens!Init
      OBVIOUS
    <2>1. nodes = {} /\ Finished = {} /\ ~(closing \/ shutdown)
      BY DEF Init, Finished, Waitable
    <2> QED
      BY <2>1 DEF Tokens!Init
  <1>2. IInv /\ OInv /\ [Next]_vars => [Tokens!Next]_Tokens!tokenQueueVars
    BY StepRefines
  <1> QED
    BY <1>1, <1>2, OrderInvariance, PTL DEF Spec, ImplementsOrderedTokens, Tokens!Spec
================================================================================
