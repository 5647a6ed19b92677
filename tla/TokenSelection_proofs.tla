------------------------- MODULE TokenSelection_proofs -------------------------
(***************************************************************************)
(* Proofs about greedy token selection, for every length of the row of     *)
(* logits, every value of a logit and every way the producer, the wait and *)
(* the transfer may end.                                                   *)
(***************************************************************************)
EXTENDS TokenSelection, TLAPS, SequenceTheorems, WellFoundedInduction

(* What is known of the first n logits once the scan has passed them. *)
Passed(n, best) ==
    /\ best \in 0 .. n
    /\ best = 0 <=> \E i \in 1 .. n : nonfinite(host[i])
    /\ best # 0 => \A i \in 1 .. n :
           /\ decode_bf16(host[i]) <= decode_bf16(host[best])
           /\ decode_bf16(host[i]) = decode_bf16(host[best]) => best <= i

(* The device's copy has what the producer has written so far; the caller   *)
(* copies it only when that is all, and scans what was written.             *)
SelectionInv ==
    /\ logits \in Rows
    /\ pc \in {"check", "wait", "refused", "copy", "scan", "failed", "selected", "nonfinite"}
    /\ writing \in 0 .. Len(logits)
    /\ stored \in [DOMAIN logits -> Patterns]
    /\ \A i \in 1 .. writing : stored[i] = logits[i]
    /\ pc = "copy" => writing = Len(logits)
    /\ pc \in {"scan", "selected", "nonfinite"} => host = logits
    /\ pc \in {"selected", "nonfinite"} =>
           Passed(Len(host), winner) /\ (pc = "nonfinite" <=> winner = 0)

--------------------------------------------------------------------------------
(* The values that are compared are numbers. *)
LEMMA Decoded ==
    ASSUME NEW bits \in Patterns
    PROVE  decode_bf16(bits) \in Int
  BY DEF Patterns, decode_bf16

(* The first logit. *)
LEMMA ScanBegins ==
    ASSUME host \in Rows
    PROVE  Passed(1, IF nonfinite(host[1]) THEN 0 ELSE 1)
  <1>1. 1 .. 1 = {1}
    OBVIOUS
  <1>2. host[1] \in Patterns
    BY EmptySeq, LenProperties, ElementOfSeq DEF Rows
  <1>3. decode_bf16(host[1]) \in Int
    BY <1>2, Decoded
  <1> QED
    BY <1>1, <1>3 DEF Passed

(* One round of the loop. *)
LEMMA ScanGoesOn ==
    ASSUME host \in Rows, NEW n \in 2 .. Len(host), NEW best, Passed(n - 1, best)
    PROVE  Passed(n, Better(best, n))
  <1>1. Len(host) \in Nat /\ n \in Nat /\ n - 1 \in Nat
    BY LenProperties DEF Rows
  <1>2. \A i \in 1 .. n : decode_bf16(host[i]) \in Int
    <2>1. TAKE i \in 1 .. n
    <2>2. host[i] \in Patterns
      BY <1>1, ElementOfSeq DEF Rows
    <2> QED
      BY <2>2, Decoded
  <1>3. \A i : i \in 1 .. n <=> i \in 1 .. n - 1 \/ i = n
    BY <1>1
  <1>4. CASE best = 0
    <2>1. Better(best, n) = 0
      BY <1>4 DEF Better
    <2> QED
      BY <1>1, <1>3, <1>4, <2>1 DEF Passed
  <1>5. CASE best # 0 /\ nonfinite(host[n])
    <2>1. Better(best, n) = 0
      BY <1>5 DEF Better
    <2> QED
      BY <1>1, <1>3, <1>5, <2>1 DEF Passed
  <1>6. CASE best # 0 /\ ~ nonfinite(host[n])
    <2> DEFINE d(i) == decode_bf16(host[i])
    <2>1. /\ best \in 1 .. n - 1 /\ best \in 1 .. n /\ best < n
          /\ \A i \in 1 .. n - 1 : ~ nonfinite(host[i]) /\ d(i) <= d(best)
          /\ \A i \in 1 .. n - 1 : d(i) = d(best) => best <= i
      BY <1>1, <1>6 DEF Passed
    <2>2. Better(best, n) = IF d(n) > d(best) THEN n ELSE best
      BY <1>6 DEF Better
    <2>3. \A i \in 1 .. n : d(i) \in Int
      BY <1>2
    <2> HIDE DEF d
    <2>4. n \in 1 .. n
      BY <1>1
    <2>5. CASE d(n) > d(best)
      <3>1. \A i \in 1 .. n - 1 : d(i) < d(n)
        BY <1>3, <2>1, <2>3, <2>4, <2>5
      <3>2. \A i \in 1 .. n : d(i) <= d(n) /\ (d(i) = d(n) => n <= i)
        BY <1>1, <1>3, <2>3, <2>4, <3>1
      <3>3. \A i \in 1 .. n : ~ nonfinite(host[i])
        BY <1>3, <1>6, <2>1
      <3> QED
        BY <1>1, <2>2, <2>4, <2>5, <3>2, <3>3 DEF Passed, d
    <2>6. CASE ~ (d(n) > d(best))
      <3>1. \A i \in 1 .. n : d(i) <= d(best) /\ (d(i) = d(best) => best <= i)
        BY <1>1, <1>3, <2>1, <2>3, <2>4, <2>6
      <3>2. \A i \in 1 .. n : ~ nonfinite(host[i])
        BY <1>3, <1>6, <2>1
      <3> QED
        BY <1>1, <2>1, <2>2, <2>6, <3>1, <3>2 DEF Passed, d
    <2> QED
      BY <2>5, <2>6
  <1> QED
    BY <1>4, <1>5, <1>6

(* A set of numbers has a least one. *)
LEMMA LeastOf ==
    ASSUME NEW T, T \subseteq Nat, T # {}
    PROVE  \E x \in T : \A y \in T : x <= y
  <1>1. IsWellFoundedOn(OpToRel(<, Nat), Nat)
    BY NatLessThanWellFounded
  <1>2. PICK x \in T : \A y \in T : ~ (<<y, x>> \in OpToRel(<, Nat))
    BY <1>1, WFMin, Zenon
  <1>3. \A y \in T : ~ (y < x)
    BY <1>2 DEF OpToRel
  <1> QED
    BY <1>3

(* The loop's recursion is defined for a row of any length. *)
LEMMA ScanUnfolds ==
    ASSUME host \in Rows
    PROVE  \E f : /\ f = [id \in DOMAIN host |->
                            IF id = 1 THEN (IF nonfinite(host[1]) THEN 0 ELSE 1)
                            ELSE Better(f[id - 1], id)]
                  /\ scan_logits = f[Len(host)]
  <1> DEFINE first == IF nonfinite(host[1]) THEN 0 ELSE 1
             Unfolds(g, k) ==
                 g = [id \in 1 .. k |-> IF id = 1 THEN first ELSE Better(g[id - 1], id)]
             T == {k \in Nat : ~ \E g : Unfolds(g, k)}
  <1> HIDE DEF first
  <1>1. T = {}
    <2>1. SUFFICES ASSUME T # {} PROVE FALSE
      OBVIOUS
    <2>2. PICK k \in T : \A l \in T : k <= l
      <3>1. T \subseteq Nat
        OBVIOUS
      <3> HIDE DEF T
      <3> QED
        BY <2>1, <3>1, LeastOf
    <2>3. CASE k = 0
      <3> DEFINE g == [id \in 1 .. 0 |-> first]
      <3>1. Unfolds(g, 0)
        OBVIOUS
      <3> QED
        BY <2>2, <2>3, <3>1
    <2>4. CASE k # 0
      <3>1. k \in Nat /\ k - 1 \in Nat /\ k - 1 \notin T
        <4>1. T \subseteq Nat
          OBVIOUS
        <4> HIDE DEF T
        <4> QED
          BY <2>2, <2>4, <4>1
      <3>2. PICK g : Unfolds(g, k - 1)
        BY <3>1
      <3> DEFINE h == [id \in 1 .. k |->
                          IF id = k THEN (IF k = 1 THEN first ELSE Better(g[k - 1], k))
                          ELSE g[id]]
      <3>3. \A id \in 1 .. k - 1 : g[id] = IF id = 1 THEN first ELSE Better(g[id - 1], id)
        BY <3>2
      <3>4. \A id \in 1 .. k : h[id] = IF id = 1 THEN first ELSE Better(h[id - 1], id)
        <4>1. TAKE id \in 1 .. k
        <4>2. CASE id = k
          <5>1. h[k] = IF k = 1 THEN first ELSE Better(g[k - 1], k)
            BY <2>4, <3>1
          <5>2. k # 1 => h[k - 1] = g[k - 1]
            BY <2>4, <3>1
          <5> QED
            BY <4>2, <5>1, <5>2
        <4>3. CASE id # k
          <5>1. id \in 1 .. k - 1 /\ h[id] = g[id]
            BY <3>1, <4>3
          <5>2. id # 1 => h[id - 1] = g[id - 1]
            BY <3>1, <5>1
          <5> QED
            BY <3>3, <5>1, <5>2
        <4> QED
          BY <4>2, <4>3
      <3>5. h = [id \in 1 .. k |-> IF id = 1 THEN first ELSE Better(h[id - 1], id)]
        <4>1. h = [id \in 1 .. k |-> h[id]]
          OBVIOUS
        <4> HIDE DEF h
        <4> QED
          BY <3>4, <4>1
      <3> QED
        BY <2>2, <3>5
    <2> QED
      BY <2>3, <2>4
  <1>2. DOMAIN host = 1 .. Len(host) /\ Len(host) \in Nat
    BY LenProperties DEF Rows
  <1> DEFINE Best(g) ==
                 g = [id \in DOMAIN host |->
                         IF id = 1 THEN (IF nonfinite(host[1]) THEN 0 ELSE 1)
                         ELSE Better(g[id - 1], id)]
             f == CHOOSE g : Best(g)
  <1>3. \E g : Best(g)
    BY <1>1, <1>2 DEF first
  <1>4. Best(f)
    BY <1>3
  <1>5. scan_logits = f[Len(host)]
    BY DEF scan_logits
  <1> HIDE DEF f
  <1> QED
    BY <1>4, <1>5

(* The scan returns the first of the largest logits, or reports a nonfinite *)
(* one.                                                                     *)
LEMMA Scanned == ASSUME host \in Rows PROVE Passed(Len(host), scan_logits)
  <1> DEFINE n == Len(host)
  <1>1. n \in Nat /\ n > 0 /\ DOMAIN host = 1 .. n
    BY LenProperties, EmptySeq DEF Rows
  <1>2. PICK f : /\ f = [id \in DOMAIN host |->
                           IF id = 1 THEN (IF nonfinite(host[1]) THEN 0 ELSE 1)
                           ELSE Better(f[id - 1], id)]
                 /\ scan_logits = f[n]
    BY ScanUnfolds
  <1>3. /\ f[1] = IF nonfinite(host[1]) THEN 0 ELSE 1
        /\ \A id \in 2 .. n : f[id] = Better(f[id - 1], id)
    <2>1. \A id \in 1 .. n : f[id] = IF id = 1 THEN (IF nonfinite(host[1]) THEN 0 ELSE 1)
                                     ELSE Better(f[id - 1], id)
      BY <1>1, <1>2
    <2>2. 1 \in 1 .. n /\ \A id \in 2 .. n : id \in 1 .. n /\ id # 1
      BY <1>1
    <2> QED
      BY <2>1, <2>2
  <1>4. Passed(1, f[1])
    BY <1>3, ScanBegins
  <1> DEFINE T == {k \in 1 .. n : ~ Passed(k, f[k])}
  <1>5. T = {}
    <2>1. SUFFICES ASSUME T # {} PROVE FALSE
      OBVIOUS
    <2>2. PICK k \in T : \A l \in T : k <= l
      <3>1. T \subseteq Nat
        BY <1>1
      <3> HIDE DEF T
      <3> QED
        BY <2>1, <3>1, LeastOf
    <2>3. k \in 2 .. n /\ k - 1 \in 1 .. n /\ ~ (k <= k - 1)
      BY <1>1, <1>4, <2>2
    <2>4. Passed(k - 1, f[k - 1])
      BY <2>2, <2>3
    <2>5. Passed(k, f[k])
      BY <1>3, <2>3, <2>4, ScanGoesOn
    <2> QED
      BY <2>2, <2>5
  <1>6. Passed(n, f[n])
    <2>1. n \in 1 .. n
      BY <1>1
    <2> QED
      BY <1>5, <2>1
  <1> QED
    BY <1>2, <1>6

--------------------------------------------------------------------------------
(* The invariant. *)
LEMMA Starts == Init => SelectionInv
  <1>1. SUFFICES ASSUME Init PROVE SelectionInv
    OBVIOUS
  <1>2. logits \in Rows /\ Len(logits) \in Nat
    BY <1>1, SelectionAssumption, LenProperties DEF Init, Rows
  <1>3. Stale \in Patterns
    BY DEF Stale, Patterns
  <1> QED
    BY <1>1, <1>2, <1>3 DEF Init, SelectionInv

(* Each step of the producer and of the caller keeps it. *)
LEMMA Keeps == SelectionInv /\ [Next]_vars => SelectionInv'
  <1> SUFFICES ASSUME SelectionInv, [Next]_vars PROVE SelectionInv'
    OBVIOUS
  <1>1. Len(logits) \in Nat /\ DOMAIN logits = 1 .. Len(logits)
    BY LenProperties DEF SelectionInv, Rows
  <1>2. \A i \in DOMAIN logits : logits[i] \in Patterns
    BY <1>1, ElementOfSeq DEF SelectionInv, Rows
  <1>3. CASE Produce
    <2> DEFINE n == Len(logits)
    <2>0. /\ writing \in 0 .. n /\ (pc = "copy" => writing = n)
          /\ stored \in [DOMAIN logits -> Patterns]
          /\ \A i \in 1 .. writing : stored[i] = logits[i]
          /\ writing < n /\ writing' = writing + 1 /\ n \in Nat /\ DOMAIN logits = 1 .. n
      BY <1>1, <1>3 DEF Produce, SelectionInv
    <2> HIDE DEF n
    <2>1. writing + 1 \in DOMAIN logits /\ writing' = writing + 1
      BY <2>0
    <2>2. stored' = [stored EXCEPT ![writing + 1] = logits[writing + 1]]
      BY <1>3 DEF Produce
    <2>3. stored' \in [DOMAIN logits -> Patterns]
      BY <1>2, <2>1, <2>2 DEF SelectionInv
    <2>4. \A i \in 1 .. writing + 1 : stored'[i] = logits[i]
      <3>1. TAKE i \in 1 .. writing + 1
      <3>2. i = writing + 1 \/ i \in 1 .. writing
        BY <2>0, <3>1
      <3>3. i \in DOMAIN logits
        BY <2>0, <3>1
      <3> QED
        BY <2>0, <2>2, <3>2, <3>3
    <2>5. pc # "copy"
      BY <2>0
    <2>6. writing + 1 \in 0 .. Len(logits)
      <3>1. writing + 1 \in 0 .. n
        BY <2>0
      <3> QED
        BY <3>1 DEF n
    <2>7. UNCHANGED <<call, pc, logits, host, winner>>
      BY <1>3 DEF Produce
    <2>8. \A k : Passed(k, winner)' <=> Passed(k, winner)
      BY <2>7 DEF Passed
    <2> QED
      BY <2>1, <2>3, <2>4, <2>5, <2>6, <2>7, <2>8 DEF SelectionInv
  <1>4. CASE Check
    BY <1>4 DEF Check, SelectionInv
  <1>5. CASE \E ok \in BOOLEAN : WaitProducer(ok)
    BY <1>5 DEF WaitProducer, SelectionInv
  <1>6. CASE \E ok \in BOOLEAN : Copy(ok)
    <2>1. PICK ok \in BOOLEAN : Copy(ok)
      BY <1>6
    <2>2. stored = logits
      <3>1. \A i \in DOMAIN logits : stored[i] = logits[i]
        BY <1>1, <2>1 DEF Copy, SelectionInv
      <3>2. logits \in [DOMAIN logits -> Patterns]
        BY <1>1, <1>2 DEF SelectionInv, Rows
      <3> QED
        BY <3>1, <3>2 DEF SelectionInv
    <2> QED
      BY <2>1, <2>2 DEF Copy, SelectionInv
  <1>7. CASE Scan
    <2>1. /\ host \in Rows /\ host = logits /\ winner' = scan_logits
          /\ UNCHANGED <<call, writing, logits, stored, host>>
          /\ pc' = IF winner' = 0 THEN "nonfinite" ELSE "selected"
      BY <1>7 DEF Scan, SelectionInv
    <2>2. Passed(Len(host), scan_logits)
      BY <2>1, Scanned
    <2>3. Passed(Len(host), winner)'
      BY <2>1, <2>2 DEF Passed
    <2> QED
      BY <2>1, <2>3 DEF SelectionInv
  <1>8. CASE UNCHANGED vars
    BY <1>8 DEF vars, SelectionInv, Passed
  <1> QED
    BY <1>3, <1>4, <1>5, <1>6, <1>7, <1>8 DEF Next

(* For every row of logits and whatever fails on the way, the selected      *)
(* token is the first maximum of what the producer wrote, all of it finite, *)
(* and a nonfinite logit is reported only when there is one                 *)
(* (GreedyTokenSelector::select and scan_logits, token_selection.cpp).      *)
THEOREM FirstMaximum == Spec => []SelectsFirstMaximum
  <1>1. SelectionInv => SelectsFirstMaximum
    <2>1. SUFFICES ASSUME SelectionInv PROVE SelectsFirstMaximum
      OBVIOUS
    <2>2. DOMAIN logits = 1 .. Len(logits) /\ Len(logits) \in Nat
      BY <2>1, LenProperties DEF SelectionInv, Rows
    <2>3. pc \in {"selected", "nonfinite"} =>
              Passed(Len(logits), winner) /\ host = logits /\ (pc = "nonfinite" <=> winner = 0)
      BY <2>1 DEF SelectionInv
    <2> QED
      BY <2>2, <2>3 DEF SelectsFirstMaximum, Passed
  <1>2. Init => SelectionInv
    BY Starts
  <1> QED
    BY <1>1, <1>2, Keeps, PTL DEF Spec
================================================================================
