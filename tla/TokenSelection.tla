----------------------------- MODULE TokenSelection -----------------------------
(***************************************************************************)
(* Greedy token selection (src/src/token_selection.cpp) beside the queue    *)
(* that produces the logits: what select() checks, in which order it waits, *)
(* copies and scans, and which token it returns.                            *)
(*                                                                          *)
(* A logit is a BF16 pattern: a sign and a magnitude, of which the largest  *)
(* is an infinity or a NaN.  A view is the facts validate_checked_view      *)
(* establishes about it (TensorViews has the geometry).                     *)
(***************************************************************************)
EXTENDS Integers, Sequences, FiniteSets

CONSTANTS
    Calls,          \* set of [view, vocabulary, producer, host, scratch]
    Vectors,        \* the logits a producer may write, sequences of patterns
    Infinite        \* the magnitude that is not finite

Patterns == [negative : BOOLEAN, magnitude : Nat]

(* A producer writes a row of logits; validate_logits_shape refuses a view  *)
(* of width 0.                                                              *)
Rows == Seq(Patterns) \ {<<>>}

ASSUME SelectionAssumption == Vectors \subseteq Rows

VARIABLES
    call, pc,
    writing,    \* how many logits the producer has written
    logits,     \* what it writes
    stored,     \* the device's copy
    host,       \* the transferred bytes
    winner
vars == <<call, pc, writing, logits, stored, host, winner>>

Stale == [negative |-> FALSE, magnitude |-> 1]     \* an earlier step's logits
nonfinite(bits) == bits.magnitude = Infinite
decode_bf16(bits) == IF bits.negative THEN -bits.magnitude ELSE bits.magnitude

Init ==
    /\ call \in Calls /\ logits \in Vectors
    /\ pc = "check"
    /\ writing = 0
    /\ stored = [i \in DOMAIN logits |-> Stale]
    /\ host = <<>> /\ winner = 0

(* The producer runs on the device whatever the caller does. *)
Produce ==
    /\ writing < Len(logits)
    /\ writing' = writing + 1
    /\ stored' = [stored EXCEPT ![writing + 1] = logits[writing + 1]]
    /\ UNCHANGED <<call, pc, logits, host, winner>>

validate_logits_shape(v, vocabulary) ==
    /\ v.bf16 /\ v.row /\ v.width > 0
    /\ vocabulary > 0 /\ vocabulary = v.width
validate_host_scratch(h, v, bytes) == h.size >= bytes /\ h.allocated /\ ~h.overlaps
validate_device_scratch(scratch, v) == v.staged => scratch

(* Everything is checked before the first wait. *)
Check ==
    LET v == call.view
    IN  /\ pc = "check"
        /\ pc' = IF /\ call.producer /\ validate_logits_shape(v, call.vocabulary)
                    /\ v.owned /\ v.onDevice
                    /\ validate_host_scratch(call.host, v, 2 * call.vocabulary)
                    /\ validate_device_scratch(call.scratch, v)
                 THEN "wait" ELSE "refused"
        /\ UNCHANGED <<call, writing, logits, stored, host, winner>>

(* Seeded fault: the copy does not wait for the producer. *)
MutNoWait(ok) ==
    /\ pc = "wait" /\ pc' = IF ok THEN "copy" ELSE "failed"
    /\ UNCHANGED <<call, writing, logits, stored, host, winner>>

(* DeviceOps::wait returns when the producer has ended; one that failed,    *)
(* wherever it got, makes it throw.                                         *)
WaitProducer(ok) ==
    /\ pc = "wait" /\ (ok => writing = Len(logits))
    /\ pc' = IF ok THEN "copy" ELSE "failed"
    /\ UNCHANGED <<call, writing, logits, stored, host, winner>>

(* The synchronous transfer; when it throws the host bytes stay as they are. *)
Copy(ok) ==
    /\ pc = "copy"
    /\ IF ok THEN host' = stored /\ pc' = "scan"
       ELSE pc' = "failed" /\ UNCHANGED host
    /\ UNCHANGED <<call, writing, logits, stored, winner>>

(* Seeded fault: a later equal logit wins. *)
MutLastMaximum(best, id) ==
    IF best = 0 \/ nonfinite(host[id]) THEN 0
    ELSE IF decode_bf16(host[id]) >= decode_bf16(host[best]) THEN id ELSE best

(* One round of the loop; 0 once a logit was not finite, which throws. *)
Better(best, id) ==
    IF best = 0 \/ nonfinite(host[id]) THEN 0
    ELSE IF decode_bf16(host[id]) > decode_bf16(host[best]) THEN id ELSE best

scan_logits ==
    LET best[id \in DOMAIN host] ==
            IF id = 1 THEN (IF nonfinite(host[1]) THEN 0 ELSE 1)
            ELSE Better(best[id - 1], id)
    IN  best[Len(host)]

Scan ==
    /\ pc = "scan"
    /\ winner' = scan_logits
    /\ pc' = IF winner' = 0 THEN "nonfinite" ELSE "selected"
    /\ UNCHANGED <<call, writing, logits, stored, host>>

Next ==
    \/ Produce \/ Check \/ Scan
    \/ \E ok \in BOOLEAN : WaitProducer(ok) \/ Copy(ok)

Spec == Init /\ [][Next]_vars

--------------------------------------------------------------------------------
(* The selected token is the first of the largest logits the producer       *)
(* wrote, all of which are finite; a refusal is never mistaken for a token, *)
(* and a nonfinite logit anywhere in the row is reported.                   *)
SelectsFirstMaximum ==
    LET finite == \A i \in DOMAIN logits : ~nonfinite(logits[i])
        value(i) == decode_bf16(logits[i])
    IN  /\ pc = "selected" =>
             /\ finite
             /\ \A i \in DOMAIN logits :
                    /\ value(i) <= value(winner)
                    /\ value(i) = value(winner) => winner <= i
        /\ pc = "nonfinite" => ~finite
================================================================================
