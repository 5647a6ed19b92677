----------------------------- MODULE OrderedTokens -----------------------------
(***************************************************************************)
(* What a queue promises its caller, without saying how (the contract of   *)
(* src/docs/BACKEND_CONTRACT/queue-and-token-contract.md as far as         *)
(* DeviceOps keeps it): submissions are numbered upwards, they finish one  *)
(* by one in submission order with an outcome that never changes, and only *)
(* the newest one can be withdrawn, before its caller has a token.  Once   *)
(* the queue closes, what has not finished may be cancelled in any order.  *)
(***************************************************************************)
EXTENDS Integers

CONSTANT MaxToken

VARIABLES
    unfinished,     \* accepted submissions that have no outcome yet
    outcome,        \* finished submissions: sequence -> "ok" or "failed"
    closed

tokenQueueVars == <<unfinished, outcome, closed>>

Outcomes == {"ok", "failed"}
Known == unfinished \cup DOMAIN outcome

Init ==
    /\ unfinished = {}
    /\ outcome = [s \in {} |-> "ok"]
    /\ closed = FALSE

Accept(s) ==
    /\ ~closed
    /\ \A k \in Known : k < s
    /\ unfinished' = unfinished \cup {s}
    /\ UNCHANGED <<outcome, closed>>

Withdraw(s) ==
    /\ s \in unfinished
    /\ \A k \in Known : k <= s
    /\ unfinished' = unfinished \ {s}
    /\ UNCHANGED <<outcome, closed>>

Finish(s, result) ==
    /\ s \in unfinished
    /\ ~closed => \A u \in unfinished : s <= u
    /\ unfinished' = unfinished \ {s}
    /\ outcome' = [k \in DOMAIN outcome \cup {s} |->
                      IF k = s THEN result ELSE outcome[k]]
    /\ UNCHANGED closed

Close == closed' = TRUE /\ UNCHANGED <<unfinished, outcome>>

Next ==
    \/ \E s \in 1 .. MaxToken : Accept(s)
    \/ \E s \in 1 .. MaxToken : Withdraw(s)
    \/ \E s \in 1 .. MaxToken, result \in Outcomes : Finish(s, result)
    \/ Close

Spec == Init /\ [][Next]_tokenQueueVars
================================================================================
