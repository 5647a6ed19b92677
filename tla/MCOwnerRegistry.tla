---------------------------- MODULE MCOwnerRegistry ----------------------------
(***************************************************************************)
(* Three submissions on two queues that share a tensor: an attention, an   *)
(* operation on the other queue that leases the same range, and a copy.    *)
(***************************************************************************)
EXTENDS OwnerRegistry

SharedOwners == [o \in {1, 2, 3} |-> {"k"}]
SharedRange == [o \in {1, 2, 3} |-> IF o = 3 THEN {} ELSE {1, 2}]
TwoQueues == [o \in {1, 2, 3} |-> IF o = 1 THEN "q1" ELSE "q2"]
================================================================================
