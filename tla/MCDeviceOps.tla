------------------------------ MODULE MCDeviceOps ------------------------------
(***************************************************************************)
(* DeviceOps seen as the queue of ordered tokens it implements.            *)
(***************************************************************************)
EXTENDS DeviceOps

(* The number the host has reserved but not published, or taken back. *)
Reserved ==
    IF pc["host"] \in {"prepare", "publish", "unwind", "abandon"} THEN {mine} ELSE {}

Finished == Waitable \ (nodes \cup Reserved)

Tokens == INSTANCE OrderedTokens WITH
    MaxToken <- MaxSequence,
    unfinished <- nodes,
    outcome <- [s \in Finished |-> IF s \in failures THEN "failed" ELSE "ok"],
    closed <- closing \/ shutdown

(* Every step of the admission protocol is a step of the ordered token      *)
(* queue, or leaves it unchanged.                                           *)
ImplementsOrderedTokens == Tokens!Spec
================================================================================
