------------------------------- MODULE MCSession -------------------------------
(***************************************************************************)
(* A session of two layers over a context of three rows, on a backend      *)
(* whose projections, attention and uploads stage their operands in ranges *)
(* that grow with the rows: the one that needs most of the workspace.      *)
(***************************************************************************)
EXTENDS Session

MCConfig == [F |-> 4, M |-> 6, Hq |-> 2, Hkv |-> 1, D |-> 2, C |-> 3, L |-> 2,
             V |-> 3]

Bytes(n) == IF n = 0 THEN NoBytes ELSE [bytes |-> n, alignment |-> 32]

Backend(prefillBytes(_), decodeBytes(_)) ==
    [bank \in {"prefill", "decode"} |->
        [op \in Operations |-> Bytes(IF bank = "prefill" THEN prefillBytes(op)
                                     ELSE decodeBytes(op))]]

Projections == {"q", "k", "v", "projection", "gate", "up", "down", "lm_head"}

StagedPrefill(op) == IF op \in Projections THEN 72
                     ELSE IF op = "sdpa" THEN 96
                     ELSE IF op = "copy_from_host" THEN 32 ELSE 0
StagedDecode(op) == IF op \in Projections \ {"down"} THEN 24
                    ELSE IF op = "sdpa" THEN 40
                    ELSE IF op = "copy_from_host" THEN 32 ELSE 0

MCNeeds == {Backend(StagedPrefill, StagedDecode)}
================================================================================
