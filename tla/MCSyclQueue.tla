------------------------------ MODULE MCSyclQueue ------------------------------
(* Two slots and four tasks: an embedding with a bad index before one       *)
(* without, so that a status cell is reused, a binary that stages its       *)
(* operands, and a request that launches nothing.                           *)
EXTENDS SyclQueue

MCSlots == 1 .. 2
MCKind == <<"embedding", "binary", "embedding", "noop">>
MCOutOfRange == {1}
================================================================================
