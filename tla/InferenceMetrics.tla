---------------------------- MODULE InferenceMetrics ---------------------------
(***************************************************************************)
(* The observation recorder a session may be given                         *)
(* (src/src/inference_metrics.cpp) as operators from one recorder state to *)
(* the next.  Durations are left out: what matters is which request every  *)
(* observation is booked on.  A phase is "not_run", "succeeded" or         *)
(* "failed"; trace rows are in acceptance order, row i for the i-th        *)
(* accepted token of the admitted request.                                 *)
(***************************************************************************)
EXTENDS Naturals, Sequences

NoScalars == [tokenization |-> "not_run", prefill |-> "not_run",
              decode |-> "not_run", prompt |-> 0, generated |-> 0,
              decodeForwards |-> 0, decodeTokens |-> 0, ttft |-> FALSE,
              rate |-> FALSE, stop |-> "none", failure |-> "none"]

NewRecorder == [attempt |-> [ordinal |-> 0, outcome |-> "none", prompt |-> 0],
                ordinal |-> 0, admitted |-> FALSE, scalars |-> NoScalars,
                staged |-> FALSE, intervalOpen |-> FALSE,
                rateInvalidated |-> FALSE, load |-> "not_run",
                tracing |-> FALSE, rows |-> <<>>, dropped |-> 0]

(* Mutant: any attempt writes the admitted request. *)
MutAnyAttempt(m) == m.admitted

writes_admitted_request(m) == m.admitted /\ m.attempt.ordinal = m.ordinal

begin_generation(m, prompt) ==
    [m EXCEPT !.staged = TRUE, !.intervalOpen = FALSE,
              !.attempt = [ordinal |-> m.ordinal + 1, outcome |-> "in_progress",
                           prompt |-> prompt]]

(* Mutant: the counts of the outgoing request are kept. *)
MutPublishKeeps(m) ==
    [m EXCEPT !.ordinal = @ + 1, !.admitted = TRUE, !.staged = FALSE,
              !.attempt = [ordinal |-> m.ordinal + 1, outcome |-> "none",
                           prompt |-> 0],
              !.rateInvalidated = FALSE, !.intervalOpen = FALSE, !.rows = <<>>]

publish_generation(m) ==
    [m EXCEPT !.ordinal = @ + 1, !.admitted = TRUE, !.staged = FALSE,
              !.scalars = [NoScalars EXCEPT
                              !.prompt = IF m.staged THEN m.attempt.prompt ELSE 0],
              !.attempt = [ordinal |-> m.ordinal + 1, outcome |-> "none",
                           prompt |-> 0],
              !.rateInvalidated = FALSE, !.intervalOpen = FALSE, !.rows = <<>>]

(* An observation that counts only for the published attempt. *)
Booked(m, scalars) ==
    IF writes_admitted_request(m) THEN [m EXCEPT !.scalars = scalars] ELSE m

end_generation(m, reason) ==
    LET rate == ~m.rateInvalidated /\ m.scalars.decodeTokens # 0
        done == Booked(m, [m.scalars EXCEPT !.stop = reason,
                                            !.rate = @ \/ rate])
    IN  [done EXCEPT !.attempt.outcome = "succeeded", !.intervalOpen = FALSE]

(* A retained failure takes the request's rate away for good. *)
Failed(m, failure) ==
    LET done == Booked(m, [m.scalars EXCEPT !.failure = failure,
                                            !.rate = FALSE])
    IN  [done EXCEPT !.attempt.outcome = "failed",
                     !.rateInvalidated = @ \/ writes_admitted_request(m)]

end_generation_failure(m, failure) ==
    [Failed(m, failure) EXCEPT !.intervalOpen = FALSE]

record_preprocessing_failure(m, failure) == Failed(m, failure)

record_load(m, outcome) == [m EXCEPT !.load = outcome]
record_tokenization(m, outcome) ==
    Booked(m, [m.scalars EXCEPT !.tokenization = outcome])
record_prefill(m, outcome) == Booked(m, [m.scalars EXCEPT !.prefill = outcome])
record_decode(m, outcome) == Booked(m, [m.scalars EXCEPT !.decode = outcome])
record_decode_forward(m) ==
    Booked(m, [m.scalars EXCEPT !.decodeForwards = @ + 1])

record_decode_interval(m) ==
    IF writes_admitted_request(m) THEN [m EXCEPT !.intervalOpen = TRUE] ELSE m

(* Every committed token counts; the first one ends the time to first      *)
(* token, one that a decode produced closes its interval.                  *)
commit_token(m, fromDecode) ==
    LET s == m.scalars
        counted == [s EXCEPT !.generated = @ + 1, !.ttft = TRUE,
                             !.decodeTokens = IF fromDecode THEN @ + 1 ELSE @]
    IN  [Booked(m, counted) EXCEPT
            !.intervalOpen = @ /\ ~(fromDecode /\ writes_admitted_request(m))]

prepare_trace(m) == [m EXCEPT !.rows = <<>>, !.tracing = TRUE]

(* One row per accepted token, dropped and counted when the table is full. *)
record_enqueue(m, capacity) ==
    IF ~m.tracing THEN m
    ELSE IF Len(m.rows) >= capacity THEN [m EXCEPT !.dropped = @ + 1]
    ELSE [m EXCEPT !.rows = Append(@, [ordinal |-> IF m.staged
                                                  THEN m.attempt.ordinal
                                                  ELSE m.ordinal,
                                      wait |-> "not_observed"])]

(* The first observation of a row stays; a failure of the admitted request *)
(* takes its rate away whether or not it has a row.                        *)
record_wait(m, row, owner, outcome) ==
    LET owned == outcome = "failed" /\ owner # 0 /\ m.admitted
                 /\ m.ordinal = owner
        base == IF owned
                THEN [m EXCEPT !.scalars.rate = FALSE,
                               !.rateInvalidated = TRUE]
                ELSE m
    IN  IF row \in DOMAIN base.rows /\ base.rows[row].wait = "not_observed"
        THEN [base EXCEPT !.rows[row].wait = outcome]
        ELSE base
================================================================================
