----------------------------- MODULE Session_proofs -----------------------------
(***************************************************************************)
(* Proofs about the session (Session).  The inductive invariant says, for  *)
(* each place the caller thread can be in: which tokens the queue may      *)
(* still hold and which have been seen to end, how far the cache of every  *)
(* layer has come, which tensors and cache rows hold the values of this    *)
(* request, and what the recorder has booked.                              *)
(***************************************************************************)
EXTENDS Session, FiniteSetTheorems, SequenceTheorems, WellFoundedInduction, TLAPS

Banks == {"prefill", "decode"}
LayerOps == {"norm1", "q", "k", "v", "rope_q", "rope_k", "append_k", "append_v",
             "sdpa", "projection", "first_residual", "norm2", "gate", "up",
             "silu", "mul", "down", "residual"}
Ops == LayerOps \cup {"embedding", "final_norm", "lm_head"}
Tokens(ops, sts) == [op : ops, ordinal : Nat, bank : Banks, a : Nat, R : Nat,
                     layer : Nat, st : sts]
Accepted == Tokens({"embedding", "final_norm", "lm_head"},
                   {"pending", "ok", "failed"})
Members == Tokens(Ops, {"pending", "ok", "failed", "rejected"})

Forward == {"upload", "embedding", "layer", "step", "final_norm", "await_norm",
            "lm_head", "ready"}
Published == Forward \cup {"select", "decode"}
Pcs == Published \cup {"unloaded", "idle", "throw", "build", "dead",
                       "drain_build", "drain_throw", "drain_destroy"}

Failures == Ops \cup {"none", "device_error", "overflow_error", "poisoned",
                      "invalid_argument", "logic_error", "bad_alloc",
                      "selector", "preprocessing"}
Reasons == {"none", "eos", "max_new_tokens", "context_capacity"}
Outcomes == {"none", "in_progress", "succeeded", "failed"}

(* The shape of the recorder's state. *)
Phases == {"not_run", "succeeded", "failed"}
Scalars == [tokenization : Phases, prefill : Phases, decode : Phases,
            prompt : Nat, generated : Nat, decodeForwards : Nat,
            decodeTokens : Nat, ttft : BOOLEAN, rate : BOOLEAN, stop : Reasons,
            failure : Failures]
Rows == [ordinal : Nat, wait : {"not_observed", "succeeded", "failed"}]
Attempts == [ordinal : Nat, outcome : Outcomes, prompt : Nat]
Recorders == [attempt : Attempts,
              ordinal : Nat, admitted : BOOLEAN, scalars : Scalars,
              staged : BOOLEAN, intervalOpen : BOOLEAN,
              rateInvalidated : BOOLEAN, load : Phases, tracing : BOOLEAN,
              rows : Seq(Rows), dropped : Nat]

Calls == [kind : {"none", "tokens", "text", "setup"}, prompt : Nat, max : Nat,
          phase : {"none", "setup", "prefill", "select", "decode"},
          fromDecode : BOOLEAN, decodePending : BOOLEAN]
Requests == [ordinal : Nat, run : Nat, history : Nat, results : Nat]
Forwards == [bank : Banks, a : Nat, R : Nat, layer : 0 .. Config.L,
             step : 1 .. 13]

(* The type of every variable. *)
TypeOK ==
    /\ pc \in Pcs /\ call \in Calls /\ need \in Needs /\ request \in Requests
    /\ ledger \in Seq(Accepted) /\ group \in Seq(Members) /\ fwd \in Forwards
    /\ buf \in [Owners -> Nat \X Nat \X Nat]
    /\ rows \in [Caches -> [0 .. Config.C - 1 -> Nat]]
    /\ prefix \in [Layers -> Nat]
    /\ poisoned \in BOOLEAN /\ err \in Failures /\ drained \in Failures
    /\ drainAt \in Nat \ {0} /\ calls \in Nat
    /\ ret \in [ok : BOOLEAN, tokens : Nat, reason : Reasons \cup Failures]
    /\ metrics \in Recorders

--------------------------------------------------------------------------------
(* A poisoned session only drains, throws, rests or is dead. *)
PoisonStops ==
    /\ poisoned => pc \in {"idle", "throw", "drain_throw", "drain_destroy",
                           "dead"}
    /\ pc = "drain_throw" => poisoned

(* Only the token submitted last may not have been waited for. *)
Awaited == pc \in {"await_norm", "ready"} \/ (pc = "layer" /\ fwd.layer = 0)

LedgerSettled ==
    /\ ~poisoned => \A i \in DOMAIN ledger :
           ledger[i].st = "ok" \/ (i = Len(ledger) /\ Awaited)
    /\ poisoned => \A i \in DOMAIN ledger : ledger[i].st = "pending" =>
           pc = "drain_throw" /\ i = Len(ledger) /\ drainAt <= i

OfForward(t, op, layer) ==
    /\ t.op = op /\ t.ordinal = request.ordinal /\ t.bank = fwd.bank
    /\ t.a = fwd.a /\ t.R = fwd.R /\ t.layer = layer

LastIsAwaited ==
    /\ Awaited => ledger # <<>>
    /\ pc = "layer" /\ fwd.layer = 0 =>
           OfForward(ledger[Len(ledger)], "embedding", 0)
    /\ pc = "await_norm" =>
           OfForward(ledger[Len(ledger)], "final_norm", Config.L)
    /\ pc = "ready" => OfForward(ledger[Len(ledger)], "lm_head", Config.L)

(* The members of a step exist only while it runs or its failure unwinds. *)
GroupSettled ==
    /\ pc \notin {"step", "drain_throw", "throw"} => group = <<>>
    /\ pc # "step" => \A i \in DOMAIN group : group[i].st # "pending"

GroupOfStep ==
    pc = "step" =>
        /\ Len(group) <= Len(LayerSteps[fwd.step])
        /\ \A i \in DOMAIN group :
               OfForward(group[i], LayerSteps[fwd.step][i], fwd.layer)

(* The failure a step throws is the one it unwinds with. *)
FirstFailureKept ==
    pc \in {"drain_throw", "throw"} /\ Broken # {}
        /\ LayerSteps[fwd.step] # <<"gate", "up">>
            => err = group[Min(Broken)].op

(* How far the forward has come, and with it the caches' prefixes. *)
PlaceInForward ==
    /\ pc \in {"upload", "embedding"} => fwd.layer = 0
    /\ pc \in {"layer", "step"} => fwd.layer < Config.L
    /\ pc \in {"final_norm", "await_norm", "lm_head", "ready"} =>
           fwd.layer = Config.L
    /\ pc \in Forward \ {"step"} => fwd.step = 1
    /\ pc \in Published => fwd.a + fwd.R <= Config.C

PrefixesInStep ==
    /\ pc \in Forward => \A l \in Layers :
           prefix[l] = IF l < fwd.layer THEN fwd.a + fwd.R ELSE fwd.a
    /\ pc \in {"select", "decode"} => \A l \in Layers :
           prefix[l] = fwd.a + fwd.R
    /\ ~poisoned /\ pc \notin Forward => \A k, l \in Layers :
           prefix[k] = prefix[l]

(* Which rows a forward is for: the prompt, or the last token selected. *)
HistoryCounted ==
    /\ pc \in {"drain_build", "build"} => call.prompt <= Config.C
    /\ pc \in Forward =>
           \/ /\ call.phase = "prefill" /\ fwd.a = 0 /\ fwd.R = call.prompt
              /\ request.history = 0 /\ request.results = 0
              /\ ~call.fromDecode
           \/ /\ call.phase = "decode" /\ fwd.R = 1
              /\ request.history = fwd.a + 1 /\ request.results > 0
              /\ call.fromDecode
    /\ pc = "select" => /\ call.phase = "select"
                        /\ request.history = fwd.a + fwd.R
                        /\ request.results = 0 => fwd.a = 0
                        /\ request.results > 0 => fwd.R = 1
                        /\ call.fromDecode = (request.results > 0)
    /\ pc = "decode" => /\ call.phase = "select" /\ request.results > 0
                        /\ request.history = fwd.a + fwd.R + 1
                        /\ request.history < Config.C

(* The value a tensor of the running forward holds before layer l. *)
Value(l) == <<request.ordinal, fwd.a, l>>
Holds(role, l) == buf[<<fwd.bank, role>>] = Value(l)
RowsWritten(o, n) == \A i \in 0 .. n - 1 : rows[o][i] = request.ordinal

Role(op) ==
    CASE op = "norm1" -> "attention_norm"
      [] op = "q" -> "q"
      [] op = "k" -> "k"
      [] op = "v" -> "v"
      [] op = "rope_q" -> "rotated_q"
      [] op = "rope_k" -> "rotated_k"
      [] op = "sdpa" -> "attention_merged"
      [] op = "projection" -> "attention_output"
      [] op = "first_residual" -> "residual_after_attention"
      [] op = "norm2" -> "mlp_norm"
      [] op = "gate" -> "gate"
      [] op = "up" -> "up"
      [] op = "silu" -> "silu"
      [] op = "mul" -> "product"
      [] op = "down" -> "down"

StepOf(op) ==
    CASE op = "norm1" -> 1
      [] op \in {"q", "k", "v"} -> 2
      [] op \in {"rope_q", "rope_k"} -> 3
      [] op \in {"append_k", "append_v"} -> 4
      [] op = "sdpa" -> 5
      [] op = "projection" -> 6
      [] op = "first_residual" -> 7
      [] op = "norm2" -> 8
      [] op \in {"gate", "up"} -> 9
      [] op = "silu" -> 10
      [] op = "mul" -> 11
      [] op = "down" -> 12
      [] op = "residual" -> 13

(* What an operation of the running layer leaves behind when it ends well. *)
Made(op) ==
    CASE op = "append_k" -> RowsWritten(<<"key", fwd.layer>>, fwd.a + fwd.R)
      [] op = "append_v" -> RowsWritten(<<"value", fwd.layer>>, fwd.a + fwd.R)
      [] op = "residual" -> Holds(LayerOutput(fwd.layer), fwd.layer + 1)
      [] OTHER -> Holds(Role(op), fwd.layer)

LastDone == ledger[Len(ledger)].st = "ok"

InputsHeld ==
    /\ pc = "embedding" \/ (pc = "layer" /\ fwd.layer = 0) =>
           Holds("token_indices", 0)
    /\ pc = "layer" /\ fwd.layer = 0 /\ LastDone => Holds("x", 0)
    /\ (pc = "layer" /\ fwd.layer > 0) \/ pc = "step" =>
           Holds(LayerInput(fwd.layer), fwd.layer)
    /\ pc \in {"final_norm", "await_norm"} =>
           Holds(final_layer_output(Config.L), Config.L)

StepsMade ==
    pc = "step" =>
        /\ \A op \in LayerOps : StepOf(op) < fwd.step => Made(op)
        /\ \A i \in DOMAIN group : group[i].st = "ok" => Made(group[i].op)

OutputsHeld ==
    /\ (pc = "await_norm" /\ LastDone) \/ pc \in {"lm_head", "ready"} =>
           Holds("final_norm", Config.L)
    /\ (pc = "ready" /\ LastDone) \/ pc = "select" =>
           buf[Logits] = Value(Config.L)

CachesWritten ==
    /\ pc \in Forward => \A o \in Caches :
           RowsWritten(o, IF o[2] < fwd.layer THEN fwd.a + fwd.R ELSE fwd.a)
    /\ pc \in {"select", "decode"} => \A o \in Caches :
           RowsWritten(o, fwd.a + fwd.R)

(* The workspace plan was accepted, and unaided members need none. *)
PlanKept ==
    /\ pc \in Published => PlanAccepted
    /\ pc = "step" => \A op \in {"rmsnorm", "rope"} :
                          need[fwd.bank][op].bytes = 0

(* Which call the thread is in, and how far. *)
InRequest == pc \in Published \cup {"drain_throw"}
             \/ (pc = "throw" /\ call.phase # "setup")
InSetup == pc \in {"drain_build", "build"}
           \/ (pc = "throw" /\ call.phase = "setup")

CallPlaced ==
    /\ InRequest => /\ call.kind \in {"tokens", "text"}
                    /\ call.phase \in {"prefill", "select", "decode"}
    /\ InSetup => /\ call.kind # "none" /\ call.phase = "setup"
                  /\ ~call.decodePending /\ ~call.fromDecode
    /\ pc \in {"unloaded", "idle", "drain_destroy", "dead"} => call = NoCall

AttemptPlaced ==
    /\ metrics.ordinal = request.ordinal
    /\ InRequest => /\ metrics.admitted
                    /\ metrics.attempt.ordinal = metrics.ordinal
                    /\ metrics.scalars.stop = None
                    /\ metrics.scalars.failure = None
                    /\ ~metrics.scalars.rate
    /\ InSetup /\ call.kind # "setup" =>
           metrics.attempt.ordinal = metrics.ordinal + 1

Counted ==
    LET s == metrics.scalars IN
    /\ s.generated = request.results
    /\ s.decodeTokens = IF request.results = 0 THEN 0 ELSE request.results - 1
    /\ s.decodeForwards \in {s.decodeTokens, s.decodeTokens + 1}
    /\ pc \in Published \ {"select"} => s.decodeForwards = s.decodeTokens
    /\ pc = "select" => s.decodeForwards = IF request.results = 0 THEN 0
                                           ELSE s.decodeTokens + 1

RatesEarned ==
    LET s == metrics.scalars IN
    /\ s.rate => s.decodeTokens > 0
    /\ poisoned => ~s.rate
    /\ s.failure # None => ~s.rate /\ s.stop = None

RowsPaired ==
    /\ metrics.dropped = 0
    /\ metrics.tracing /\ (ledger # <<>> \/ pc \in Published) =>
           Len(metrics.rows) = Len(ledger)
    /\ ~metrics.tracing => metrics.rows = <<>>
    /\ request.ordinal = 0 => ledger = <<>> /\ pc \notin Published
    /\ pc = "unloaded" => request.ordinal = 0

RowsTruthful ==
    \A i \in DOMAIN metrics.rows \cap DOMAIN ledger :
        metrics.rows[i].wait = "failed" => ledger[i].st = "failed"

(* The inductive invariant. *)
IInv ==
    /\ TypeOK /\ PoisonStops /\ LedgerSettled /\ LastIsAwaited /\ GroupSettled
    /\ GroupOfStep /\ FirstFailureKept /\ PlaceInForward /\ PrefixesInStep
    /\ HistoryCounted /\ InputsHeld /\ StepsMade /\ OutputsHeld /\ CachesWritten
    /\ PlanKept /\ CallPlaced /\ AttemptPlaced /\ Counted /\ RatesEarned
    /\ RowsPaired /\ RowsTruthful

--------------------------------------------------------------------------------
(***************************************************************************)
(* What the recorder's operations leave alone.                             *)
(***************************************************************************)
SameTrace(m, n) ==
    n.tracing = m.tracing /\ n.rows = m.rows /\ n.dropped = m.dropped
SameAttempt(m, n) ==
    /\ n.ordinal = m.ordinal /\ n.admitted = m.admitted
    /\ n.attempt.ordinal = m.attempt.ordinal
SameCounts(s, t) ==
    /\ t.generated = s.generated /\ t.decodeForwards = s.decodeForwards
    /\ t.decodeTokens = s.decodeTokens
SameEnd(s, t) == t.rate = s.rate /\ t.stop = s.stop /\ t.failure = s.failure

(* Only the published attempt changes the request's scalars. *)
Guarded(m, n) == n.scalars # m.scalars => writes_admitted_request(m)

(* Booked writes the scalars of the published attempt and nothing else. *)
LEMMA BookedEffect ==
    ASSUME NEW m \in Recorders, NEW s \in Scalars
    PROVE  /\ Booked(m, s) \in Recorders
           /\ Booked(m, s) = [m EXCEPT !.scalars = IF writes_admitted_request(m)
                                                   THEN s ELSE m.scalars]
           /\ SameTrace(m, Booked(m, s)) /\ SameAttempt(m, Booked(m, s))
           /\ Booked(m, s).attempt = m.attempt
           /\ Booked(m, s).rateInvalidated = m.rateInvalidated
           /\ Guarded(m, Booked(m, s))
           /\ Booked(m, s).scalars = IF writes_admitted_request(m) THEN s
                                     ELSE m.scalars
  BY DEF Booked, Recorders, SameTrace, SameAttempt, Guarded

(* Phase outcomes leave the counts and the end of the request alone. *)
LEMMA PhaseEffect ==
    ASSUME NEW m \in Recorders, NEW o \in Phases,
           NEW n \in {record_tokenization(m, o), record_prefill(m, o),
                      record_decode(m, o)}
    PROVE  /\ n \in Recorders /\ SameTrace(m, n) /\ SameAttempt(m, n)
           /\ SameCounts(m.scalars, n.scalars) /\ SameEnd(m.scalars, n.scalars)
           /\ Guarded(m, n)
  <1> DEFINE s1 == [m.scalars EXCEPT !.tokenization = o]
             s2 == [m.scalars EXCEPT !.prefill = o]
             s3 == [m.scalars EXCEPT !.decode = o]
  <1>0. m.scalars \in Scalars
    BY DEF Recorders
  <1>1. \A s \in {s1, s2, s3} : /\ s \in Scalars /\ SameCounts(m.scalars, s)
                                /\ SameEnd(m.scalars, s)
    BY <1>0 DEF Scalars, SameCounts, SameEnd
  <1>2. PICK s \in {s1, s2, s3} : n = Booked(m, s)
    BY DEF record_tokenization, record_prefill, record_decode
  <1>3. SameCounts(m.scalars, m.scalars) /\ SameEnd(m.scalars, m.scalars)
    BY DEF SameCounts, SameEnd
  <1> QED
    BY <1>1, <1>2, <1>3, BookedEffect

(* An attempt begins without touching the admitted request. *)
LEMMA BeginEffect ==
    ASSUME NEW m \in Recorders, NEW p \in Nat
    PROVE  /\ begin_generation(m, p) \in Recorders
           /\ SameTrace(m, begin_generation(m, p))
           /\ begin_generation(m, p).scalars = m.scalars
           /\ begin_generation(m, p).ordinal = m.ordinal
           /\ begin_generation(m, p).admitted = m.admitted
           /\ begin_generation(m, p).attempt.ordinal = m.ordinal + 1
  <1> DEFINE a == [ordinal |-> m.ordinal + 1, outcome |-> "in_progress",
                   prompt |-> p]
  <1>1. m.ordinal \in Nat
    BY DEF Recorders
  <1>2. /\ a \in Attempts
        /\ a.ordinal = m.ordinal + 1
    BY <1>1 DEF Attempts, Outcomes
  <1>3. begin_generation(m, p) = [m EXCEPT !.staged = TRUE,
                                          !.intervalOpen = FALSE, !.attempt = a]
    BY DEF begin_generation
  <1> HIDE DEF a
  <1>4. begin_generation(m, p) \in Recorders
    BY <1>2, <1>3 DEF Recorders
  <1> QED
    BY <1>2, <1>3, <1>4 DEF Recorders, SameTrace

(* Publication starts the books of the next request. *)
LEMMA PublishEffect ==
    ASSUME NEW m \in Recorders
    PROVE  LET n == publish_generation(m) IN
           /\ n \in Recorders /\ n.ordinal = m.ordinal + 1 /\ n.admitted
           /\ n.attempt.ordinal = n.ordinal /\ n.rows = <<>>
           /\ n.tracing = m.tracing /\ n.dropped = m.dropped
           /\ ~n.scalars.rate /\ n.scalars.stop = None
           /\ n.scalars.failure = None /\ n.scalars.generated = 0
           /\ n.scalars.decodeTokens = 0 /\ n.scalars.decodeForwards = 0
  <1> DEFINE p == IF m.staged THEN m.attempt.prompt ELSE 0
             s == [NoScalars EXCEPT !.prompt = p]
  <1>1. p \in Nat
    BY DEF Recorders, Attempts
  <1> HIDE DEF p
  <1>a. s \in Scalars
    BY <1>1 DEF Scalars, NoScalars, Phases, Reasons, Failures
  <1>b. /\ s.rate = FALSE /\ s.stop = None /\ s.failure = None
        /\ s.generated = 0 /\ s.decodeTokens = 0 /\ s.decodeForwards = 0
    BY DEF NoScalars, None
  <1> DEFINE o == m.ordinal + 1
             a == [ordinal |-> o, outcome |-> "none", prompt |-> 0]
  <1>c. m.ordinal \in Nat
    BY DEF Recorders
  <1>2. /\ a \in Attempts /\ o \in Nat
        /\ a.ordinal = o
    BY <1>c DEF Attempts, Outcomes
  <1> HIDE DEF s
  <1>3. publish_generation(m) =
            [m EXCEPT !.ordinal = o, !.admitted = TRUE,
                      !.staged = FALSE, !.scalars = s,
                      !.attempt = a, !.rateInvalidated = FALSE,
                      !.intervalOpen = FALSE, !.rows = <<>>]
    BY DEF publish_generation, s, p, Recorders
  <1> HIDE DEF a, o
  <1>4. <<>> \in Seq(Rows)
    OBVIOUS
  <1>5. publish_generation(m) \in Recorders
    BY <1>a, <1>2, <1>3, <1>4 DEF Recorders
  <1>6. LET n == publish_generation(m) IN
        /\ n.ordinal = o /\ n.admitted = TRUE /\ n.attempt = a
        /\ n.rows = <<>> /\ n.tracing = m.tracing /\ n.dropped = m.dropped
        /\ n.scalars = s
    BY <1>3 DEF Recorders
  <1> QED
    BY <1>b, <1>2, <1>5, <1>6 DEF o

(* A call that ends well books its reason, and a rate only for decoded tokens. *)
LEMMA EndEffect ==
    ASSUME NEW m \in Recorders, NEW r \in Reasons
    PROVE  LET n == end_generation(m, r) IN
           /\ n \in Recorders /\ SameTrace(m, n) /\ SameAttempt(m, n)
           /\ SameCounts(m.scalars, n.scalars) /\ Guarded(m, n)
           /\ n.scalars.failure = m.scalars.failure
           /\ n.scalars.rate => m.scalars.rate \/ m.scalars.decodeTokens # 0
  <1> DEFINE e == ~m.rateInvalidated /\ m.scalars.decodeTokens # 0
             x == m.scalars.rate \/ e
             s == [m.scalars EXCEPT !.stop = r, !.rate = x]
             b == Booked(m, s)
  <1>0. m.scalars \in Scalars
    BY DEF Recorders
  <1>1. x \in BOOLEAN
    OBVIOUS
  <1>2. x => m.scalars.rate \/ m.scalars.decodeTokens # 0
    OBVIOUS
  <1>3. end_generation(m, r) = [b EXCEPT !.attempt.outcome = "succeeded",
                                         !.intervalOpen = FALSE]
    BY DEF end_generation
  <1> HIDE DEF x, e
  <1>4. /\ s \in Scalars /\ SameCounts(m.scalars, s)
        /\ s.failure = m.scalars.failure /\ s.rate = x
    BY <1>0, <1>1 DEF Scalars, SameCounts
  <1> HIDE DEF s
  <1>5. /\ b \in Recorders /\ SameTrace(m, b) /\ SameAttempt(m, b)
        /\ Guarded(m, b)
        /\ b.scalars = IF writes_admitted_request(m) THEN s ELSE m.scalars
    BY <1>4, BookedEffect
  <1> HIDE DEF b
  <1>6. SameCounts(m.scalars, m.scalars)
    BY DEF SameCounts
  <1> DEFINE n == [b EXCEPT !.attempt.outcome = "succeeded",
                            !.intervalOpen = FALSE]
  <1>z. b.attempt \in Attempts
    BY <1>5 DEF Recorders
  <1>a. /\ b.attempt \in Attempts
        /\ [b.attempt EXCEPT !.outcome = "succeeded"]
               \in Attempts
        /\ [b.attempt EXCEPT !.outcome = "succeeded"].ordinal = b.attempt.ordinal
    BY <1>z DEF Attempts, Outcomes
  <1>b. n \in Recorders
    BY <1>a, <1>5 DEF Recorders
  <1>7. /\ n \in Recorders /\ n.scalars = b.scalars /\ SameTrace(b, n)
        /\ SameAttempt(b, n)
    BY <1>a, <1>b, <1>5 DEF Recorders, SameTrace, SameAttempt
  <1>8. /\ SameTrace(m, n) /\ SameAttempt(m, n) /\ Guarded(m, n)
        /\ SameCounts(m.scalars, n.scalars)
        /\ n.scalars.failure = m.scalars.failure
    BY <1>4, <1>5, <1>6, <1>7 DEF SameTrace, SameAttempt, Guarded
  <1>9. n.scalars.rate => m.scalars.rate \/ m.scalars.decodeTokens # 0
    BY <1>2, <1>4, <1>5, <1>7
  <1> QED
    BY <1>3, <1>7, <1>8, <1>9

(* A failure is booked only on the published attempt, and takes its rate. *)
LEMMA FailedEffect ==
    ASSUME NEW m \in Recorders, NEW f \in Failures,
           NEW n \in {Failed(m, f), end_generation_failure(m, f),
                      record_preprocessing_failure(m, f)}
    PROVE  /\ n \in Recorders /\ SameTrace(m, n) /\ SameAttempt(m, n)
           /\ SameCounts(m.scalars, n.scalars) /\ Guarded(m, n)
           /\ n.scalars.stop = m.scalars.stop
           /\ n.scalars.rate => m.scalars.rate
           /\ \/ n.scalars = m.scalars
              \/ writes_admitted_request(m) /\ ~n.scalars.rate
  <1> DEFINE s == [m.scalars EXCEPT !.failure = f, !.rate = FALSE]
             b == Booked(m, s)
             x == m.rateInvalidated \/ writes_admitted_request(m)
             k == [b EXCEPT !.attempt.outcome = "failed", !.rateInvalidated = x]
  <1>0. m.scalars \in Scalars
    BY DEF Recorders
  <1>1. x \in BOOLEAN
    OBVIOUS
  <1>4. /\ s \in Scalars /\ SameCounts(m.scalars, s)
        /\ s.stop = m.scalars.stop /\ s.rate = FALSE
    BY <1>0 DEF Scalars, SameCounts
  <1>5. /\ b \in Recorders /\ SameTrace(m, b) /\ SameAttempt(m, b)
        /\ Guarded(m, b) /\ b.rateInvalidated = m.rateInvalidated
        /\ b.scalars = IF writes_admitted_request(m) THEN s ELSE m.scalars
    BY <1>4, BookedEffect
  <1>2. Failed(m, f) = k
    BY <1>5 DEF Failed
  <1>3. n = k \/ n = [k EXCEPT !.intervalOpen = FALSE]
    BY <1>2 DEF end_generation_failure, record_preprocessing_failure
  <1> HIDE DEF x, s, b
  <1>z. b.attempt \in Attempts
    BY <1>5 DEF Recorders
  <1>a. /\ b.attempt \in Attempts
        /\ [b.attempt EXCEPT !.outcome = "failed"]
               \in Attempts
        /\ [b.attempt EXCEPT !.outcome = "failed"].ordinal = b.attempt.ordinal
    BY <1>z DEF Attempts, Outcomes
  <1>b. k \in Recorders
    BY <1>a, <1>1, <1>5 DEF Recorders
  <1>7. /\ k \in Recorders /\ k.scalars = b.scalars /\ SameTrace(b, k)
        /\ SameAttempt(b, k)
    BY <1>a, <1>b, <1>1, <1>5 DEF Recorders, SameTrace, SameAttempt
  <1> HIDE DEF k
  <1>8. /\ n \in Recorders /\ n.scalars = k.scalars /\ SameTrace(k, n)
        /\ SameAttempt(k, n)
    BY <1>3, <1>7 DEF Recorders, SameTrace, SameAttempt
  <1>9. /\ SameTrace(m, n) /\ SameAttempt(m, n) /\ Guarded(m, n)
    BY <1>5, <1>7, <1>8 DEF SameTrace, SameAttempt, Guarded
  <1>10. SameCounts(m.scalars, m.scalars)
    BY DEF SameCounts
  <1> QED
    BY <1>4, <1>5, <1>7, <1>8, <1>9, <1>10

(* Opening a decode interval changes nothing else. *)
LEMMA IntervalEffect ==
    ASSUME NEW m \in Recorders
    PROVE  LET n == record_decode_interval(m) IN
           /\ n \in Recorders /\ SameTrace(m, n) /\ SameAttempt(m, n)
           /\ n.scalars = m.scalars
  BY DEF record_decode_interval, Recorders, SameTrace, SameAttempt

(* A finished decode is counted on the published attempt. *)
LEMMA DecodeForwardEffect ==
    ASSUME NEW m \in Recorders
    PROVE  LET n == record_decode_forward(m) IN
           /\ n \in Recorders /\ SameTrace(m, n) /\ SameAttempt(m, n)
           /\ SameEnd(m.scalars, n.scalars) /\ Guarded(m, n)
           /\ n.scalars.generated = m.scalars.generated
           /\ n.scalars.decodeTokens = m.scalars.decodeTokens
           /\ writes_admitted_request(m) => n.scalars.decodeForwards
                                              = m.scalars.decodeForwards + 1
  <1> DEFINE s == [m.scalars EXCEPT !.decodeForwards = @ + 1]
  <1>0. m.scalars \in Scalars
    BY DEF Recorders
  <1>1. /\ s \in Scalars /\ SameEnd(m.scalars, s)
        /\ s.generated = m.scalars.generated
        /\ s.decodeTokens = m.scalars.decodeTokens
        /\ s.decodeForwards = m.scalars.decodeForwards + 1
    BY <1>0 DEF Scalars, SameEnd
  <1>2. SameEnd(m.scalars, m.scalars)
    BY DEF SameEnd
  <1>3. record_decode_forward(m) = Booked(m, s)
    BY DEF record_decode_forward
  <1> HIDE DEF s
  <1> QED
    BY <1>1, <1>2, <1>3, BookedEffect

(* A committed token is counted, as a decoded one when a decode produced it. *)
LEMMA CommitEffect ==
    ASSUME NEW m \in Recorders, NEW d \in BOOLEAN
    PROVE  LET n == commit_token(m, d) IN
           /\ n \in Recorders /\ SameTrace(m, n) /\ SameAttempt(m, n)
           /\ SameEnd(m.scalars, n.scalars) /\ Guarded(m, n)
           /\ writes_admitted_request(m) =>
                  /\ n.scalars.generated = m.scalars.generated + 1
                  /\ n.scalars.decodeForwards = m.scalars.decodeForwards
                  /\ n.scalars.decodeTokens = IF d
                         THEN m.scalars.decodeTokens + 1
                         ELSE m.scalars.decodeTokens
  <1> DEFINE c == IF d THEN m.scalars.decodeTokens + 1
                  ELSE m.scalars.decodeTokens
             g == m.scalars.generated + 1
             s == [m.scalars EXCEPT !.generated = g, !.ttft = TRUE,
                                    !.decodeTokens = c]
             b == Booked(m, s)
             x == b.intervalOpen /\ ~(d /\ writes_admitted_request(m))
  <1>0. m.scalars \in Scalars
    BY DEF Recorders
  <1>1. c \in Nat /\ g \in Nat
    BY <1>0 DEF Scalars
  <1>2. x \in BOOLEAN
    OBVIOUS
  <1>3. commit_token(m, d) = [b EXCEPT !.intervalOpen = x]
    BY <1>0 DEF commit_token, Scalars
  <1> HIDE DEF c, g, x
  <1>a. s \in Scalars
    BY <1>0, <1>1 DEF Scalars
  <1>4. /\ s \in Scalars /\ SameEnd(m.scalars, s)
        /\ s.generated = g /\ s.decodeTokens = c
        /\ s.decodeForwards = m.scalars.decodeForwards
    BY <1>0, <1>a DEF Scalars, SameEnd
  <1> HIDE DEF s
  <1>5. /\ b \in Recorders /\ SameTrace(m, b) /\ SameAttempt(m, b)
        /\ Guarded(m, b)
        /\ b.scalars = IF writes_admitted_request(m) THEN s ELSE m.scalars
    BY <1>4, BookedEffect
  <1> HIDE DEF b
  <1> DEFINE n == [b EXCEPT !.intervalOpen = x]
  <1>6. /\ n \in Recorders /\ n.scalars = b.scalars /\ SameTrace(b, n)
        /\ SameAttempt(b, n)
    BY <1>2, <1>5 DEF Recorders, SameTrace, SameAttempt
  <1>7. /\ SameTrace(m, n) /\ SameAttempt(m, n) /\ Guarded(m, n)
    BY <1>5, <1>6 DEF SameTrace, SameAttempt, Guarded
  <1>8. SameEnd(m.scalars, m.scalars)
    BY DEF SameEnd
  <1> HIDE DEF n
  <1>9. commit_token(m, d) = n
    BY <1>3 DEF n
  <1> QED
    BY <1>4, <1>5, <1>6, <1>7, <1>8, <1>9 DEF c, g

(***************************************************************************)
(* The trace.                                                              *)
(***************************************************************************)

(* An accepted token gets the next row while there is room. *)
LEMMA EnqueueEffect ==
    ASSUME NEW m \in Recorders, NEW c \in Nat,
           m.tracing => Len(m.rows) < c
    PROVE  LET n == record_enqueue(m, c) IN
           /\ n \in Recorders /\ SameAttempt(m, n) /\ n.scalars = m.scalars
           /\ n.tracing = m.tracing /\ n.dropped = m.dropped
           /\ ~m.tracing => n = m
           /\ m.tracing => /\ Len(n.rows) = Len(m.rows) + 1
                           /\ \A i \in DOMAIN m.rows : n.rows[i] = m.rows[i]
                           /\ n.rows[Len(m.rows) + 1].wait = "not_observed"
  <1> DEFINE o == IF m.staged THEN m.attempt.ordinal ELSE m.ordinal
             r == [ordinal |-> o, wait |-> "not_observed"]
             s == Append(m.rows, r)
  <1>1. o \in Nat /\ m.rows \in Seq(Rows)
    BY DEF Recorders, Attempts
  <1>2. CASE ~m.tracing
    BY <1>2 DEF record_enqueue, SameAttempt
  <1>3. CASE m.tracing
    <2>1. record_enqueue(m, c) = [m EXCEPT !.rows = s]
      BY <1>3, <1>1 DEF record_enqueue
    <2>2. r \in Rows /\ r.wait = "not_observed"
      BY <1>1 DEF Rows
    <2> HIDE DEF r
    <2>3. /\ s \in Seq(Rows) /\ Len(s) = Len(m.rows) + 1
          /\ \A i \in DOMAIN m.rows : s[i] = m.rows[i]
          /\ s[Len(m.rows) + 1] = r
      BY <2>2, <1>1
    <2> HIDE DEF s
    <2>4. [m EXCEPT !.rows = s] \in Recorders
      BY <2>3 DEF Recorders
    <2> QED
      BY <1>3, <2>1, <2>2, <2>3, <2>4 DEF Recorders, SameAttempt
  <1> QED
    BY <1>2, <1>3

(***************************************************************************)
(* A wait marks its row once, and a failure takes the rate of the request. *)
(***************************************************************************)
LEMMA WaitEffect ==
    ASSUME NEW m \in Recorders, NEW row \in Nat, NEW owner \in Nat,
           NEW outcome \in {"succeeded", "failed"}
    PROVE  LET n == record_wait(m, row, owner, outcome) IN
           /\ n \in Recorders /\ SameAttempt(m, n)
           /\ n.tracing = m.tracing /\ n.dropped = m.dropped
           /\ DOMAIN n.rows = DOMAIN m.rows /\ Len(n.rows) = Len(m.rows)
           /\ \A i \in DOMAIN m.rows : n.rows[i].wait = "failed" =>
                  m.rows[i].wait = "failed" \/ (i = row /\ outcome = "failed")
           /\ \/ n.scalars = m.scalars
              \/ /\ outcome = "failed" /\ ~n.scalars.rate
                 /\ SameCounts(m.scalars, n.scalars)
                 /\ n.scalars.stop = m.scalars.stop
                 /\ n.scalars.failure = m.scalars.failure
                 /\ ~m.scalars.rate => n.scalars = m.scalars
  <1> DEFINE owned == outcome = "failed" /\ owner # 0 /\ m.admitted
                      /\ m.ordinal = owner
             s == [m.scalars EXCEPT !.rate = FALSE]
             base == IF owned THEN [m EXCEPT !.scalars.rate = FALSE,
                                             !.rateInvalidated = TRUE]
                     ELSE m
             n == record_wait(m, row, owner, outcome)
  <1>0. m.scalars \in Scalars /\ m.rows \in Seq(Rows)
    BY DEF Recorders
  <1>1. /\ s \in Scalars /\ s.rate = FALSE /\ SameCounts(m.scalars, s)
        /\ s.stop = m.scalars.stop /\ s.failure = m.scalars.failure
    BY <1>0 DEF Scalars, SameCounts
  <1>2. ~m.scalars.rate => s = m.scalars
    BY <1>0 DEF Scalars
  <1>3. [m EXCEPT !.scalars.rate = FALSE, !.rateInvalidated = TRUE]
            = [m EXCEPT !.scalars = s, !.rateInvalidated = TRUE]
    BY DEF Recorders
  <1>4. n = IF row \in DOMAIN base.rows /\ base.rows[row].wait = "not_observed"
            THEN [base EXCEPT !.rows[row].wait = outcome] ELSE base
    BY DEF record_wait
  <1> HIDE DEF s
  <1>5. [m EXCEPT !.scalars = s, !.rateInvalidated = TRUE] \in Recorders
    BY <1>1 DEF Recorders
  <1>6. /\ base \in Recorders /\ base.rows = m.rows /\ SameAttempt(m, base)
        /\ base.tracing = m.tracing /\ base.dropped = m.dropped
        /\ \/ base.scalars = m.scalars
           \/ owned /\ base.scalars = s
    BY <1>3, <1>5 DEF Recorders, SameAttempt
  <1> HIDE DEF base, n
  <1> DEFINE rs == IF row \in DOMAIN m.rows /\ m.rows[row].wait = "not_observed"
                   THEN [m.rows EXCEPT ![row].wait = outcome] ELSE m.rows
  <1>7. /\ rs \in Seq(Rows) /\ Len(rs) = Len(m.rows)
        /\ DOMAIN rs = DOMAIN m.rows
        /\ \A i \in DOMAIN m.rows : rs[i].wait = "failed" =>
                  m.rows[i].wait = "failed" \/ (i = row /\ outcome = "failed")
    <2>1. CASE row \in DOMAIN m.rows /\ m.rows[row].wait = "not_observed"
      <3> DEFINE r == [m.rows[row] EXCEPT !.wait = outcome]
      <3>1. m.rows[row] \in Rows
        BY <1>0, <2>1
      <3>2. r \in Rows /\ r.wait = outcome
        BY <3>1 DEF Rows
      <3>3. rs = [m.rows EXCEPT ![row] = r]
        BY <2>1
      <3> HIDE DEF r, rs
      <3> QED
        BY <1>0, <2>1, <3>2, <3>3
    <2>2. CASE ~(row \in DOMAIN m.rows /\ m.rows[row].wait = "not_observed")
      BY <1>0, <2>2
    <2> QED
      BY <2>1, <2>2
  <1>8. n = [base EXCEPT !.rows = rs]
    BY <1>4, <1>6 DEF Recorders
  <1> HIDE DEF rs
  <1>9. /\ n \in Recorders /\ n.rows = rs /\ n.scalars = base.scalars
        /\ SameAttempt(base, n) /\ n.tracing = base.tracing
        /\ n.dropped = base.dropped
    BY <1>6, <1>7, <1>8 DEF Recorders, SameAttempt
  <1>10. SameAttempt(m, n)
    BY <1>6, <1>9 DEF SameAttempt
  <1> QED
    BY <1>1, <1>2, <1>6, <1>7, <1>9, <1>10 DEF n

--------------------------------------------------------------------------------
(***************************************************************************)
(* The plan of a layer.                                                    *)
(***************************************************************************)

(* The thirteen steps of a decoder layer. *)
LEMMA StepTable ==
    /\ Len(LayerSteps) = 13 /\ DOMAIN LayerSteps = 1 .. 13
    /\ LayerSteps[1] = <<"norm1">> /\ LayerSteps[2] = <<"q", "k", "v">>
    /\ LayerSteps[3] = <<"rope_q", "rope_k">>
    /\ LayerSteps[4] = <<"append_k", "append_v">>
    /\ LayerSteps[5] = <<"sdpa">> /\ LayerSteps[6] = <<"projection">>
    /\ LayerSteps[7] = <<"first_residual">> /\ LayerSteps[8] = <<"norm2">>
    /\ LayerSteps[9] = <<"gate", "up">> /\ LayerSteps[10] = <<"silu">>
    /\ LayerSteps[11] = <<"mul">> /\ LayerSteps[12] = <<"down">>
    /\ LayerSteps[13] = <<"residual">>
  <1> DEFINE A == QkvSteps B == AttentionSteps C == MlpSteps
  <1>1. /\ Len(A) = 3 /\ A[1] = <<"norm1">> /\ A[2] = <<"q", "k", "v">>
        /\ A[3] = <<"rope_q", "rope_k">>
    BY DEF QkvSteps
  <1>2. /\ Len(B) = 4 /\ B[1] = <<"append_k", "append_v">> /\ B[2] = <<"sdpa">>
        /\ B[3] = <<"projection">> /\ B[4] = <<"first_residual">>
    BY DEF AttentionSteps
  <1>3. /\ Len(C) = 6 /\ C[1] = <<"norm2">> /\ C[2] = <<"gate", "up">>
        /\ C[3] = <<"silu">> /\ C[4] = <<"mul">> /\ C[5] = <<"down">>
        /\ C[6] = <<"residual">>
    BY DEF MlpSteps
  <1> DEFINE S == {A[1], A[2], A[3]} \cup
                  {B[1], B[2], B[3], B[4]} \cup
                  {C[1], C[2], C[3], C[4], C[5], C[6]}
  <1>4. A \in Seq(S) /\ B \in Seq(S) /\ C \in Seq(S)
    <2>1. /\ \A i \in 1 .. 3 : A[i] \in S
          /\ \A j \in 1 .. 4 : B[j] \in S
          /\ \A k \in 1 .. 6 : C[k] \in S
      OBVIOUS
    <2>2. /\ A = [i \in 1 .. 3 |-> A[i]] /\ B = [i \in 1 .. 4 |-> B[i]]
          /\ C = [i \in 1 .. 6 |-> C[i]]
      BY DEF QkvSteps, AttentionSteps, MlpSteps
    <2> HIDE DEF S
    <2>3. A \in [1 .. 3 -> S] /\ B \in [1 .. 4 -> S] /\ C \in [1 .. 6 -> S]
      BY <2>1, <2>2
    <2>4. \A n \in Nat : [1 .. n -> S] \subseteq Seq(S)
      BY SeqDef
    <2> QED
      BY <2>3, <2>4
  <1> HIDE DEF A, B, C, S
  <1> DEFINE AB == A \o B
  <1>5. /\ AB \in Seq(S) /\ Len(AB) = 7
        /\ \A i \in 1 .. 3 : AB[i] = A[i]
        /\ \A j \in 1 .. 4 : AB[3 + j] = B[j]
    <2>1. /\ AB \in Seq(S) /\ Len(AB) = Len(A) + Len(B)
          /\ \A i \in 1 .. Len(A) + Len(B) :
                 AB[i] = IF i <= Len(A) THEN A[i] ELSE B[i - Len(A)]
      BY <1>4, ConcatProperties, Zenon DEF AB
    <2> HIDE DEF AB
    <2>2. /\ AB \in Seq(S) /\ Len(AB) = 7
          /\ \A i \in 1 .. 7 : AB[i] = IF i <= 3 THEN A[i] ELSE B[i - 3]
      BY <2>1, <1>1, <1>2
    <2>3. \A j \in 1 .. 4 : 3 + j \in 1 .. 7 /\ ~(3 + j <= 3) /\ (3 + j) - 3 = j
      OBVIOUS
    <2> QED
      BY <2>2, <2>3
  <1> HIDE DEF AB
  <1>6. LayerSteps = AB \o C
    BY DEF LayerSteps, AB, A, B, C
  <1>7. /\ Len(LayerSteps) = 13 /\ DOMAIN LayerSteps = 1 .. 13
        /\ \A i \in 1 .. 7 : LayerSteps[i] = AB[i]
        /\ \A j \in 1 .. 6 : LayerSteps[7 + j] = C[j]
    <2> DEFINE ABC == AB \o C
    <2>1. /\ ABC \in Seq(S) /\ Len(ABC) = Len(AB) + Len(C)
          /\ \A i \in 1 .. Len(AB) + Len(C) :
                 ABC[i] = IF i <= Len(AB) THEN AB[i] ELSE C[i - Len(AB)]
      BY <1>4, <1>5, ConcatProperties, Zenon
    <2> HIDE DEF ABC
    <2>2. /\ Len(ABC) = 13 /\ DOMAIN ABC = 1 .. 13
          /\ \A i \in 1 .. 13 : ABC[i] = IF i <= 7 THEN AB[i] ELSE C[i - 7]
      BY <2>1, <1>3, <1>5
    <2>3. \A j \in 1 .. 6 : 7 + j \in 1 .. 13 /\ ~(7 + j <= 7) /\ (7 + j) - 7 = j
      OBVIOUS
    <2>4. LayerSteps = ABC
      BY <1>6 DEF ABC
    <2> QED
      BY <2>2, <2>3, <2>4
  <1> QED
    BY <1>1, <1>2, <1>3, <1>5, <1>7

(* Every member of a step is an operation of that step, and no other's. *)
LEMMA StepMembers ==
    /\ \A s \in 1 .. 13 :
           /\ Len(LayerSteps[s]) \in 1 .. 3
           /\ \A i \in 1 .. Len(LayerSteps[s]) :
                  /\ LayerSteps[s][i] \in LayerOps
                  /\ StepOf(LayerSteps[s][i]) = s
           /\ \A i, j \in 1 .. Len(LayerSteps[s]) :
                  i # j => LayerSteps[s][i] # LayerSteps[s][j]
    /\ \A op \in LayerOps :
           /\ StepOf(op) \in 1 .. 13
           /\ \E i \in 1 .. Len(LayerSteps[StepOf(op)]) :
                  LayerSteps[StepOf(op)][i] = op
  <1>1. ASSUME NEW s \in 1 .. 13
        PROVE  /\ Len(LayerSteps[s]) \in 1 .. 3
               /\ \A i \in 1 .. Len(LayerSteps[s]) :
                      /\ LayerSteps[s][i] \in LayerOps
                      /\ StepOf(LayerSteps[s][i]) = s
               /\ \A i, j \in 1 .. Len(LayerSteps[s]) :
                      i # j => LayerSteps[s][i] # LayerSteps[s][j]
    <2>1. CASE s = 1
      BY <2>1, StepTable DEF LayerOps, StepOf
    <2>2. CASE s = 2
      BY <2>2, StepTable DEF LayerOps, StepOf
    <2>3. CASE s = 3
      BY <2>3, StepTable DEF LayerOps, StepOf
    <2>4. CASE s = 4
      BY <2>4, StepTable DEF LayerOps, StepOf
    <2>5. CASE s = 5
      BY <2>5, StepTable DEF LayerOps, StepOf
    <2>6. CASE s = 6
      BY <2>6, StepTable DEF LayerOps, StepOf
    <2>7. CASE s = 7
      BY <2>7, StepTable DEF LayerOps, StepOf
    <2>8. CASE s = 8
      BY <2>8, StepTable DEF LayerOps, StepOf
    <2>9. CASE s = 9
      BY <2>9, StepTable DEF LayerOps, StepOf
    <2>10. CASE s = 10
      BY <2>10, StepTable DEF LayerOps, StepOf
    <2>11. CASE s = 11
      BY <2>11, StepTable DEF LayerOps, StepOf
    <2>12. CASE s = 12
      BY <2>12, StepTable DEF LayerOps, StepOf
    <2>13. CASE s = 13
      BY <2>13, StepTable DEF LayerOps, StepOf
    <2> QED
      BY <2>1, <2>2, <2>3, <2>4, <2>5, <2>6, <2>7, <2>8, <2>9, <2>10, <2>11,
         <2>12, <2>13
  <1>2. ASSUME NEW op \in LayerOps
        PROVE  /\ StepOf(op) \in 1 .. 13
               /\ \E i \in 1 .. Len(LayerSteps[StepOf(op)]) :
                      LayerSteps[StepOf(op)][i] = op
    <2>1. CASE op = "norm1"
      <3>1. StepOf(op) = 1
        BY <2>1 DEF StepOf
      <3> QED
        BY <2>1, <3>1, StepTable
    <2>2. CASE op = "q"
      <3>1. StepOf(op) = 2
        BY <2>2 DEF StepOf
      <3> QED
        BY <2>2, <3>1, StepTable
    <2>3. CASE op = "k"
      <3>1. StepOf(op) = 2
        BY <2>3 DEF StepOf
      <3> QED
        BY <2>3, <3>1, StepTable
    <2>4. CASE op = "v"
      <3>1. StepOf(op) = 2
        BY <2>4 DEF StepOf
      <3> QED
        BY <2>4, <3>1, StepTable
    <2>5. CASE op = "rope_q"
      <3>1. StepOf(op) = 3
        BY <2>5 DEF StepOf
      <3> QED
        BY <2>5, <3>1, StepTable
    <2>6. CASE op = "rope_k"
      <3>1. StepOf(op) = 3
        BY <2>6 DEF StepOf
      <3> QED
        BY <2>6, <3>1, StepTable
    <2>7. CASE op = "append_k"
      <3>1. StepOf(op) = 4
        BY <2>7 DEF StepOf
      <3> QED
        BY <2>7, <3>1, StepTable
    <2>8. CASE op = "append_v"
      <3>1. StepOf(op) = 4
        BY <2>8 DEF StepOf
      <3> QED
        BY <2>8, <3>1, StepTable
    <2>9. CASE op = "sdpa"
      <3>1. StepOf(op) = 5
        BY <2>9 DEF StepOf
      <3> QED
        BY <2>9, <3>1, StepTable
    <2>10. CASE op = "projection"
      <3>1. StepOf(op) = 6
        BY <2>10 DEF StepOf
      <3> QED
        BY <2>10, <3>1, StepTable
    <2>11. CASE op = "first_residual"
      <3>1. StepOf(op) = 7
        BY <2>11 DEF StepOf
      <3> QED
        BY <2>11, <3>1, StepTable
    <2>12. CASE op = "norm2"
      <3>1. StepOf(op) = 8
        BY <2>12 DEF StepOf
      <3> QED
        BY <2>12, <3>1, StepTable
    <2>13. CASE op = "gate"
      <3>1. StepOf(op) = 9
        BY <2>13 DEF StepOf
      <3> QED
        BY <2>13, <3>1, StepTable
    <2>14. CASE op = "up"
      <3>1. StepOf(op) = 9
        BY <2>14 DEF StepOf
      <3> QED
        BY <2>14, <3>1, StepTable
    <2>15. CASE op = "silu"
      <3>1. StepOf(op) = 10
        BY <2>15 DEF StepOf
      <3> QED
        BY <2>15, <3>1, StepTable
    <2>16. CASE op = "mul"
      <3>1. StepOf(op) = 11
        BY <2>16 DEF StepOf
      <3> QED
        BY <2>16, <3>1, StepTable
    <2>17. CASE op = "down"
      <3>1. StepOf(op) = 12
        BY <2>17 DEF StepOf
      <3> QED
        BY <2>17, <3>1, StepTable
    <2>18. CASE op = "residual"
      <3>1. StepOf(op) = 13
        BY <2>18 DEF StepOf
      <3> QED
        BY <2>18, <3>1, StepTable
    <2> QED
      BY <2>1, <2>2, <2>3, <2>4, <2>5, <2>6, <2>7, <2>8, <2>9, <2>10, <2>11,
         <2>12, <2>13, <2>14, <2>15, <2>16, <2>17, <2>18 DEF LayerOps
  <1> QED
    BY <1>1, <1>2

(* Which tensors and caches the views of a layer lie on. *)
LEMMA ViewOwners ==
    ASSUME NEW t
    PROVE  LET v == Views(t) IN
           /\ v.qkv.activation.owner = <<t.bank, LayerInput(t.layer)>>
           /\ v.qkv.normalized.owner = <<t.bank, "attention_norm">>
           /\ v.qkv.q.owner = <<t.bank, "q">>
           /\ v.qkv.k.owner = <<t.bank, "k">>
           /\ v.qkv.v.owner = <<t.bank, "v">>
           /\ v.qkv.rotated_q.owner = <<t.bank, "rotated_q">>
           /\ v.qkv.rotated_k.owner = <<t.bank, "rotated_k">>
           /\ v.attention.rotated_q.owner = <<t.bank, "rotated_q">>
           /\ v.attention.rotated_k.owner = <<t.bank, "rotated_k">>
           /\ v.attention.rotated_v.owner = <<t.bank, "v">>
           /\ v.attention.k_cache.owner = <<"key", t.layer>>
           /\ v.attention.v_cache.owner = <<"value", t.layer>>
           /\ v.attention.input.owner = <<t.bank, LayerInput(t.layer)>>
           /\ v.attention.merged.owner = <<t.bank, "attention_merged">>
           /\ v.attention.projected.owner = <<t.bank, "attention_output">>
           /\ v.attention.output.owner = <<t.bank, "residual_after_attention">>
           /\ v.mlp.x2.owner = <<t.bank, "residual_after_attention">>
           /\ v.mlp.n2.owner = <<t.bank, "mlp_norm">>
           /\ v.mlp.gate.owner = <<t.bank, "gate">>
           /\ v.mlp.up.owner = <<t.bank, "up">>
           /\ v.mlp.silu.owner = <<t.bank, "silu">>
           /\ v.mlp.product.owner = <<t.bank, "product">>
           /\ v.mlp.down.owner = <<t.bank, "down">>
           /\ v.mlp.next_x.owner = <<t.bank, LayerOutput(t.layer)>>
  <1> DEFINE v == Views(t)
  <1>1. /\ v.qkv.activation.owner = <<t.bank, LayerInput(t.layer)>>
        /\ v.qkv.normalized.owner = <<t.bank, "attention_norm">>
        /\ v.qkv.q.owner = <<t.bank, "q">>
        /\ v.qkv.k.owner = <<t.bank, "k">>
        /\ v.qkv.v.owner = <<t.bank, "v">>
        /\ v.qkv.rotated_q.owner = <<t.bank, "rotated_q">>
        /\ v.qkv.rotated_k.owner = <<t.bank, "rotated_k">>
    BY DEF Views, make_layer_views, BankView, CacheView
  <1>2. /\ v.attention.rotated_q.owner = <<t.bank, "rotated_q">>
        /\ v.attention.rotated_k.owner = <<t.bank, "rotated_k">>
        /\ v.attention.rotated_v.owner = <<t.bank, "v">>
        /\ v.attention.k_cache.owner = <<"key", t.layer>>
        /\ v.attention.v_cache.owner = <<"value", t.layer>>
        /\ v.attention.input.owner = <<t.bank, LayerInput(t.layer)>>
        /\ v.attention.merged.owner = <<t.bank, "attention_merged">>
        /\ v.attention.projected.owner = <<t.bank, "attention_output">>
        /\ v.attention.output.owner = <<t.bank, "residual_after_attention">>
    BY DEF Views, make_layer_views, BankView, CacheView
  <1>3. /\ v.mlp.x2.owner = <<t.bank, "residual_after_attention">>
        /\ v.mlp.n2.owner = <<t.bank, "mlp_norm">>
        /\ v.mlp.gate.owner = <<t.bank, "gate">>
        /\ v.mlp.up.owner = <<t.bank, "up">>
        /\ v.mlp.silu.owner = <<t.bank, "silu">>
        /\ v.mlp.product.owner = <<t.bank, "product">>
        /\ v.mlp.down.owner = <<t.bank, "down">>
        /\ v.mlp.next_x.owner = <<t.bank, LayerOutput(t.layer)>>
    BY DEF Views, make_layer_views, BankView, CacheView
  <1> QED
    BY <1>1, <1>2, <1>3

(* What each operation reads and writes. *)
LEMMA OperandTable ==
    ASSUME NEW t
    PROVE  /\ t.op = "embedding" =>
                  /\ Writes(t) = <<t.bank, "x">>
                  /\ Reads(t) = {<<t.bank, "token_indices">>}
           /\ t.op = "norm1" =>
                  /\ Writes(t) = <<t.bank, "attention_norm">>
                  /\ Reads(t) = {<<t.bank, LayerInput(t.layer)>>}
           /\ t.op = "q" =>
                  /\ Writes(t) = <<t.bank, "q">>
                  /\ Reads(t) = {<<t.bank, "attention_norm">>}
           /\ t.op = "k" =>
                  /\ Writes(t) = <<t.bank, "k">>
                  /\ Reads(t) = {<<t.bank, "attention_norm">>}
           /\ t.op = "v" =>
                  /\ Writes(t) = <<t.bank, "v">>
                  /\ Reads(t) = {<<t.bank, "attention_norm">>}
           /\ t.op = "rope_q" =>
                  /\ Writes(t) = <<t.bank, "rotated_q">>
                  /\ Reads(t) = {<<t.bank, "q">>}
           /\ t.op = "rope_k" =>
                  /\ Writes(t) = <<t.bank, "rotated_k">>
                  /\ Reads(t) = {<<t.bank, "k">>}
           /\ t.op = "append_k" =>
                  /\ Writes(t) = <<"key", t.layer>>
                  /\ Reads(t) = {<<t.bank, "rotated_k">>}
           /\ t.op = "append_v" =>
                  /\ Writes(t) = <<"value", t.layer>>
                  /\ Reads(t) = {<<t.bank, "v">>}
           /\ t.op = "sdpa" =>
                  /\ Writes(t) = <<t.bank, "attention_merged">>
                  /\ Reads(t) = {<<t.bank, "rotated_q">>,
                               <<"key", t.layer>>,
                               <<"value", t.layer>>}
           /\ t.op = "projection" =>
                  /\ Writes(t) = <<t.bank, "attention_output">>
                  /\ Reads(t) = {<<t.bank, "attention_merged">>}
           /\ t.op = "first_residual" =>
                  /\ Writes(t) = <<t.bank, "residual_after_attention">>
                  /\ Reads(t) = {<<t.bank, LayerInput(t.layer)>>,
                               <<t.bank, "attention_output">>}
           /\ t.op = "norm2" =>
                  /\ Writes(t) = <<t.bank, "mlp_norm">>
                  /\ Reads(t) = {<<t.bank, "residual_after_attention">>}
           /\ t.op = "gate" =>
                  /\ Writes(t) = <<t.bank, "gate">>
                  /\ Reads(t) = {<<t.bank, "mlp_norm">>}
           /\ t.op = "up" =>
                  /\ Writes(t) = <<t.bank, "up">>
                  /\ Reads(t) = {<<t.bank, "mlp_norm">>}
           /\ t.op = "silu" =>
                  /\ Writes(t) = <<t.bank, "silu">>
                  /\ Reads(t) = {<<t.bank, "gate">>}
           /\ t.op = "mul" =>
                  /\ Writes(t) = <<t.bank, "product">>
                  /\ Reads(t) = {<<t.bank, "silu">>, <<t.bank, "up">>}
           /\ t.op = "down" =>
                  /\ Writes(t) = <<t.bank, "down">>
                  /\ Reads(t) = {<<t.bank, "product">>}
           /\ t.op = "residual" =>
                  /\ Writes(t) = <<t.bank, LayerOutput(t.layer)>>
                  /\ Reads(t) = {<<t.bank, "residual_after_attention">>,
                               <<t.bank, "down">>}
           /\ t.op = "final_norm" =>
                  /\ Writes(t) = <<t.bank, "final_norm">>
                  /\ Reads(t) = {<<t.bank, final_layer_output(Config.L)>>}
           /\ t.op = "lm_head" =>
                  /\ Writes(t) = Logits
                  /\ Reads(t) = {<<t.bank, "final_norm">>}
  <1> DEFINE v == Views(t)
  <1>0. /\ v.qkv.activation.owner = <<t.bank, LayerInput(t.layer)>>
        /\ v.qkv.normalized.owner = <<t.bank, "attention_norm">>
        /\ v.qkv.q.owner = <<t.bank, "q">>
        /\ v.qkv.k.owner = <<t.bank, "k">>
        /\ v.qkv.v.owner = <<t.bank, "v">>
        /\ v.qkv.rotated_q.owner = <<t.bank, "rotated_q">>
        /\ v.qkv.rotated_k.owner = <<t.bank, "rotated_k">>
        /\ v.attention.rotated_q.owner = <<t.bank, "rotated_q">>
        /\ v.attention.rotated_k.owner = <<t.bank, "rotated_k">>
        /\ v.attention.rotated_v.owner = <<t.bank, "v">>
        /\ v.attention.k_cache.owner = <<"key", t.layer>>
        /\ v.attention.v_cache.owner = <<"value", t.layer>>
        /\ v.attention.input.owner = <<t.bank, LayerInput(t.layer)>>
        /\ v.attention.merged.owner = <<t.bank, "attention_merged">>
        /\ v.attention.projected.owner = <<t.bank, "attention_output">>
        /\ v.attention.output.owner = <<t.bank, "residual_after_attention">>
        /\ v.mlp.x2.owner = <<t.bank, "residual_after_attention">>
        /\ v.mlp.n2.owner = <<t.bank, "mlp_norm">>
        /\ v.mlp.gate.owner = <<t.bank, "gate">>
        /\ v.mlp.up.owner = <<t.bank, "up">>
        /\ v.mlp.silu.owner = <<t.bank, "silu">>
        /\ v.mlp.product.owner = <<t.bank, "product">>
        /\ v.mlp.down.owner = <<t.bank, "down">>
        /\ v.mlp.next_x.owner = <<t.bank, LayerOutput(t.layer)>>
    BY ViewOwners
  <1> HIDE DEF v
  <1>1. ASSUME t.op = "embedding"
        PROVE  /\ Writes(t) = <<t.bank, "x">>
               /\ Reads(t) = {<<t.bank, "token_indices">>}
    BY <1>0, <1>1 DEF Writes, Reads, v
  <1>2. ASSUME t.op = "norm1"
        PROVE  /\ Writes(t) = <<t.bank, "attention_norm">>
               /\ Reads(t) = {<<t.bank, LayerInput(t.layer)>>}
    BY <1>0, <1>2 DEF Writes, Reads, v
  <1>3. ASSUME t.op = "q"
        PROVE  /\ Writes(t) = <<t.bank, "q">>
               /\ Reads(t) = {<<t.bank, "attention_norm">>}
    BY <1>0, <1>3 DEF Writes, Reads, v
  <1>4. ASSUME t.op = "k"
        PROVE  /\ Writes(t) = <<t.bank, "k">>
               /\ Reads(t) = {<<t.bank, "attention_norm">>}
    BY <1>0, <1>4 DEF Writes, Reads, v
  <1>5. ASSUME t.op = "v"
        PROVE  /\ Writes(t) = <<t.bank, "v">>
               /\ Reads(t) = {<<t.bank, "attention_norm">>}
    BY <1>0, <1>5 DEF Writes, Reads, v
  <1>6. ASSUME t.op = "rope_q"
        PROVE  /\ Writes(t) = <<t.bank, "rotated_q">>
               /\ Reads(t) = {<<t.bank, "q">>}
    BY <1>0, <1>6 DEF Writes, Reads, v
  <1>7. ASSUME t.op = "rope_k"
        PROVE  /\ Writes(t) = <<t.bank, "rotated_k">>
               /\ Reads(t) = {<<t.bank, "k">>}
    BY <1>0, <1>7 DEF Writes, Reads, v
  <1>8. ASSUME t.op = "append_k"
        PROVE  /\ Writes(t) = <<"key", t.layer>>
               /\ Reads(t) = {<<t.bank, "rotated_k">>}
    BY <1>0, <1>8 DEF Writes, Reads, v
  <1>9. ASSUME t.op = "append_v"
        PROVE  /\ Writes(t) = <<"value", t.layer>>
               /\ Reads(t) = {<<t.bank, "v">>}
    BY <1>0, <1>9 DEF Writes, Reads, v
  <1>10. ASSUME t.op = "sdpa"
        PROVE  /\ Writes(t) = <<t.bank, "attention_merged">>
               /\ Reads(t) = {<<t.bank, "rotated_q">>,
                            <<"key", t.layer>>,
                            <<"value", t.layer>>}
    BY <1>0, <1>10 DEF Writes, Reads, v
  <1>11. ASSUME t.op = "projection"
        PROVE  /\ Writes(t) = <<t.bank, "attention_output">>
               /\ Reads(t) = {<<t.bank, "attention_merged">>}
    BY <1>0, <1>11 DEF Writes, Reads, v
  <1>12. ASSUME t.op = "first_residual"
        PROVE  /\ Writes(t) = <<t.bank, "residual_after_attention">>
               /\ Reads(t) = {<<t.bank, LayerInput(t.layer)>>,
                            <<t.bank, "attention_output">>}
    BY <1>0, <1>12 DEF Writes, Reads, v
  <1>13. ASSUME t.op = "norm2"
        PROVE  /\ Writes(t) = <<t.bank, "mlp_norm">>
               /\ Reads(t) = {<<t.bank, "residual_after_attention">>}
    BY <1>0, <1>13 DEF Writes, Reads, v
  <1>14. ASSUME t.op = "gate"
        PROVE  /\ Writes(t) = <<t.bank, "gate">>
               /\ Reads(t) = {<<t.bank, "mlp_norm">>}
    BY <1>0, <1>14 DEF Writes, Reads, v
  <1>15. ASSUME t.op = "up"
        PROVE  /\ Writes(t) = <<t.bank, "up">>
               /\ Reads(t) = {<<t.bank, "mlp_norm">>}
    BY <1>0, <1>15 DEF Writes, Reads, v
  <1>16. ASSUME t.op = "silu"
        PROVE  /\ Writes(t) = <<t.bank, "silu">>
               /\ Reads(t) = {<<t.bank, "gate">>}
    BY <1>0, <1>16 DEF Writes, Reads, v
  <1>17. ASSUME t.op = "mul"
        PROVE  /\ Writes(t) = <<t.bank, "product">>
               /\ Reads(t) = {<<t.bank, "silu">>, <<t.bank, "up">>}
    BY <1>0, <1>17 DEF Writes, Reads, v
  <1>18. ASSUME t.op = "down"
        PROVE  /\ Writes(t) = <<t.bank, "down">>
               /\ Reads(t) = {<<t.bank, "product">>}
    BY <1>0, <1>18 DEF Writes, Reads, v
  <1>19. ASSUME t.op = "residual"
        PROVE  /\ Writes(t) = <<t.bank, LayerOutput(t.layer)>>
               /\ Reads(t) = {<<t.bank, "residual_after_attention">>,
                            <<t.bank, "down">>}
    BY <1>0, <1>19 DEF Writes, Reads, v
  <1>20. ASSUME t.op = "final_norm"
        PROVE  /\ Writes(t) = <<t.bank, "final_norm">>
               /\ Reads(t) = {<<t.bank, final_layer_output(Config.L)>>}
    BY <1>0, <1>20 DEF Writes, Reads, v
  <1>21. ASSUME t.op = "lm_head"
        PROVE  /\ Writes(t) = Logits
               /\ Reads(t) = {<<t.bank, "final_norm">>}
    BY <1>0, <1>21 DEF Writes, Reads, v
  <1> QED
    BY <1>1, <1>2, <1>3, <1>4, <1>5, <1>6, <1>7, <1>8, <1>9, <1>10, <1>11,
       <1>12, <1>13, <1>14, <1>15, <1>16, <1>17, <1>18, <1>19, <1>20, <1>21

--------------------------------------------------------------------------------
(***************************************************************************)
(* What the session's waits tell the recorder: no count and no reason      *)
(* changes, a rate can only be lost, and a row says "failed" only for a    *)
(* token that failed.                                                      *)
(***************************************************************************)
Observed(m, n) ==
    /\ n \in Recorders /\ SameAttempt(m, n) /\ SameCounts(m.scalars, n.scalars)
    /\ n.tracing = m.tracing /\ n.dropped = m.dropped
    /\ DOMAIN n.rows = DOMAIN m.rows /\ Len(n.rows) = Len(m.rows)
    /\ n.scalars.stop = m.scalars.stop /\ n.scalars.failure = m.scalars.failure
    /\ n.scalars.rate => m.scalars.rate
    /\ ~m.scalars.rate => n.scalars = m.scalars
    /\ \A i \in DOMAIN m.rows \cap DOMAIN ledger : n.rows[i].wait = "failed" =>
           m.rows[i].wait = "failed" \/ ledger[i].st = "failed"

(* What one wait tells the recorder. *)
LEMMA ObserveEffect ==
    ASSUME NEW m \in Recorders, ledger \in Seq(Accepted),
           NEW i \in DOMAIN ledger
    PROVE  /\ Observed(m, ObserveWait(m, i))
           /\ ledger[i].st # "failed" => ObserveWait(m, i).scalars = m.scalars
  <1> DEFINE n == ObserveWait(m, i)
  <1>0. i \in Nat /\ m.ordinal \in Nat /\ m.scalars \in Scalars
    BY DEF Recorders
  <1>1. CASE ledger[i].st = "failed"
    <2>1. n = record_wait(m, i, m.ordinal, "failed")
      BY <1>1 DEF ObserveWait
    <2> DEFINE o == m.ordinal
    <2>a. n = record_wait(m, i, o, "failed") /\ o \in Nat
      BY <1>0, <2>1
    <2> HIDE DEF n, o
    <2>2. /\ n \in Recorders /\ SameAttempt(m, n)
          /\ n.tracing = m.tracing /\ n.dropped = m.dropped
          /\ DOMAIN n.rows = DOMAIN m.rows /\ Len(n.rows) = Len(m.rows)
          /\ \A j \in DOMAIN m.rows : n.rows[j].wait = "failed" =>
                 m.rows[j].wait = "failed" \/ (j = i /\ "failed" = "failed")
          /\ \/ n.scalars = m.scalars
             \/ /\ "failed" = "failed" /\ ~n.scalars.rate
                /\ SameCounts(m.scalars, n.scalars)
                /\ n.scalars.stop = m.scalars.stop
                /\ n.scalars.failure = m.scalars.failure
                /\ ~m.scalars.rate => n.scalars = m.scalars
      BY <1>0, <2>a, WaitEffect
    <2> HIDE DEF n
    <2>3. SameCounts(m.scalars, n.scalars)
      BY <2>2 DEF SameCounts
    <2> QED
      BY <1>0, <1>1, <2>2, <2>3 DEF Observed, n
  <1>2. CASE ledger[i].st # "failed" /\ m.tracing
    <2>1. n = record_wait(m, i, 0, "succeeded")
      BY <1>2 DEF ObserveWait
    <2>2. /\ n \in Recorders /\ SameAttempt(m, n)
          /\ n.tracing = m.tracing /\ n.dropped = m.dropped
          /\ DOMAIN n.rows = DOMAIN m.rows /\ Len(n.rows) = Len(m.rows)
          /\ \A j \in DOMAIN m.rows : n.rows[j].wait = "failed" =>
                 m.rows[j].wait = "failed" \/ (j = i /\ "succeeded" = "failed")
          /\ \/ n.scalars = m.scalars
             \/ /\ "succeeded" = "failed" /\ ~n.scalars.rate
                /\ SameCounts(m.scalars, n.scalars)
                /\ n.scalars.stop = m.scalars.stop
                /\ n.scalars.failure = m.scalars.failure
                /\ ~m.scalars.rate => n.scalars = m.scalars
      BY <1>0, <2>1, WaitEffect
    <2> HIDE DEF n
    <2>3. SameCounts(m.scalars, n.scalars)
      BY <2>2 DEF SameCounts
    <2> QED
      BY <1>0, <1>2, <2>2, <2>3 DEF Observed, n
  <1>3. CASE ledger[i].st # "failed" /\ ~m.tracing
    <2>1. n = m
      BY <1>3 DEF ObserveWait
    <2> QED
      BY <1>3, <2>1 DEF Observed, SameCounts, SameAttempt
  <1> QED
    BY <1>1, <1>2, <1>3

--------------------------------------------------------------------------------
(***************************************************************************)
(* Tensors and caches.                                                     *)
(***************************************************************************)

(* Contexts and models are not empty. *)
LEMMA ConfigFacts ==
    Config.C \in Nat /\ Config.C > 0 /\ Config.L \in Nat /\ Config.L > 0
  BY ConfigValid

(* What a call that does not throw returns. *)
LEMMA ReturnKind ==
    ASSUME NEW n \in Nat, NEW r \in Reasons
    PROVE  [ok |-> TRUE, tokens |-> n, reason |-> r] \in
               [ok : BOOLEAN, tokens : Nat, reason : Reasons \cup Failures]
  <1> DEFINE b == TRUE
  <1>1. b \in BOOLEAN
    OBVIOUS
  <1> HIDE DEF b
  <1>2. [ok |-> b, tokens |-> n, reason |-> r] \in
            [ok : BOOLEAN, tokens : Nat, reason : Reasons \cup Failures]
    BY <1>1
  <1> QED
    BY <1>2 DEF b

(* Tensors of a bank, the logits and caches are different owners. *)
LEMMA OwnerKinds ==
    /\ \A b \in Banks, r \in Roles : <<b, r>> \in Owners /\ <<b, r>> # Logits
    /\ \A w \in {"key", "value"} : \A l : <<w, l>> \notin Owners
    /\ Logits \in Owners
    /\ \A o \in Caches : o \notin Owners
    /\ \A w \in {"key", "value"} : \A l \in Layers : <<w, l>> \in Caches
  BY DEF Owners, Logits, Banks, Caches

(* Every operation writes a tensor, or the cache of its layer. *)
LEMMA WritesKind ==
    ASSUME NEW t \in Members, t.op \in LayerOps => t.layer \in Layers
    PROVE  Writes(t) \in Owners \/ (Writes(t) \in Caches /\ Writes(t) \notin Owners)
  <1>1. t.bank \in Banks /\ t.op \in Ops
    BY DEF Members, Tokens
  <1>2. CASE t.op = "append_k"
    BY <1>1, <1>2, OperandTable, OwnerKinds DEF LayerOps
  <1>3. CASE t.op = "append_v"
    BY <1>1, <1>3, OperandTable, OwnerKinds DEF LayerOps
  <1>4. CASE t.op = "residual"
    <2>1. /\ Writes(t) = <<t.bank, LayerOutput(t.layer)>>
          /\ LayerOutput(t.layer) \in Roles
      BY <1>4, OperandTable DEF LayerOutput, Roles
    <2> QED
      BY <1>1, <2>1, OwnerKinds
  <1>5. CASE t.op = "lm_head"
    BY <1>1, <1>5, OperandTable, OwnerKinds
  <1>6. CASE t.op = "embedding"
    <2>1. Writes(t) = <<t.bank, "x">>
      BY <1>6, OperandTable
    <2> QED
      BY <1>1, <2>1, OwnerKinds DEF Roles
  <1>7. CASE t.op = "norm1"
    <2>1. Writes(t) = <<t.bank, "attention_norm">>
      BY <1>7, OperandTable
    <2> QED
      BY <1>1, <2>1, OwnerKinds DEF Roles
  <1>8. CASE t.op = "q"
    <2>1. Writes(t) = <<t.bank, "q">>
      BY <1>8, OperandTable
    <2> QED
      BY <1>1, <2>1, OwnerKinds DEF Roles
  <1>9. CASE t.op = "k"
    <2>1. Writes(t) = <<t.bank, "k">>
      BY <1>9, OperandTable
    <2> QED
      BY <1>1, <2>1, OwnerKinds DEF Roles
  <1>10. CASE t.op = "v"
    <2>1. Writes(t) = <<t.bank, "v">>
      BY <1>10, OperandTable
    <2> QED
      BY <1>1, <2>1, OwnerKinds DEF Roles
  <1>11. CASE t.op = "rope_q"
    <2>1. Writes(t) = <<t.bank, "rotated_q">>
      BY <1>11, OperandTable
    <2> QED
      BY <1>1, <2>1, OwnerKinds DEF Roles
  <1>12. CASE t.op = "rope_k"
    <2>1. Writes(t) = <<t.bank, "rotated_k">>
      BY <1>12, OperandTable
    <2> QED
      BY <1>1, <2>1, OwnerKinds DEF Roles
  <1>13. CASE t.op = "sdpa"
    <2>1. Writes(t) = <<t.bank, "attention_merged">>
      BY <1>13, OperandTable
    <2> QED
      BY <1>1, <2>1, OwnerKinds DEF Roles
  <1>14. CASE t.op = "projection"
    <2>1. Writes(t) = <<t.bank, "attention_output">>
      BY <1>14, OperandTable
    <2> QED
      BY <1>1, <2>1, OwnerKinds DEF Roles
  <1>15. CASE t.op = "first_residual"
    <2>1. Writes(t) = <<t.bank, "residual_after_attention">>
      BY <1>15, OperandTable
    <2> QED
      BY <1>1, <2>1, OwnerKinds DEF Roles
  <1>16. CASE t.op = "norm2"
    <2>1. Writes(t) = <<t.bank, "mlp_norm">>
      BY <1>16, OperandTable
    <2> QED
      BY <1>1, <2>1, OwnerKinds DEF Roles
  <1>17. CASE t.op = "gate"
    <2>1. Writes(t) = <<t.bank, "gate">>
      BY <1>17, OperandTable
    <2> QED
      BY <1>1, <2>1, OwnerKinds DEF Roles
  <1>18. CASE t.op = "up"
    <2>1. Writes(t) = <<t.bank, "up">>
      BY <1>18, OperandTable
    <2> QED
      BY <1>1, <2>1, OwnerKinds DEF Roles
  <1>19. CASE t.op = "silu"
    <2>1. Writes(t) = <<t.bank, "silu">>
      BY <1>19, OperandTable
    <2> QED
      BY <1>1, <2>1, OwnerKinds DEF Roles
  <1>20. CASE t.op = "mul"
    <2>1. Writes(t) = <<t.bank, "product">>
      BY <1>20, OperandTable
    <2> QED
      BY <1>1, <2>1, OwnerKinds DEF Roles
  <1>21. CASE t.op = "down"
    <2>1. Writes(t) = <<t.bank, "down">>
      BY <1>21, OperandTable
    <2> QED
      BY <1>1, <2>1, OwnerKinds DEF Roles
  <1>22. CASE t.op = "final_norm"
    <2>1. Writes(t) = <<t.bank, "final_norm">>
      BY <1>22, OperandTable
    <2> QED
      BY <1>1, <2>1, OwnerKinds DEF Roles
  <1> QED
    BY <1>1, <1>2, <1>3, <1>4, <1>5, <1>6, <1>7, <1>8, <1>9, <1>10, <1>11,
       <1>12, <1>13, <1>14, <1>15, <1>16, <1>17, <1>18, <1>19, <1>20, <1>21,
       <1>22 DEF Ops, LayerOps

BufType == [Owners -> Nat \X Nat \X Nat]
RowsType == [Caches -> [0 .. Config.C - 1 -> Nat]]

(* A submission disturbs what it will write and nothing else. *)
LEMMA SpoilEffect ==
    ASSUME buf \in BufType, rows \in RowsType, NEW t \in Members,
           t.op \in LayerOps => t.layer \in Layers, Spoil(t)
    PROVE  /\ buf' \in BufType /\ rows' \in RowsType
           /\ \A o \in Owners : o # Writes(t) => buf'[o] = buf[o]
           /\ \A o \in Caches : \A i \in 0 .. Config.C - 1 :
                  o # Writes(t) \/ i < t.a => rows'[o][i] = rows[o][i]
  <1> DEFINE w == Writes(t)
  <1>1. w \in Owners \/ (w \in Caches /\ w \notin Owners)
    BY WritesKind
  <1>2. t.a \in Nat /\ t.R \in Nat
    BY DEF Members, Tokens
  <1>3. CASE w \in Owners
    <2>1. buf' = [buf EXCEPT ![w] = Junk] /\ rows' = rows
      BY <1>3 DEF Spoil
    <2>2. Junk \in Nat \X Nat \X Nat
      BY DEF Junk
    <2> HIDE DEF w
    <2> QED
      BY <1>3, <2>1, <2>2 DEF BufType, w
  <1>4. CASE w \in Caches /\ w \notin Owners
    <2> DEFINE f == [i \in DOMAIN rows[w] |-> IF i \in Span(t) THEN 0
                                              ELSE rows[w][i]]
    <2>1. rows' = [rows EXCEPT ![w] = f] /\ buf' = buf
      BY <1>4 DEF Spoil
    <2> HIDE DEF w
    <2>2. /\ rows[w] \in [0 .. Config.C - 1 -> Nat]
          /\ f \in [0 .. Config.C - 1 -> Nat]
          /\ \A i \in 0 .. Config.C - 1 : i < t.a => f[i] = rows[w][i]
      BY <1>2, <1>4, ConfigFacts DEF RowsType, Span
    <2> HIDE DEF f
    <2> QED
      BY <1>4, <2>1, <2>2 DEF RowsType, w
  <1> QED
    BY <1>1, <1>3, <1>4

(* An operation that ends well on sound inputs produces its value. *)
LEMMA ProduceEffect ==
    ASSUME buf \in BufType, rows \in RowsType, NEW t \in Members,
           t.op \in LayerOps => t.layer \in Layers, Produce(t)
    PROVE  /\ buf' \in BufType /\ rows' \in RowsType
           /\ \A o \in Owners : o # Writes(t) => buf'[o] = buf[o]
           /\ \A o \in Caches : \A i \in 0 .. Config.C - 1 :
                  o # Writes(t) \/ i < t.a => rows'[o][i] = rows[o][i]
           /\ Sound(t) /\ Writes(t) \in Owners /\ t.op # "residual" =>
                  buf'[Writes(t)] = Tag(t)
           /\ Sound(t) /\ Writes(t) \in Owners /\ t.op = "residual" =>
                  buf'[Writes(t)] = <<t.ordinal, t.a, t.layer + 1>>
           /\ Sound(t) /\ Writes(t) \in Caches =>
                  \A i \in Span(t) \cap (0 .. Config.C - 1) :
                      rows'[Writes(t)][i] = t.ordinal
  <1> DEFINE w == Writes(t)
  <1>1. w \in Owners \/ (w \in Caches /\ w \notin Owners)
    BY WritesKind
  <1>2. /\ t.a \in Nat /\ t.R \in Nat /\ t.ordinal \in Nat /\ t.layer \in Nat
    BY DEF Members, Tokens
  <1>3. CASE ~Sound(t)
    BY <1>3 DEF Produce
  <1>4. CASE Sound(t) /\ w \in Owners
    <2> DEFINE e == IF t.op = "residual" THEN <<t.ordinal, t.a, t.layer + 1>>
                    ELSE Tag(t)
    <2>1. buf' = [buf EXCEPT ![w] = e] /\ rows' = rows
      BY <1>4 DEF Produce
    <2>2. e \in Nat \X Nat \X Nat
      BY <1>2 DEF Tag
    <2> HIDE DEF w, e
    <2>3. buf' \in BufType /\ buf'[w] = e /\ \A o \in Owners : o # w => buf'[o] = buf[o]
      BY <1>4, <2>1, <2>2 DEF BufType
    <2>4. w \notin Caches
      BY <1>4, OwnerKinds
    <2> QED
      BY <2>1, <2>3, <2>4 DEF w, e
  <1>5. CASE Sound(t) /\ w \in Caches /\ w \notin Owners
    <2> DEFINE f == [i \in DOMAIN rows[w] |-> IF i \in Span(t) THEN t.ordinal
                                              ELSE rows[w][i]]
    <2>1. rows' = [rows EXCEPT ![w] = f] /\ buf' = buf
      BY <1>5 DEF Produce
    <2> HIDE DEF w
    <2>2. /\ rows[w] \in [0 .. Config.C - 1 -> Nat]
          /\ f \in [0 .. Config.C - 1 -> Nat]
          /\ \A i \in 0 .. Config.C - 1 : i < t.a => f[i] = rows[w][i]
          /\ \A i \in Span(t) \cap (0 .. Config.C - 1) : f[i] = t.ordinal
      BY <1>2, <1>5, ConfigFacts DEF RowsType, Span
    <2> HIDE DEF f
    <2>3. /\ rows' \in RowsType /\ rows'[w] = f
          /\ \A o \in Caches : o # w => rows'[o] = rows[o]
      BY <1>5, <2>1, <2>2 DEF RowsType
    <2> QED
      BY <1>5, <2>1, <2>2, <2>3 DEF w
  <1> QED
    BY <1>1, <1>3, <1>4, <1>5

--------------------------------------------------------------------------------
(***************************************************************************)
(* The steps keep the invariant, first those around a request.             *)
(***************************************************************************)

(* Loading a session. *)
LEMMA LoadKeeps ==
    ASSUME IInv, load_tinyllama_session
    PROVE  IInv'
  <1>0. /\ TypeOK /\ PoisonStops /\ LedgerSettled /\ LastIsAwaited
        /\ GroupSettled /\ GroupOfStep /\ FirstFailureKept /\ PlaceInForward
        /\ PrefixesInStep /\ HistoryCounted /\ InputsHeld /\ StepsMade
        /\ OutputsHeld /\ CachesWritten /\ PlanKept /\ CallPlaced
        /\ AttemptPlaced /\ Counted /\ RatesEarned /\ RowsPaired /\ RowsTruthful
    BY DEF IInv
  <1>1. metrics' \in Recorders /\ SameTrace(metrics, metrics')
        /\ SameAttempt(metrics, metrics') /\ metrics'.scalars = metrics.scalars
    BY <1>0 DEF load_tinyllama_session, record_load, TypeOK, Recorders, Phases,
       SameTrace, SameAttempt
  <1>c1. TypeOK'
    BY <1>0, <1>1 DEF TypeOK, Pcs, Published, Forward, load_tinyllama_session,
       Steady
  <1>c2. PoisonStops'
    BY <1>0, <1>1 DEF PoisonStops, load_tinyllama_session, Steady
  <1>c3. LedgerSettled'
    BY <1>0, <1>1 DEF LedgerSettled, Awaited, PoisonStops,
       load_tinyllama_session, Steady
  <1>c4. LastIsAwaited'
    BY <1>0, <1>1 DEF LastIsAwaited, Awaited, OfForward,
       load_tinyllama_session, Steady
  <1>c5. GroupSettled'
    BY <1>0, <1>1 DEF GroupSettled, load_tinyllama_session, Steady
  <1>c6. GroupOfStep'
    BY <1>0, <1>1 DEF GroupOfStep, OfForward, load_tinyllama_session, Steady
  <1>c7. FirstFailureKept'
    BY <1>0, <1>1 DEF FirstFailureKept, GroupSettled, load_tinyllama_session,
       Steady
  <1>c8. PlaceInForward'
    BY <1>0, <1>1 DEF PlaceInForward, Published, Forward,
       load_tinyllama_session, Steady
  <1>c9. PrefixesInStep'
    BY <1>0, <1>1 DEF PrefixesInStep, Published, Forward,
       load_tinyllama_session, Steady
  <1>c10. HistoryCounted'
    BY <1>0, <1>1 DEF HistoryCounted, Published, Forward,
       load_tinyllama_session, Steady
  <1>c11. InputsHeld'
    BY <1>0, <1>1 DEF InputsHeld, Holds, Value, LastDone,
       load_tinyllama_session, Steady
  <1>c12. StepsMade'
    BY <1>0, <1>1 DEF StepsMade, load_tinyllama_session, Steady
  <1>c13. OutputsHeld'
    BY <1>0, <1>1 DEF OutputsHeld, Holds, Value, LastDone,
       load_tinyllama_session, Steady
  <1>c14. CachesWritten'
    BY <1>0, <1>1 DEF CachesWritten, Published, Forward, RowsWritten,
       load_tinyllama_session, Steady
  <1>c15. PlanKept'
    BY <1>0, <1>1 DEF PlanKept, Published, Forward, load_tinyllama_session,
       Steady
  <1>c16. CallPlaced'
    BY <1>0, <1>1 DEF CallPlaced, InRequest, InSetup, NoCall, Published,
       Forward, load_tinyllama_session, Steady
  <1>c17. AttemptPlaced'
    BY <1>0, <1>1 DEF AttemptPlaced, InRequest, InSetup, Published, Forward,
       load_tinyllama_session, Steady, SameAttempt
  <1>c18. Counted'
    BY <1>0, <1>1 DEF Counted, Published, Forward, load_tinyllama_session,
       Steady
  <1>c19. RatesEarned'
    BY <1>0, <1>1 DEF RatesEarned, load_tinyllama_session, Steady
  <1>c20. RowsPaired'
    BY <1>0, <1>1 DEF RowsPaired, Published, Forward, load_tinyllama_session,
       Steady, SameTrace
  <1>c21. RowsTruthful'
    BY <1>0, <1>1 DEF RowsTruthful, load_tinyllama_session, Steady, SameTrace,
       RowsPaired
  <1> QED
    BY <1>c1, <1>c2, <1>c3, <1>c4, <1>c5, <1>c6, <1>c7, <1>c8, <1>c9, <1>c10,
       <1>c11, <1>c12, <1>c13, <1>c14, <1>c15, <1>c16, <1>c17, <1>c18, <1>c19,
       <1>c20, <1>c21 DEF IInv

(* Preparing the operation trace before the first request. *)
LEMMA TraceKeeps ==
    ASSUME IInv, prepare_operation_trace
    PROVE  IInv'
  <1>0. /\ TypeOK /\ PoisonStops /\ LedgerSettled /\ LastIsAwaited
        /\ GroupSettled /\ GroupOfStep /\ FirstFailureKept /\ PlaceInForward
        /\ PrefixesInStep /\ HistoryCounted /\ InputsHeld /\ StepsMade
        /\ OutputsHeld /\ CachesWritten /\ PlanKept /\ CallPlaced
        /\ AttemptPlaced /\ Counted /\ RatesEarned /\ RowsPaired /\ RowsTruthful
    BY DEF IInv
  <1>1. /\ metrics' \in Recorders /\ metrics'.rows = <<>> /\ metrics'.tracing
        /\ metrics'.dropped = metrics.dropped
        /\ SameAttempt(metrics, metrics') /\ metrics'.scalars = metrics.scalars
    <2>1. metrics' = [metrics EXCEPT !.rows = <<>>, !.tracing = TRUE]
      BY DEF prepare_operation_trace, prepare_trace
    <2>2. <<>> \in Seq(Rows)
      OBVIOUS
    <2> QED
      BY <1>0, <2>1, <2>2 DEF TypeOK, Recorders, SameAttempt
  <1>c1. TypeOK'
    BY <1>0, <1>1 DEF TypeOK, Pcs, Published, Forward, prepare_operation_trace,
       Steady
  <1>c2. PoisonStops'
    BY <1>0, <1>1 DEF PoisonStops, prepare_operation_trace, Steady
  <1>c3. LedgerSettled'
    BY <1>0, <1>1 DEF LedgerSettled, Awaited, PoisonStops,
       prepare_operation_trace, Steady
  <1>c4. LastIsAwaited'
    BY <1>0, <1>1 DEF LastIsAwaited, Awaited, OfForward,
       prepare_operation_trace, Steady
  <1>c5. GroupSettled'
    BY <1>0, <1>1 DEF GroupSettled, prepare_operation_trace, Steady
  <1>c6. GroupOfStep'
    BY <1>0, <1>1 DEF GroupOfStep, OfForward, prepare_operation_trace, Steady
  <1>c7. FirstFailureKept'
    BY <1>0, <1>1 DEF FirstFailureKept, GroupSettled, prepare_operation_trace,
       Steady
  <1>c8. PlaceInForward'
    BY <1>0, <1>1 DEF PlaceInForward, Published, Forward,
       prepare_operation_trace, Steady
  <1>c9. PrefixesInStep'
    BY <1>0, <1>1 DEF PrefixesInStep, Published, Forward,
       prepare_operation_trace, Steady
  <1>c10. HistoryCounted'
    BY <1>0, <1>1 DEF HistoryCounted, Published, Forward,
       prepare_operation_trace, Steady
  <1>c11. InputsHeld'
    BY <1>0, <1>1 DEF InputsHeld, Holds, Value, LastDone,
       prepare_operation_trace, Steady
  <1>c12. StepsMade'
    BY <1>0, <1>1 DEF StepsMade, prepare_operation_trace, Steady
  <1>c13. OutputsHeld'
    BY <1>0, <1>1 DEF OutputsHeld, Holds, Value, LastDone,
       prepare_operation_trace, Steady
  <1>c14. CachesWritten'
    BY <1>0, <1>1 DEF CachesWritten, Published, Forward, RowsWritten,
       prepare_operation_trace, Steady
  <1>c15. PlanKept'
    BY <1>0, <1>1 DEF PlanKept, Published, Forward, prepare_operation_trace,
       Steady
  <1>c16. CallPlaced'
    BY <1>0, <1>1 DEF CallPlaced, InRequest, InSetup, NoCall, Published,
       Forward, prepare_operation_trace, Steady
  <1>c17. AttemptPlaced'
    BY <1>0, <1>1 DEF AttemptPlaced, InRequest, InSetup, Published, Forward,
       prepare_operation_trace, Steady, SameAttempt
  <1>c18. Counted'
    BY <1>0, <1>1 DEF Counted, Published, Forward, prepare_operation_trace,
       Steady
  <1>c19. RatesEarned'
    BY <1>0, <1>1 DEF RatesEarned, prepare_operation_trace, Steady
  <1>c20. RowsPaired'
    BY <1>0, <1>1 DEF RowsPaired, Published, Forward, prepare_operation_trace,
       Steady
  <1>c21. RowsTruthful'
    BY <1>0, <1>1 DEF RowsTruthful, prepare_operation_trace, Steady
  <1> QED
    BY <1>c1, <1>c2, <1>c3, <1>c4, <1>c5, <1>c6, <1>c7, <1>c8, <1>c9, <1>c10,
       <1>c11, <1>c12, <1>c13, <1>c14, <1>c15, <1>c16, <1>c17, <1>c18, <1>c19,
       <1>c20, <1>c21 DEF IInv

(* A refused replacement leaves the old request. *)
LEMMA BuildFailsKeeps ==
    ASSUME IInv, BuildFails
    PROVE  IInv'
  <1>0. /\ TypeOK /\ PoisonStops /\ LedgerSettled /\ LastIsAwaited
        /\ GroupSettled /\ GroupOfStep /\ FirstFailureKept /\ PlaceInForward
        /\ PrefixesInStep /\ HistoryCounted /\ InputsHeld /\ StepsMade
        /\ OutputsHeld /\ CachesWritten /\ PlanKept /\ CallPlaced
        /\ AttemptPlaced /\ Counted /\ RatesEarned /\ RowsPaired /\ RowsTruthful
    BY DEF IInv
  <1>c1. TypeOK'
    BY <1>0 DEF TypeOK, Pcs, Published, Forward, BuildFails, Throw, Failures
  <1>c2. PoisonStops'
    BY <1>0 DEF PoisonStops, BuildFails, Throw
  <1>c3. LedgerSettled'
    BY <1>0 DEF LedgerSettled, Awaited, PoisonStops, BuildFails, Throw
  <1>c4. LastIsAwaited'
    BY <1>0 DEF LastIsAwaited, Awaited, OfForward, BuildFails, Throw
  <1>c5. GroupSettled'
    BY <1>0 DEF GroupSettled, BuildFails, Throw
  <1>c6. GroupOfStep'
    BY <1>0 DEF GroupOfStep, OfForward, BuildFails, Throw
  <1>c7. FirstFailureKept'
    BY <1>0 DEF FirstFailureKept, GroupSettled, BuildFails, Throw, Broken
  <1>c8. PlaceInForward'
    BY <1>0 DEF PlaceInForward, Published, Forward, BuildFails, Throw
  <1>c9. PrefixesInStep'
    BY <1>0 DEF PrefixesInStep, Published, Forward, BuildFails, Throw
  <1>c10. HistoryCounted'
    BY <1>0 DEF HistoryCounted, Published, Forward, BuildFails, Throw
  <1>c11. InputsHeld'
    BY <1>0 DEF InputsHeld, Holds, Value, LastDone, BuildFails, Throw
  <1>c12. StepsMade'
    BY <1>0 DEF StepsMade, BuildFails, Throw
  <1>c13. OutputsHeld'
    BY <1>0 DEF OutputsHeld, Holds, Value, LastDone, BuildFails, Throw
  <1>c14. CachesWritten'
    BY <1>0 DEF CachesWritten, Published, Forward, RowsWritten, BuildFails,
       Throw
  <1>c15. PlanKept'
    BY <1>0 DEF PlanKept, Published, Forward, BuildFails, Throw
  <1>c16. CallPlaced'
    BY <1>0 DEF CallPlaced, InRequest, InSetup, NoCall, Published, Forward,
       BuildFails, Throw
  <1>c17. AttemptPlaced'
    BY <1>0 DEF AttemptPlaced, InRequest, InSetup, Published, Forward,
       BuildFails, Throw, CallPlaced
  <1>c18. Counted'
    BY <1>0 DEF Counted, Published, Forward, BuildFails, Throw
  <1>c19. RatesEarned'
    BY <1>0 DEF RatesEarned, BuildFails, Throw
  <1>c20. RowsPaired'
    BY <1>0 DEF RowsPaired, Published, Forward, BuildFails, Throw
  <1>c21. RowsTruthful'
    BY <1>0 DEF RowsTruthful, BuildFails, Throw
  <1> QED
    BY <1>c1, <1>c2, <1>c3, <1>c4, <1>c5, <1>c6, <1>c7, <1>c8, <1>c9, <1>c10,
       <1>c11, <1>c12, <1>c13, <1>c14, <1>c15, <1>c16, <1>c17, <1>c18, <1>c19,
       <1>c20, <1>c21 DEF IInv

(* The session's end begins with a drain. *)
LEMMA DestroyKeeps ==
    ASSUME IInv, destroy
    PROVE  IInv'
  <1>0. /\ TypeOK /\ PoisonStops /\ LedgerSettled /\ LastIsAwaited
        /\ GroupSettled /\ GroupOfStep /\ FirstFailureKept /\ PlaceInForward
        /\ PrefixesInStep /\ HistoryCounted /\ InputsHeld /\ StepsMade
        /\ OutputsHeld /\ CachesWritten /\ PlanKept /\ CallPlaced
        /\ AttemptPlaced /\ Counted /\ RatesEarned /\ RowsPaired /\ RowsTruthful
    BY DEF IInv
  <1>c1. TypeOK'
    BY <1>0 DEF TypeOK, Pcs, Published, Forward, destroy, Failures, None
  <1>c2. PoisonStops'
    BY <1>0 DEF PoisonStops, destroy
  <1>c3. LedgerSettled'
    BY <1>0 DEF LedgerSettled, Awaited, PoisonStops, destroy
  <1>c4. LastIsAwaited'
    BY <1>0 DEF LastIsAwaited, Awaited, OfForward, destroy
  <1>c5. GroupSettled'
    BY <1>0 DEF GroupSettled, destroy
  <1>c6. GroupOfStep'
    BY <1>0 DEF GroupOfStep, OfForward, destroy
  <1>c7. FirstFailureKept'
    BY <1>0 DEF FirstFailureKept, GroupSettled, destroy
  <1>c8. PlaceInForward'
    BY <1>0 DEF PlaceInForward, Published, Forward, destroy
  <1>c9. PrefixesInStep'
    BY <1>0 DEF PrefixesInStep, Published, Forward, destroy
  <1>c10. HistoryCounted'
    BY <1>0 DEF HistoryCounted, Published, Forward, destroy
  <1>c11. InputsHeld'
    BY <1>0 DEF InputsHeld, Holds, Value, LastDone, destroy
  <1>c12. StepsMade'
    BY <1>0 DEF StepsMade, destroy
  <1>c13. OutputsHeld'
    BY <1>0 DEF OutputsHeld, Holds, Value, LastDone, destroy
  <1>c14. CachesWritten'
    BY <1>0 DEF CachesWritten, Published, Forward, RowsWritten, destroy
  <1>c15. PlanKept'
    BY <1>0 DEF PlanKept, Published, Forward, destroy
  <1>c16. CallPlaced'
    BY <1>0 DEF CallPlaced, InRequest, InSetup, NoCall, Published, Forward,
       destroy
  <1>c17. AttemptPlaced'
    BY <1>0 DEF AttemptPlaced, InRequest, InSetup, Published, Forward, destroy
  <1>c18. Counted'
    BY <1>0 DEF Counted, Published, Forward, destroy
  <1>c19. RatesEarned'
    BY <1>0 DEF RatesEarned, destroy
  <1>c20. RowsPaired'
    BY <1>0 DEF RowsPaired, Published, Forward, destroy
  <1>c21. RowsTruthful'
    BY <1>0 DEF RowsTruthful, destroy
  <1> QED
    BY <1>c1, <1>c2, <1>c3, <1>c4, <1>c5, <1>c6, <1>c7, <1>c8, <1>c9, <1>c10,
       <1>c11, <1>c12, <1>c13, <1>c14, <1>c15, <1>c16, <1>c17, <1>c18, <1>c19,
       <1>c20, <1>c21 DEF IInv

(* A call begins: it is refused, or drains the old request. *)
LEMMA EnterKeeps ==
    ASSUME IInv, NEW kind \in {"tokens", "text", "setup"},
           NEW n \in Nat, NEW max \in Nat, Enter(kind, n, max),
           metrics' \in Recorders, SameTrace(metrics, metrics'),
           metrics'.scalars = metrics.scalars,
           metrics'.ordinal = metrics.ordinal,
           kind # "setup" => metrics'.attempt.ordinal = metrics.ordinal + 1
    PROVE  IInv'
  <1>0. /\ TypeOK /\ PoisonStops /\ LedgerSettled /\ LastIsAwaited
        /\ GroupSettled /\ GroupOfStep /\ FirstFailureKept /\ PlaceInForward
        /\ PrefixesInStep /\ HistoryCounted /\ InputsHeld /\ StepsMade
        /\ OutputsHeld /\ CachesWritten /\ PlanKept /\ CallPlaced
        /\ AttemptPlaced /\ Counted /\ RatesEarned /\ RowsPaired /\ RowsTruthful
    BY DEF IInv
  <1>1. /\ call' \in Calls /\ call'.kind = kind /\ call'.prompt = n
        /\ call'.phase = "setup" /\ ~call'.decodePending /\ ~call'.fromDecode
    BY DEF Enter, NoCall, Calls
  <1>c1. TypeOK'
    BY <1>0, <1>1 DEF TypeOK, Pcs, Published, Forward, Enter, Failures, None
  <1>c2. PoisonStops'
    BY <1>0, <1>1 DEF PoisonStops, Enter
  <1>c3. LedgerSettled'
    BY <1>0, <1>1 DEF LedgerSettled, Awaited, PoisonStops, Enter
  <1>c4. LastIsAwaited'
    BY <1>0, <1>1 DEF LastIsAwaited, Awaited, OfForward, Enter
  <1>c5. GroupSettled'
    BY <1>0, <1>1 DEF GroupSettled, Enter
  <1>c6. GroupOfStep'
    BY <1>0, <1>1 DEF GroupOfStep, OfForward, Enter
  <1>c7. FirstFailureKept'
    BY <1>0, <1>1 DEF FirstFailureKept, GroupSettled, Enter, Broken
  <1>c8. PlaceInForward'
    BY <1>0, <1>1 DEF PlaceInForward, Published, Forward, Enter
  <1>c9. PrefixesInStep'
    BY <1>0, <1>1 DEF PrefixesInStep, Published, Forward, Enter
  <1>c10. HistoryCounted'
    BY <1>0, <1>1 DEF HistoryCounted, Published, Forward, Enter,
       validate_generation_prompt
  <1>c11. InputsHeld'
    BY <1>0, <1>1 DEF InputsHeld, Holds, Value, LastDone, Enter
  <1>c12. StepsMade'
    BY <1>0, <1>1 DEF StepsMade, Enter
  <1>c13. OutputsHeld'
    BY <1>0, <1>1 DEF OutputsHeld, Holds, Value, LastDone, Enter
  <1>c14. CachesWritten'
    BY <1>0, <1>1 DEF CachesWritten, Published, Forward, RowsWritten, Enter
  <1>c15. PlanKept'
    BY <1>0, <1>1 DEF PlanKept, Published, Forward, Enter
  <1>c16. CallPlaced'
    BY <1>0, <1>1 DEF CallPlaced, InRequest, InSetup, NoCall, Published,
       Forward, Enter
  <1>c17. AttemptPlaced'
    BY <1>0, <1>1 DEF AttemptPlaced, InRequest, InSetup, Published, Forward,
       Enter
  <1>c18. Counted'
    BY <1>0, <1>1 DEF Counted, Published, Forward, Enter
  <1>c19. RatesEarned'
    BY <1>0, <1>1 DEF RatesEarned, Enter
  <1>c20. RowsPaired'
    BY <1>0, <1>1 DEF RowsPaired, Published, Forward, Enter, SameTrace
  <1>c21. RowsTruthful'
    BY <1>0, <1>1 DEF RowsTruthful, Enter, SameTrace
  <1> QED
    BY <1>c1, <1>c2, <1>c3, <1>c4, <1>c5, <1>c6, <1>c7, <1>c8, <1>c9, <1>c10,
       <1>c11, <1>c12, <1>c13, <1>c14, <1>c15, <1>c16, <1>c17, <1>c18, <1>c19,
       <1>c20, <1>c21 DEF IInv

(* generate_tokens, the text wrappers and resource setup alone. *)
LEMMA CallKeeps ==
    ASSUME IInv, NEW n \in Prompts, NEW max \in Nat,
           \/ generate_tokens(n, max) \/ generate_text(n, max)
           \/ prepare_request(n)
    PROVE  IInv'
  <1>0. metrics \in Recorders /\ n \in Nat /\ max \in Nat /\ 0 \in Nat
    BY CallsValid DEF IInv, TypeOK
  <1>1. CASE generate_tokens(n, max)
    <2>1. Enter("tokens", n, max) /\ metrics' = begin_generation(metrics, n)
      BY <1>1 DEF generate_tokens
    <2> QED
      BY <1>0, <2>1, BeginEffect, EnterKeeps
  <1>2. CASE generate_text(n, max)
    <2> DEFINE m == begin_generation(metrics, 0)
    <2>1. Enter("text", n, max) /\ metrics' = begin_generation(m, n)
      BY <1>2 DEF generate_text
    <2>2. /\ m \in Recorders /\ SameTrace(metrics, m)
          /\ m.scalars = metrics.scalars /\ m.ordinal = metrics.ordinal
      BY <1>0, BeginEffect
    <2> HIDE DEF m
    <2>3. /\ metrics' \in Recorders /\ SameTrace(m, metrics')
          /\ metrics'.scalars = m.scalars /\ metrics'.ordinal = m.ordinal
          /\ metrics'.attempt.ordinal = m.ordinal + 1
      BY <1>0, <2>1, <2>2, BeginEffect
    <2>4. SameTrace(metrics, metrics')
      BY <2>2, <2>3 DEF SameTrace
    <2> QED
      BY <1>0, <2>1, <2>2, <2>3, <2>4, EnterKeeps
  <1>3. CASE prepare_request(n)
    <2>1. Enter("setup", n, 0) /\ metrics' = metrics
      BY <1>3 DEF prepare_request
    <2>2. SameTrace(metrics, metrics')
      BY <2>1 DEF SameTrace
    <2> QED
      BY <1>0, <2>1, <2>2, EnterKeeps
  <1> QED
    BY <1>1, <1>2, <1>3

(* A call that fails before it reaches the session. *)
LEMMA PreprocessingKeeps ==
    ASSUME IInv, preprocessing_fails
    PROVE  IInv'
  <1>0. /\ TypeOK /\ PoisonStops /\ LedgerSettled /\ LastIsAwaited
        /\ GroupSettled /\ GroupOfStep /\ FirstFailureKept /\ PlaceInForward
        /\ PrefixesInStep /\ HistoryCounted /\ InputsHeld /\ StepsMade
        /\ OutputsHeld /\ CachesWritten /\ PlanKept /\ CallPlaced
        /\ AttemptPlaced /\ Counted /\ RatesEarned /\ RowsPaired /\ RowsTruthful
    BY DEF IInv
  <1>m. metrics \in Recorders
    BY <1>0 DEF TypeOK
  <1> DEFINE m == begin_generation(metrics, 0)
  <1>1. /\ m \in Recorders /\ SameTrace(metrics, m)
        /\ m.scalars = metrics.scalars /\ m.ordinal = metrics.ordinal
        /\ m.attempt.ordinal = m.ordinal + 1
    BY <1>m, BeginEffect
  <1>2. PICK k \in {m, record_tokenization(m, "failed")} :
            metrics' = record_preprocessing_failure(k, "preprocessing")
    BY DEF preprocessing_fails
  <1> HIDE DEF m
  <1>3. /\ k \in Recorders /\ SameTrace(m, k) /\ SameAttempt(m, k)
        /\ k.scalars = m.scalars
    <2>1. ~writes_admitted_request(m)
      BY <1>1 DEF writes_admitted_request, Recorders
    <2>2. CASE k = m
      BY <1>1, <2>2 DEF SameTrace, SameAttempt
    <2>3. CASE k = record_tokenization(m, "failed")
      BY <1>1, <2>1, <2>3, PhaseEffect DEF Guarded, Phases
    <2> QED
      BY <2>2, <2>3
  <1>4. /\ metrics' \in Recorders /\ SameTrace(k, metrics')
        /\ SameAttempt(k, metrics') /\ metrics'.scalars = k.scalars
    <2>1. ~writes_admitted_request(k)
      BY <1>1, <1>3 DEF writes_admitted_request, Recorders, SameAttempt
    <2>2. "preprocessing" \in Failures
      BY DEF Failures
    <2> QED
      BY <1>2, <1>3, <2>1, <2>2, FailedEffect DEF Guarded
  <1>5. /\ SameTrace(metrics, metrics') /\ metrics'.ordinal = metrics.ordinal
        /\ metrics'.scalars = metrics.scalars
    BY <1>1, <1>3, <1>4 DEF SameTrace, SameAttempt
  <1>6. metrics' \in Recorders
    BY <1>4
  <1>c1. TypeOK'
    BY <1>0, <1>5, <1>6 DEF TypeOK, Pcs, Published, Forward,
       preprocessing_fails, Steady, Failures, Reasons
  <1>c2. PoisonStops'
    BY <1>0, <1>5, <1>6 DEF PoisonStops, preprocessing_fails, Steady
  <1>c3. LedgerSettled'
    BY <1>0, <1>5, <1>6 DEF LedgerSettled, Awaited, PoisonStops,
       preprocessing_fails, Steady
  <1>c4. LastIsAwaited'
    BY <1>0, <1>5, <1>6 DEF LastIsAwaited, Awaited, OfForward,
       preprocessing_fails, Steady
  <1>c5. GroupSettled'
    BY <1>0, <1>5, <1>6 DEF GroupSettled, preprocessing_fails, Steady
  <1>c6. GroupOfStep'
    BY <1>0, <1>5, <1>6 DEF GroupOfStep, OfForward, preprocessing_fails, Steady
  <1>c7. FirstFailureKept'
    BY <1>0, <1>5, <1>6 DEF FirstFailureKept, GroupSettled,
       preprocessing_fails, Steady
  <1>c8. PlaceInForward'
    BY <1>0, <1>5, <1>6 DEF PlaceInForward, Published, Forward,
       preprocessing_fails, Steady
  <1>c9. PrefixesInStep'
    BY <1>0, <1>5, <1>6 DEF PrefixesInStep, Published, Forward,
       preprocessing_fails, Steady
  <1>c10. HistoryCounted'
    BY <1>0, <1>5, <1>6 DEF HistoryCounted, Published, Forward,
       preprocessing_fails, Steady
  <1>c11. InputsHeld'
    BY <1>0, <1>5, <1>6 DEF InputsHeld, Holds, Value, LastDone,
       preprocessing_fails, Steady
  <1>c12. StepsMade'
    BY <1>0, <1>5, <1>6 DEF StepsMade, preprocessing_fails, Steady
  <1>c13. OutputsHeld'
    BY <1>0, <1>5, <1>6 DEF OutputsHeld, Holds, Value, LastDone,
       preprocessing_fails, Steady
  <1>c14. CachesWritten'
    BY <1>0, <1>5, <1>6 DEF CachesWritten, Published, Forward, RowsWritten,
       preprocessing_fails, Steady
  <1>c15. PlanKept'
    BY <1>0, <1>5, <1>6 DEF PlanKept, Published, Forward, preprocessing_fails,
       Steady
  <1>c16. CallPlaced'
    BY <1>0, <1>5, <1>6 DEF CallPlaced, InRequest, InSetup, NoCall, Published,
       Forward, preprocessing_fails, Steady
  <1>c17. AttemptPlaced'
    BY <1>0, <1>5, <1>6 DEF AttemptPlaced, InRequest, InSetup, Published,
       Forward, preprocessing_fails, Steady
  <1>c18. Counted'
    BY <1>0, <1>5, <1>6 DEF Counted, Published, Forward, preprocessing_fails,
       Steady
  <1>c19. RatesEarned'
    BY <1>0, <1>5, <1>6 DEF RatesEarned, preprocessing_fails, Steady
  <1>c20. RowsPaired'
    BY <1>0, <1>5, <1>6 DEF RowsPaired, Published, Forward,
       preprocessing_fails, Steady, SameTrace
  <1>c21. RowsTruthful'
    BY <1>0, <1>5, <1>6 DEF RowsTruthful, preprocessing_fails, Steady,
       SameTrace
  <1> QED
    BY <1>c1, <1>c2, <1>c3, <1>c4, <1>c5, <1>c6, <1>c7, <1>c8, <1>c9, <1>c10,
       <1>c11, <1>c12, <1>c13, <1>c14, <1>c15, <1>c16, <1>c17, <1>c18, <1>c19,
       <1>c20, <1>c21 DEF IInv

(* What is booked as a call throws. *)
LEMMA ThrowsBooks ==
    ASSUME IInv, Throws
    PROVE  /\ metrics' \in Recorders /\ SameTrace(metrics, metrics')
           /\ SameAttempt(metrics, metrics')
           /\ SameCounts(metrics.scalars, metrics'.scalars)
           /\ metrics'.scalars.stop = metrics.scalars.stop
           /\ metrics'.scalars.rate => metrics.scalars.rate
           /\ Guarded(metrics, metrics')
           /\ \/ metrics'.scalars.failure = metrics.scalars.failure
              \/ ~metrics'.scalars.rate /\ writes_admitted_request(metrics)
           /\ call.kind = "setup" => metrics' = metrics
  <1> DEFINE m1 == IF call.phase = "prefill" THEN record_prefill(metrics, "failed")
                   ELSE metrics
             m2 == IF call.decodePending THEN record_decode(m1, "failed") ELSE m1
             m3 == IF call.kind = "setup" THEN m2
                   ELSE end_generation_failure(m2, err)
             m4 == IF call.kind = "text" THEN record_tokenization(m3, "succeeded")
                   ELSE m3
             Kept(m, n) == /\ n \in Recorders /\ SameTrace(m, n)
                           /\ SameAttempt(m, n)
                           /\ SameCounts(m.scalars, n.scalars)
                           /\ n.scalars.stop = m.scalars.stop
                           /\ n.scalars.rate => m.scalars.rate
                           /\ Guarded(m, n)
             Same(m, n) == n.scalars.failure = m.scalars.failure
                           /\ n.scalars.rate = m.scalars.rate
             Fails(m, n) == \/ n.scalars.failure = m.scalars.failure
                            \/ ~n.scalars.rate /\ writes_admitted_request(m)
  <1>0. /\ metrics \in Recorders /\ err \in Failures
        /\ "failed" \in Phases /\ "succeeded" \in Phases
    BY DEF IInv, TypeOK, Phases
  <1>1. metrics' = m4
    BY DEF Throws
  <1>2. \A m \in Recorders : Kept(m, m) /\ Same(m, m)
    BY DEF SameTrace, SameAttempt, SameCounts, Guarded
  <1>3. \A m \in Recorders : \A o \in Phases :
            \A n \in {record_tokenization(m, o), record_prefill(m, o),
                      record_decode(m, o)} : Kept(m, n) /\ Same(m, n)
    BY PhaseEffect DEF SameEnd
  <1>4. Kept(metrics, m1) /\ Same(metrics, m1)
    BY <1>0, <1>2, <1>3
  <1>5. Kept(m1, m2) /\ Same(m1, m2)
    <2>1. m1 \in Recorders
      BY <1>4
    <2> HIDE DEF m1, Kept, Same
    <2> QED
      BY <1>0, <1>2, <1>3, <2>1
  <1>6. Kept(m2, m3) /\ Fails(m2, m3)
    <2>1. m2 \in Recorders
      BY <1>5
    <2> HIDE DEF m2
    <2>2. CASE call.kind = "setup"
      BY <1>2, <2>1, <2>2
    <2>3. CASE call.kind # "setup"
      BY <1>0, <2>1, <2>3, FailedEffect
    <2> QED
      BY <2>2, <2>3
  <1>7. Kept(m3, m4) /\ Same(m3, m4)
    <2>1. m3 \in Recorders
      BY <1>6
    <2> HIDE DEF m3, Kept, Same
    <2> QED
      BY <1>0, <1>2, <1>3, <2>1
  <1>8. writes_admitted_request(m1) = writes_admitted_request(metrics)
    BY <1>4 DEF writes_admitted_request, SameAttempt
  <1>9. writes_admitted_request(m2) = writes_admitted_request(metrics)
    BY <1>5, <1>8 DEF writes_admitted_request, SameAttempt
  <1>10. writes_admitted_request(m3) = writes_admitted_request(metrics)
    BY <1>6, <1>9 DEF writes_admitted_request, SameAttempt
  <1>11. call.kind = "setup" => m4 = metrics
    <2>1. call.kind = "setup" => call.phase # "prefill" /\ ~call.decodePending
      BY DEF IInv, CallPlaced, Throws, InRequest, InSetup, Published, Forward
    <2> QED
      BY <2>1
  <1> HIDE DEF m1, m2, m3, m4
  <1>12. /\ SameTrace(metrics, m4) /\ SameAttempt(metrics, m4)
         /\ SameCounts(metrics.scalars, m4.scalars)
    BY <1>4, <1>5, <1>6, <1>7 DEF SameTrace, SameAttempt, SameCounts
  <1>13. /\ m4 \in Recorders /\ m4.scalars.stop = metrics.scalars.stop
         /\ m4.scalars.rate => metrics.scalars.rate
         /\ \/ m4.scalars.failure = metrics.scalars.failure
            \/ ~m4.scalars.rate /\ writes_admitted_request(metrics)
    BY <1>4, <1>5, <1>6, <1>7, <1>9
  <1>14. Guarded(metrics, m4)
    BY <1>4, <1>5, <1>6, <1>7, <1>8, <1>9, <1>10 DEF Guarded
  <1> QED
    BY <1>1, <1>11, <1>12, <1>13, <1>14

(* A throwing call leaves the session at rest. *)
LEMMA ThrowsKeeps ==
    ASSUME IInv, Throws
    PROVE  IInv'
  <1>0. /\ TypeOK /\ PoisonStops /\ LedgerSettled /\ LastIsAwaited
        /\ GroupSettled /\ GroupOfStep /\ FirstFailureKept /\ PlaceInForward
        /\ PrefixesInStep /\ HistoryCounted /\ InputsHeld /\ StepsMade
        /\ OutputsHeld /\ CachesWritten /\ PlanKept /\ CallPlaced
        /\ AttemptPlaced /\ Counted /\ RatesEarned /\ RowsPaired /\ RowsTruthful
    BY DEF IInv
  <1>1. /\ metrics' \in Recorders /\ SameTrace(metrics, metrics')
        /\ SameAttempt(metrics, metrics')
        /\ SameCounts(metrics.scalars, metrics'.scalars)
        /\ metrics'.scalars.stop = metrics.scalars.stop
        /\ metrics'.scalars.rate => metrics.scalars.rate
        /\ \/ metrics'.scalars.failure = metrics.scalars.failure
           \/ ~metrics'.scalars.rate /\ writes_admitted_request(metrics)
        /\ call.kind = "setup" => metrics' = metrics
    BY ThrowsBooks
  <1>2. /\ pc = "throw" /\ pc' = "idle" /\ call' = NoCall /\ group' = <<>>
        /\ err' = None /\ ret' = [ok |-> FALSE, tokens |-> 0, reason |-> err]
        /\ UNCHANGED <<need, request, ledger, fwd, buf, rows, prefix, poisoned,
                       drainAt, drained, calls>>
    BY DEF Throws
  <1>3. call.kind # "setup" /\ writes_admitted_request(metrics) =>
            metrics.scalars.stop = None
    <2>1. metrics.ordinal \in Nat
      BY <1>0 DEF TypeOK, Recorders
    <2>2. CASE call.phase = "setup"
      BY <1>0, <1>2, <2>1, <2>2 DEF AttemptPlaced, InSetup,
         writes_admitted_request
    <2>3. CASE call.phase # "setup"
      BY <1>0, <1>2, <2>3 DEF AttemptPlaced, InRequest
    <2> QED
      BY <2>2, <2>3
  <1>c1. TypeOK'
    BY <1>0, <1>1, <1>2 DEF TypeOK, Pcs, Published, Forward, Failures, None,
       NoCall, Calls, Reasons
  <1>c2. PoisonStops'
    BY <1>0, <1>1, <1>2 DEF PoisonStops
  <1>c3. LedgerSettled'
    BY <1>0, <1>1, <1>2 DEF LedgerSettled, Awaited, PoisonStops
  <1>c4. LastIsAwaited'
    BY <1>0, <1>1, <1>2 DEF LastIsAwaited, Awaited, OfForward
  <1>c5. GroupSettled'
    BY <1>0, <1>1, <1>2 DEF GroupSettled
  <1>c6. GroupOfStep'
    BY <1>0, <1>1, <1>2 DEF GroupOfStep, OfForward
  <1>c7. FirstFailureKept'
    BY <1>0, <1>1, <1>2 DEF FirstFailureKept, GroupSettled
  <1>c8. PlaceInForward'
    BY <1>0, <1>1, <1>2 DEF PlaceInForward, Published, Forward
  <1>c9. PrefixesInStep'
    BY <1>0, <1>1, <1>2 DEF PrefixesInStep, Published, Forward
  <1>c10. HistoryCounted'
    BY <1>0, <1>1, <1>2 DEF HistoryCounted, Published, Forward
  <1>c11. InputsHeld'
    BY <1>0, <1>1, <1>2 DEF InputsHeld, Holds, Value, LastDone
  <1>c12. StepsMade'
    BY <1>0, <1>1, <1>2 DEF StepsMade
  <1>c13. OutputsHeld'
    BY <1>0, <1>1, <1>2 DEF OutputsHeld, Holds, Value, LastDone
  <1>c14. CachesWritten'
    BY <1>0, <1>1, <1>2 DEF CachesWritten, Published, Forward, RowsWritten
  <1>c15. PlanKept'
    BY <1>0, <1>1, <1>2 DEF PlanKept, Published, Forward
  <1>c16. CallPlaced'
    BY <1>0, <1>1, <1>2 DEF CallPlaced, InRequest, InSetup, NoCall, Published,
       Forward
  <1>c17. AttemptPlaced'
    BY <1>0, <1>1, <1>2 DEF AttemptPlaced, InRequest, InSetup, Published,
       Forward, SameAttempt
  <1>c18. Counted'
    BY <1>0, <1>1, <1>2 DEF Counted, Published, Forward, SameCounts
  <1>c19. RatesEarned'
    BY <1>0, <1>1, <1>2, <1>3 DEF RatesEarned, SameCounts
  <1>c20. RowsPaired'
    BY <1>0, <1>1, <1>2 DEF RowsPaired, Published, Forward, SameTrace
  <1>c21. RowsTruthful'
    BY <1>0, <1>1, <1>2 DEF RowsTruthful, SameTrace
  <1> QED
    BY <1>c1, <1>c2, <1>c3, <1>c4, <1>c5, <1>c6, <1>c7, <1>c8, <1>c9, <1>c10,
       <1>c11, <1>c12, <1>c13, <1>c14, <1>c15, <1>c16, <1>c17, <1>c18, <1>c19,
       <1>c20, <1>c21 DEF IInv

(* One wait of a drain. *)
LEMMA DrainWaitKeeps ==
    ASSUME IInv, DrainWait
    PROVE  IInv'
  <1>0. /\ TypeOK /\ PoisonStops /\ LedgerSettled /\ LastIsAwaited
        /\ GroupSettled /\ GroupOfStep /\ FirstFailureKept /\ PlaceInForward
        /\ PrefixesInStep /\ HistoryCounted /\ InputsHeld /\ StepsMade
        /\ OutputsHeld /\ CachesWritten /\ PlanKept /\ CallPlaced
        /\ AttemptPlaced /\ Counted /\ RatesEarned /\ RowsPaired /\ RowsTruthful
    BY DEF IInv
  <1>1. metrics \in Recorders /\ ledger \in Seq(Accepted)
    BY <1>0 DEF TypeOK
  <1>2. /\ Observed(metrics, metrics')
        /\ ledger[drainAt].st # "failed" => metrics'.scalars = metrics.scalars
    BY <1>1, ObserveEffect DEF DrainWait
  <1>3. /\ pc \in {"drain_build", "drain_throw", "drain_destroy"} /\ pc' = pc
        /\ drainAt \in 1 .. Len(ledger) /\ ledger[drainAt].st # "pending"
        /\ drained' = IF ledger[drainAt].st = "failed" /\ drained = None
                      THEN ledger[drainAt].op ELSE drained
        /\ poisoned' = (poisoned \/ ledger[drainAt].st = "failed")
        /\ drainAt' = drainAt + 1
        /\ UNCHANGED <<call, need, request, ledger, group, fwd, buf, rows,
                       prefix, err, ret, calls>>
    BY <1>1 DEF DrainWait, Draining
  <1>4. poisoned' = poisoned
    BY <1>0, <1>3 DEF TypeOK, LedgerSettled, Awaited
  <1>5. drained' \in Failures
    <2>1. ledger[drainAt] \in Accepted
      BY <1>1, <1>3
    <2>2. ledger[drainAt].op \in Ops
      BY <2>1 DEF Accepted, Tokens, Ops
    <2> QED
      BY <1>0, <1>3, <2>2 DEF TypeOK, Failures
  <1>6. Broken' = Broken
    BY <1>3 DEF Broken
  <1>c1. TypeOK'
    BY <1>0, <1>3, <1>4, <1>2, <1>5 DEF TypeOK, Pcs, Published, Forward,
       Observed
  <1>c2. PoisonStops'
    BY <1>0, <1>3, <1>4 DEF PoisonStops
  <1>c3. LedgerSettled'
    BY <1>0, <1>3, <1>4 DEF LedgerSettled, Awaited, PoisonStops, TypeOK
  <1>c4. LastIsAwaited'
    BY <1>0, <1>3, <1>4 DEF LastIsAwaited, Awaited, OfForward
  <1>c5. GroupSettled'
    BY <1>0, <1>3, <1>4 DEF GroupSettled
  <1>c6. GroupOfStep'
    BY <1>0, <1>3, <1>4 DEF GroupOfStep, OfForward
  <1>c7. FirstFailureKept'
    BY <1>0, <1>3, <1>4, <1>6 DEF FirstFailureKept, GroupSettled
  <1>c8. PlaceInForward'
    BY <1>0, <1>3, <1>4 DEF PlaceInForward, Published, Forward
  <1>c9. PrefixesInStep'
    BY <1>0, <1>3, <1>4 DEF PrefixesInStep, Published, Forward
  <1>c10. HistoryCounted'
    BY <1>0, <1>3, <1>4 DEF HistoryCounted, Published, Forward
  <1>c11. InputsHeld'
    BY <1>0, <1>3, <1>4 DEF InputsHeld, Holds, Value, LastDone
  <1>c12. StepsMade'
    BY <1>0, <1>3, <1>4 DEF StepsMade
  <1>c13. OutputsHeld'
    BY <1>0, <1>3, <1>4 DEF OutputsHeld, Holds, Value, LastDone
  <1>c14. CachesWritten'
    BY <1>0, <1>3, <1>4 DEF CachesWritten, Published, Forward, RowsWritten
  <1>c15. PlanKept'
    BY <1>0, <1>3, <1>4 DEF PlanKept, Published, Forward
  <1>c16. CallPlaced'
    BY <1>0, <1>3, <1>4 DEF CallPlaced, InRequest, InSetup, NoCall, Published,
       Forward
  <1>c17. AttemptPlaced'
    BY <1>0, <1>3, <1>4, <1>2 DEF AttemptPlaced, InRequest, InSetup, Published,
       Forward, SameAttempt, Observed
  <1>c18. Counted'
    BY <1>0, <1>3, <1>4, <1>2 DEF Counted, Published, Forward, SameCounts,
       Observed
  <1>c19. RatesEarned'
    BY <1>0, <1>3, <1>4, <1>2 DEF RatesEarned, SameCounts, Observed
  <1>c20. RowsPaired'
    BY <1>0, <1>3, <1>4, <1>2 DEF RowsPaired, Published, Forward, Observed
  <1>c21. RowsTruthful'
    BY <1>0, <1>3, <1>4, <1>2 DEF RowsTruthful, Observed
  <1> QED
    BY <1>c1, <1>c2, <1>c3, <1>c4, <1>c5, <1>c6, <1>c7, <1>c8, <1>c9, <1>c10,
       <1>c11, <1>c12, <1>c13, <1>c14, <1>c15, <1>c16, <1>c17, <1>c18, <1>c19,
       <1>c20, <1>c21 DEF IInv

(* A drain ends when every accepted token has been waited for. *)
LEMMA DrainReturnsKeeps ==
    ASSUME IInv, DrainReturns
    PROVE  IInv'
  <1>0. /\ TypeOK /\ PoisonStops /\ LedgerSettled /\ LastIsAwaited
        /\ GroupSettled /\ GroupOfStep /\ FirstFailureKept /\ PlaceInForward
        /\ PrefixesInStep /\ HistoryCounted /\ InputsHeld /\ StepsMade
        /\ OutputsHeld /\ CachesWritten /\ PlanKept /\ CallPlaced
        /\ AttemptPlaced /\ Counted /\ RatesEarned /\ RowsPaired /\ RowsTruthful
    BY DEF IInv
  <1>1. /\ pc \in {"drain_build", "drain_throw", "drain_destroy"}
        /\ drainAt \notin 1 .. Len(ledger) /\ drainAt \in Nat \ {0}
        /\ ledger \in Seq(Accepted)
    BY <1>0 DEF DrainReturns, Draining, TypeOK
  <1>2. \A i \in DOMAIN ledger : ledger[i].st # "pending"
    BY <1>0, <1>1 DEF LedgerSettled, Awaited
  <1>3. /\ ledger' = IF drained = None /\ ~poisoned THEN <<>> ELSE ledger
        /\ \/ pc = "drain_build" /\ drained # None /\ pc' = "throw" /\ err' = drained
           \/ pc = "drain_build" /\ drained = None /\ pc' = "build" /\ err' = err
           \/ pc = "drain_throw" /\ pc' = "throw" /\ err' = err
           \/ pc = "drain_destroy" /\ pc' = "dead" /\ err' = err
        /\ UNCHANGED <<call, need, request, group, fwd, buf, rows, prefix,
                       poisoned, drainAt, drained, ret, calls, metrics>>
    BY DEF DrainReturns
  <1>4. Broken' = Broken
    BY <1>3 DEF Broken
  <1>5. ledger' \in Seq(Accepted) /\ (ledger' = <<>> \/ ledger' = ledger)
    BY <1>1, <1>3
  <1>c1. TypeOK'
    BY <1>0, <1>1, <1>3, <1>5 DEF TypeOK, Pcs, Published, Forward
  <1>c2. PoisonStops'
    BY <1>0, <1>1, <1>3 DEF PoisonStops
  <1>c3. LedgerSettled'
    BY <1>0, <1>1, <1>3, <1>2, <1>5 DEF LedgerSettled, Awaited, PoisonStops
  <1>c4. LastIsAwaited'
    BY <1>0, <1>1, <1>3 DEF LastIsAwaited, Awaited, OfForward
  <1>c5. GroupSettled'
    BY <1>0, <1>1, <1>3 DEF GroupSettled
  <1>c6. GroupOfStep'
    BY <1>0, <1>1, <1>3 DEF GroupOfStep, OfForward
  <1>c7. FirstFailureKept'
    BY <1>0, <1>1, <1>3, <1>4 DEF FirstFailureKept, GroupSettled, Broken
  <1>c8. PlaceInForward'
    BY <1>0, <1>1, <1>3 DEF PlaceInForward, Published, Forward
  <1>c9. PrefixesInStep'
    BY <1>0, <1>1, <1>3 DEF PrefixesInStep, Published, Forward
  <1>c10. HistoryCounted'
    BY <1>0, <1>1, <1>3 DEF HistoryCounted, Published, Forward
  <1>c11. InputsHeld'
    BY <1>0, <1>1, <1>3 DEF InputsHeld, Holds, Value, LastDone
  <1>c12. StepsMade'
    BY <1>0, <1>1, <1>3 DEF StepsMade
  <1>c13. OutputsHeld'
    BY <1>0, <1>1, <1>3 DEF OutputsHeld, Holds, Value, LastDone
  <1>c14. CachesWritten'
    BY <1>0, <1>1, <1>3 DEF CachesWritten, Published, Forward, RowsWritten
  <1>c15. PlanKept'
    BY <1>0, <1>1, <1>3 DEF PlanKept, Published, Forward
  <1>c16. CallPlaced'
    BY <1>0, <1>1, <1>3 DEF CallPlaced, InRequest, InSetup, NoCall, Published,
       Forward
  <1>c17. AttemptPlaced'
    BY <1>0, <1>1, <1>3 DEF AttemptPlaced, InRequest, InSetup, Published,
       Forward, CallPlaced
  <1>c18. Counted'
    BY <1>0, <1>1, <1>3 DEF Counted, Published, Forward
  <1>c19. RatesEarned'
    BY <1>0, <1>1, <1>3 DEF RatesEarned
  <1>c20. RowsPaired'
    BY <1>0, <1>1, <1>3, <1>5 DEF RowsPaired, Published, Forward
  <1>c21. RowsTruthful'
    BY <1>0, <1>1, <1>3, <1>5 DEF RowsTruthful
  <1> QED
    BY <1>c1, <1>c2, <1>c3, <1>c4, <1>c5, <1>c6, <1>c7, <1>c8, <1>c9, <1>c10,
       <1>c11, <1>c12, <1>c13, <1>c14, <1>c15, <1>c16, <1>c17, <1>c18, <1>c19,
       <1>c20, <1>c21 DEF IInv

(* The replacement becomes the request. *)
LEMMA PublishKeeps ==
    ASSUME IInv, Publish
    PROVE  IInv'
  <1>0. /\ TypeOK /\ PoisonStops /\ LedgerSettled /\ LastIsAwaited
        /\ GroupSettled /\ GroupOfStep /\ FirstFailureKept /\ PlaceInForward
        /\ PrefixesInStep /\ HistoryCounted /\ InputsHeld /\ StepsMade
        /\ OutputsHeld /\ CachesWritten /\ PlanKept /\ CallPlaced
        /\ AttemptPlaced /\ Counted /\ RatesEarned /\ RowsPaired /\ RowsTruthful
    BY DEF IInv
  <1>m. metrics \in Recorders
    BY <1>0 DEF TypeOK
  <1> DEFINE m == publish_generation(metrics)
  <1>1. /\ m \in Recorders /\ m.ordinal = metrics.ordinal + 1 /\ m.admitted
        /\ m.attempt.ordinal = m.ordinal /\ m.rows = <<>>
        /\ m.tracing = metrics.tracing /\ m.dropped = metrics.dropped
        /\ ~m.scalars.rate /\ m.scalars.stop = None
        /\ m.scalars.failure = None /\ m.scalars.generated = 0
        /\ m.scalars.decodeTokens = 0 /\ m.scalars.decodeForwards = 0
    BY <1>m, PublishEffect
  <1>2. /\ pc = "build" /\ PlanAccepted /\ prefix' = [l \in Layers |-> 0]
        /\ request' = [ordinal |-> request.ordinal + 1, run |-> call.prompt,
                        history |-> 0, results |-> 0]
        /\ ledger' = <<>>
        /\ buf' = [o \in Owners |-> IF o[1] = "prefill" THEN Junk ELSE buf[o]]
        /\ fwd' = [NoForward EXCEPT !.R = call.prompt]
        /\ UNCHANGED <<need, group, rows, calls, poisoned, err, drainAt,
                       drained>>
    BY DEF Publish, Steady
  <1>3. /\ request' \in Requests /\ fwd' \in Forwards /\ buf' \in BufType
        /\ request'.ordinal = request.ordinal + 1 /\ request'.history = 0
        /\ request'.results = 0 /\ fwd'.bank = "prefill" /\ fwd'.a = 0
        /\ fwd'.R = call.prompt /\ fwd'.layer = 0 /\ fwd'.step = 1
    <2>0. call.prompt \in Nat /\ request.ordinal \in Nat
      BY <1>0 DEF TypeOK, Calls, Requests
    <2>a. request' \in Requests
      BY <1>2, <2>0 DEF Requests
    <2>b. fwd' = [bank |-> "prefill", a |-> 0, R |-> call.prompt, layer |-> 0,
                  step |-> 1]
      BY <1>2 DEF NoForward
    <2>1. request' \in Requests /\ fwd' \in Forwards
      BY <2>0, <2>a, <2>b, ConfigFacts DEF Forwards, Banks
    <2>2. Junk \in Nat \X Nat \X Nat
      BY DEF Junk
    <2>3. buf' \in BufType
      BY <1>0, <1>2, <2>2 DEF TypeOK, BufType
    <2> QED
      BY <1>2, <2>1, <2>b, <2>3
  <1>4. ledger' \in Seq(Accepted) /\ Len(ledger') = 0 /\ DOMAIN ledger' = {}
    BY <1>2
  <1>5. \/ /\ pc' = "upload" /\ ret' = ret /\ metrics' = m
           /\ call' = [call EXCEPT !.phase = "prefill"]
           /\ call.kind # "setup"
        \/ /\ pc' = "idle" /\ call' = NoCall /\ metrics' = m
           /\ ret' = NoReturn
        \/ finish("max_new_tokens", 0, m)
    BY <1>0 DEF Publish, CallPlaced, InSetup
  <1> HIDE DEF m
  <1> DEFINE e == end_generation(m, "max_new_tokens")
  <1>6. /\ e \in Recorders /\ SameTrace(m, e) /\ SameAttempt(m, e)
        /\ SameCounts(m.scalars, e.scalars)
        /\ e.scalars.failure = m.scalars.failure /\ ~e.scalars.rate
    <2>1. "max_new_tokens" \in Reasons
      BY DEF Reasons
    <2> QED
      BY <1>1, <2>1, EndEffect
  <1> HIDE DEF e
  <1>7. \/ metrics' = m
        \/ /\ pc' = "idle"
           /\ metrics' \in {e, record_tokenization(e, "succeeded")}
    BY <1>5 DEF finish, e
  <1>8. /\ metrics' \in Recorders /\ SameTrace(m, metrics')
        /\ SameAttempt(m, metrics') /\ SameCounts(m.scalars, metrics'.scalars)
        /\ metrics'.scalars.failure = m.scalars.failure
        /\ ~metrics'.scalars.rate
        /\ pc' # "idle" => metrics'.scalars.stop = None
    <2>1. CASE metrics' = m
      BY <1>1, <2>1 DEF SameTrace, SameAttempt, SameCounts
    <2>2. CASE pc' = "idle" /\ metrics' = e
      BY <1>1, <1>6, <2>2
    <2>3. CASE pc' = "idle" /\ metrics' = record_tokenization(e, "succeeded")
      <3>1. /\ metrics' \in Recorders /\ SameTrace(e, metrics')
            /\ SameAttempt(e, metrics')
            /\ SameCounts(e.scalars, metrics'.scalars)
            /\ SameEnd(e.scalars, metrics'.scalars)
        BY <1>6, <2>3, PhaseEffect DEF Phases
      <3> QED
        BY <1>1, <1>6, <2>3, <3>1 DEF SameTrace, SameAttempt, SameCounts,
           SameEnd
    <2> QED
      BY <1>7, <2>1, <2>2, <2>3
  <1>9. /\ call' \in Calls
        /\ ret' \in [ok : BOOLEAN, tokens : Nat, reason : Reasons \cup Failures]
        /\ \/ pc' = "idle" /\ call' = NoCall
           \/ /\ pc' = "upload" /\ call'.phase = "prefill"
              /\ call'.kind \in {"tokens", "text"} /\ call'.fromDecode = FALSE
              /\ call'.prompt = call.prompt
    <2>1. NoCall \in Calls
      BY DEF NoCall, Calls
    <2>2. /\ call \in Calls /\ call.fromDecode = FALSE
          /\ ret \in [ok : BOOLEAN, tokens : Nat,
                         reason : Reasons \cup Failures]
          /\ call.kind # "none"
      BY <1>0, <1>2 DEF TypeOK, CallPlaced, InSetup, Calls
    <2>3. CASE pc' = "upload"
      <3>1. /\ ret' = ret /\ call' = [call EXCEPT !.phase = "prefill"]
            /\ call.kind # "setup"
        BY <1>5, <2>3 DEF finish
      <3> QED
        BY <2>2, <2>3, <3>1 DEF Calls
    <2>4. CASE pc' = "idle"
      <3>1. /\ call' = NoCall
            /\ ret' \in {NoReturn, [ok |-> TRUE, tokens |-> 0,
                                     reason |-> "max_new_tokens"]}
        BY <1>5, <2>4 DEF finish
      <3>2. ret' \in [ok : BOOLEAN, tokens : Nat,
                        reason : Reasons \cup Failures]
        BY <3>1, ReturnKind DEF NoReturn, None, Reasons
      <3> QED
        BY <2>1, <2>4, <3>1, <3>2
    <2> QED
      BY <1>5, <2>3, <2>4 DEF finish
  <1>10. call.prompt \in Nat
    BY <1>0 DEF TypeOK, Calls
  <1>11. PlanAccepted'
    BY <1>2 DEF PlanAccepted
  <1>c1. TypeOK'
    BY <1>0, <1>2, <1>3, <1>9, <1>4, <1>8 DEF TypeOK, Pcs, Published, Forward,
       BufType
  <1>c2. PoisonStops'
    BY <1>0, <1>2, <1>3, <1>9 DEF PoisonStops
  <1>c3. LedgerSettled'
    BY <1>0, <1>2, <1>3, <1>9, <1>4 DEF LedgerSettled, Awaited, PoisonStops
  <1>c4. LastIsAwaited'
    BY <1>0, <1>2, <1>3, <1>9 DEF LastIsAwaited, Awaited, OfForward
  <1>c5. GroupSettled'
    BY <1>0, <1>2, <1>3, <1>9 DEF GroupSettled
  <1>c6. GroupOfStep'
    BY <1>0, <1>2, <1>3, <1>9 DEF GroupOfStep, OfForward
  <1>c7. FirstFailureKept'
    BY <1>0, <1>2, <1>3, <1>9 DEF FirstFailureKept, GroupSettled, Broken
  <1>c8. PlaceInForward'
    BY <1>0, <1>2, <1>3, <1>9, <1>10, ConfigFacts DEF PlaceInForward,
       Published, Forward, HistoryCounted
  <1>c9. PrefixesInStep'
    BY <1>0, <1>2, <1>3, <1>9, <1>10, ConfigFacts DEF PrefixesInStep,
       Published, Forward, Layers
  <1>c10. HistoryCounted'
    BY <1>0, <1>2, <1>3, <1>9 DEF HistoryCounted, Published, Forward
  <1>c11. InputsHeld'
    BY <1>0, <1>2, <1>3, <1>9 DEF InputsHeld, Holds, Value, LastDone
  <1>c12. StepsMade'
    BY <1>0, <1>2, <1>3, <1>9 DEF StepsMade
  <1>c13. OutputsHeld'
    BY <1>0, <1>2, <1>3, <1>9 DEF OutputsHeld, Holds, Value, LastDone
  <1>c14. CachesWritten'
    BY <1>0, <1>2, <1>3, <1>9, ConfigFacts DEF CachesWritten, Published,
       Forward, RowsWritten, Caches, Layers
  <1>c15. PlanKept'
    BY <1>0, <1>2, <1>3, <1>9, <1>11 DEF PlanKept, Published, Forward
  <1>c16. CallPlaced'
    BY <1>0, <1>2, <1>3, <1>9 DEF CallPlaced, InRequest, InSetup, NoCall,
       Published, Forward
  <1>c17. AttemptPlaced'
    BY <1>0, <1>2, <1>3, <1>9, <1>1, <1>8 DEF AttemptPlaced, InRequest,
       InSetup, Published, Forward, SameAttempt
  <1>c18. Counted'
    BY <1>0, <1>2, <1>3, <1>9, <1>1, <1>8 DEF Counted, Published, Forward,
       SameCounts
  <1>c19. RatesEarned'
    BY <1>0, <1>2, <1>3, <1>9, <1>1, <1>8 DEF RatesEarned, SameCounts,
       PoisonStops
  <1>c20. RowsPaired'
    BY <1>0, <1>2, <1>3, <1>9, <1>1, <1>4, <1>8 DEF RowsPaired, Published,
       Forward, SameTrace, TypeOK, Requests
  <1>c21. RowsTruthful'
    BY <1>0, <1>2, <1>3, <1>9, <1>4 DEF RowsTruthful
  <1> QED
    BY <1>c1, <1>c2, <1>c3, <1>c4, <1>c5, <1>c6, <1>c7, <1>c8, <1>c9, <1>c10,
       <1>c11, <1>c12, <1>c13, <1>c14, <1>c15, <1>c16, <1>c17, <1>c18, <1>c19,
       <1>c20, <1>c21 DEF IInv

--------------------------------------------------------------------------------
(***************************************************************************)
(* Steps of a published request.                                           *)
(***************************************************************************)

(* A failure poisons the session and starts the drain. *)
LEMMA Unwinds ==
    ASSUME IInv, pc \in Published, NEW f \in Failures, Unwind(f),
           UNCHANGED <<call, need, request, ledger, group, fwd, buf, rows,
                       prefix, ret, calls>>,
           metrics' = metrics \/ Observed(metrics, metrics'),
           pc = "step" => \A i \in DOMAIN group : group[i].st # "pending",
           pc = "step" /\ Broken # {}
               /\ LayerSteps[fwd.step] # <<"gate", "up">>
                   => f = group[Min(Broken)].op
    PROVE  IInv'
  <1>0. /\ TypeOK /\ PoisonStops /\ LedgerSettled /\ LastIsAwaited
        /\ GroupSettled /\ GroupOfStep /\ FirstFailureKept /\ PlaceInForward
        /\ PrefixesInStep /\ HistoryCounted /\ InputsHeld /\ StepsMade
        /\ OutputsHeld /\ CachesWritten /\ PlanKept /\ CallPlaced
        /\ AttemptPlaced /\ Counted /\ RatesEarned /\ RowsPaired /\ RowsTruthful
    BY DEF IInv
  <1>1. /\ err' = f /\ poisoned' = TRUE /\ pc' = "drain_throw" /\ drainAt' = 1
        /\ drained' = "none"
    BY DEF Unwind, None
  <1>2. ~poisoned
    BY <1>0 DEF PoisonStops, Published, Forward
  <1>3. Observed(metrics, metrics')
    BY <1>0 DEF Observed, SameAttempt, SameCounts, TypeOK
  <1>4. InRequest /\ InRequest' /\ ~InSetup'
    BY <1>1 DEF InRequest, InSetup, Published, Forward
  <1>5. pc # "step" => group = <<>>
    BY <1>0 DEF GroupSettled, Published, Forward
  <1>6. Broken' = Broken
    BY DEF Broken
  <1>7. pc # "step" => Broken = {}
    BY <1>5 DEF Broken
  <1>c1. TypeOK'
    BY <1>0, <1>1, <1>3 DEF TypeOK, Pcs, Published, Forward, Failures, Observed
  <1>c2. PoisonStops'
    BY <1>0, <1>1 DEF PoisonStops
  <1>c3. LedgerSettled'
    BY <1>0, <1>1, <1>2 DEF LedgerSettled, Awaited, PoisonStops, TypeOK
  <1>c4. LastIsAwaited'
    BY <1>0, <1>1 DEF LastIsAwaited, Awaited, OfForward
  <1>c5. GroupSettled'
    BY <1>0, <1>1, <1>5 DEF GroupSettled
  <1>c6. GroupOfStep'
    BY <1>0, <1>1 DEF GroupOfStep, OfForward
  <1>c7. FirstFailureKept'
    BY <1>0, <1>1, <1>6, <1>7 DEF FirstFailureKept
  <1>c8. PlaceInForward'
    BY <1>0, <1>1 DEF PlaceInForward, Published, Forward
  <1>c9. PrefixesInStep'
    BY <1>0, <1>1 DEF PrefixesInStep, Published, Forward
  <1>c10. HistoryCounted'
    BY <1>0, <1>1 DEF HistoryCounted, Published, Forward
  <1>c11. InputsHeld'
    BY <1>0, <1>1 DEF InputsHeld, Holds, Value, LastDone
  <1>c12. StepsMade'
    BY <1>0, <1>1 DEF StepsMade
  <1>c13. OutputsHeld'
    BY <1>0, <1>1 DEF OutputsHeld, Holds, Value, LastDone
  <1>c14. CachesWritten'
    BY <1>0, <1>1 DEF CachesWritten, Published, Forward, RowsWritten
  <1>c15. PlanKept'
    BY <1>0, <1>1 DEF PlanKept, Published, Forward
  <1>c16. CallPlaced'
    BY <1>0, <1>1, <1>4 DEF CallPlaced
  <1>c17. AttemptPlaced'
    BY <1>0, <1>1, <1>3, <1>4 DEF AttemptPlaced, Observed, SameAttempt,
       SameCounts
  <1>c18. Counted'
    BY <1>0, <1>1, <1>3 DEF Counted, Published, Forward, Observed, SameCounts
  <1>c19. RatesEarned'
    BY <1>0, <1>1, <1>3, <1>4 DEF RatesEarned, Observed, SameCounts,
       AttemptPlaced
  <1>c20. RowsPaired'
    BY <1>0, <1>1, <1>3 DEF RowsPaired, Published, Forward, Observed
  <1>c21. RowsTruthful'
    BY <1>0, <1>1, <1>3 DEF RowsTruthful, Observed
  <1> QED
    BY <1>c1, <1>c2, <1>c3, <1>c4, <1>c5, <1>c6, <1>c7, <1>c8, <1>c9, <1>c10,
       <1>c11, <1>c12, <1>c13, <1>c14, <1>c15, <1>c16, <1>c17, <1>c18, <1>c19,
       <1>c20, <1>c21 DEF IInv

(* The next decode starts where every cache ends. *)
LEMMA StartDecodeKeeps ==
    ASSUME IInv, StartDecode
    PROVE  IInv'
  <1>0. /\ TypeOK /\ PoisonStops /\ LedgerSettled /\ LastIsAwaited
        /\ GroupSettled /\ GroupOfStep /\ FirstFailureKept /\ PlaceInForward
        /\ PrefixesInStep /\ HistoryCounted /\ InputsHeld /\ StepsMade
        /\ OutputsHeld /\ CachesWritten /\ PlanKept /\ CallPlaced
        /\ AttemptPlaced /\ Counted /\ RatesEarned /\ RowsPaired /\ RowsTruthful
    BY DEF IInv
  <1>1. /\ pc = "decode" /\ metrics' = record_decode_interval(metrics)
        /\ call' = [call EXCEPT !.phase = "decode", !.decodePending = TRUE,
                                !.fromDecode = TRUE]
        /\ UNCHANGED <<need, request, ledger, group, buf, rows, prefix, ret,
                       calls>>
    BY DEF StartDecode
  <1>2. /\ fwd.a \in Nat /\ fwd.R \in Nat /\ request.history \in Nat
        /\ request.results \in Nat /\ call \in Calls
    BY <1>0 DEF TypeOK, Forwards, Requests
  <1>3. /\ \A l \in Layers : prefix[l] = fwd.a + fwd.R
        /\ request.history = fwd.a + fwd.R + 1 /\ request.history < Config.C
        /\ request.results > 0
    BY <1>0, <1>1 DEF PrefixesInStep, HistoryCounted
  <1>4. 0 \in Layers
    BY ConfigFacts DEF Layers
  <1>5. prefix[0] = fwd.a + fwd.R /\ fwd.a + fwd.R < Config.C
    BY <1>2, <1>3, <1>4, ConfigFacts
  <1>6. DecodeAdmitted
    BY <1>3, <1>5 DEF DecodeAdmitted
  <1>7. /\ pc' = "upload"
        /\ fwd' = [NoForward EXCEPT !.bank = "decode", !.a = prefix[0], !.R = 1]
        /\ UNCHANGED <<poisoned, err, drainAt, drained>>
    BY <1>6 DEF StartDecode, Steady
  <1>8. fwd' = [bank |-> "decode", a |-> fwd.a + fwd.R, R |-> 1, layer |-> 0,
                step |-> 1]
    BY <1>5, <1>7 DEF NoForward
  <1>9. /\ fwd' \in Forwards /\ fwd'.bank = "decode"
        /\ fwd'.a = fwd.a + fwd.R /\ fwd'.R = 1 /\ fwd'.layer = 0
        /\ fwd'.step = 1
    BY <1>2, <1>8, ConfigFacts DEF Forwards, Banks
  <1>10. /\ call' \in Calls /\ call'.phase = "decode" /\ call'.fromDecode
         /\ call'.kind = call.kind /\ call'.prompt = call.prompt
    BY <1>1, <1>2 DEF Calls
  <1>11. /\ metrics' \in Recorders /\ SameTrace(metrics, metrics')
         /\ SameAttempt(metrics, metrics') /\ metrics'.scalars = metrics.scalars
    <2>1. metrics \in Recorders
      BY <1>0 DEF TypeOK
    <2> QED
      BY <1>1, <2>1, IntervalEffect
  <1>12. PlanAccepted'
    BY <1>0, <1>1 DEF PlanKept, PlanAccepted, Published
  <1>13. UNCHANGED <<need, request, ledger, group, buf, rows, prefix, ret, calls,
                     poisoned, err, drainAt, drained>>
    BY <1>1, <1>7
  <1>14. pc = "decode" /\ pc' = "upload"
    BY <1>1, <1>7
  <1>c1. TypeOK'
    BY <1>0, <1>9, <1>13, <1>14, <1>10, <1>11 DEF TypeOK, Pcs, Published,
       Forward
  <1>c2. PoisonStops'
    BY <1>0, <1>9, <1>13, <1>14 DEF PoisonStops
  <1>c3. LedgerSettled'
    BY <1>0, <1>9, <1>13, <1>14 DEF LedgerSettled, Awaited, PoisonStops
  <1>c4. LastIsAwaited'
    BY <1>0, <1>9, <1>13, <1>14 DEF LastIsAwaited, Awaited, OfForward
  <1>c5. GroupSettled'
    BY <1>0, <1>9, <1>13, <1>14 DEF GroupSettled
  <1>c6. GroupOfStep'
    BY <1>0, <1>9, <1>13, <1>14 DEF GroupOfStep, OfForward
  <1>c7. FirstFailureKept'
    BY <1>0, <1>9, <1>13, <1>14 DEF FirstFailureKept
  <1>c8. PlaceInForward'
    BY <1>0, <1>9, <1>13, <1>14, <1>2, <1>3, ConfigFacts DEF PlaceInForward,
       Published, Forward
  <1>c9. PrefixesInStep'
    BY <1>0, <1>9, <1>13, <1>14, <1>3 DEF PrefixesInStep, Published, Forward,
       Layers
  <1>c10. HistoryCounted'
    BY <1>0, <1>9, <1>13, <1>14, <1>2, <1>3, <1>10 DEF HistoryCounted,
       Published, Forward
  <1>c11. InputsHeld'
    BY <1>0, <1>9, <1>13, <1>14 DEF InputsHeld, Holds, Value, LastDone
  <1>c12. StepsMade'
    BY <1>0, <1>9, <1>13, <1>14 DEF StepsMade
  <1>c13. OutputsHeld'
    BY <1>0, <1>9, <1>13, <1>14 DEF OutputsHeld, Holds, Value, LastDone
  <1>c14. CachesWritten'
    BY <1>0, <1>9, <1>13, <1>14, <1>2, ConfigFacts DEF CachesWritten,
       Published, Forward, RowsWritten, Caches, Layers
  <1>c15. PlanKept'
    BY <1>0, <1>9, <1>13, <1>14, <1>12 DEF PlanKept, Published, Forward
  <1>c16. CallPlaced'
    BY <1>0, <1>9, <1>13, <1>14, <1>10 DEF CallPlaced, InRequest, InSetup,
       NoCall, Published, Forward
  <1>c17. AttemptPlaced'
    BY <1>0, <1>9, <1>13, <1>14, <1>11 DEF AttemptPlaced, InRequest, InSetup,
       Published, Forward, SameAttempt
  <1>c18. Counted'
    BY <1>0, <1>9, <1>13, <1>14, <1>11 DEF Counted, Published, Forward
  <1>c19. RatesEarned'
    BY <1>0, <1>9, <1>13, <1>14, <1>11 DEF RatesEarned
  <1>c20. RowsPaired'
    BY <1>0, <1>9, <1>13, <1>14, <1>11 DEF RowsPaired, Published, Forward,
       SameTrace
  <1>c21. RowsTruthful'
    BY <1>0, <1>9, <1>13, <1>14, <1>11 DEF RowsTruthful, SameTrace
  <1> QED
    BY <1>c1, <1>c2, <1>c3, <1>c4, <1>c5, <1>c6, <1>c7, <1>c8, <1>c9, <1>c10,
       <1>c11, <1>c12, <1>c13, <1>c14, <1>c15, <1>c16, <1>c17, <1>c18, <1>c19,
       <1>c20, <1>c21 DEF IInv

(* The token ids are on the device. *)
LEMMA UploadedKeeps ==
    ASSUME IInv, pc = "upload", pc' = "embedding",
           buf' = [buf EXCEPT ![<<fwd.bank, "token_indices">>] =
                                  <<request.ordinal, fwd.a, 0>>],
           UNCHANGED <<call, need, request, ledger, group, fwd, rows, prefix,
                       poisoned, err, drainAt, drained, ret, calls, metrics>>
    PROVE  IInv'
  <1>0. /\ TypeOK /\ PoisonStops /\ LedgerSettled /\ LastIsAwaited
        /\ GroupSettled /\ GroupOfStep /\ FirstFailureKept /\ PlaceInForward
        /\ PrefixesInStep /\ HistoryCounted /\ InputsHeld /\ StepsMade
        /\ OutputsHeld /\ CachesWritten /\ PlanKept /\ CallPlaced
        /\ AttemptPlaced /\ Counted /\ RatesEarned /\ RowsPaired /\ RowsTruthful
    BY DEF IInv
  <1>1. <<fwd.bank, "token_indices">> \in Owners
    BY <1>0, OwnerKinds DEF TypeOK, Forwards, Roles
  <1>2. <<request.ordinal, fwd.a, 0>> \in Nat \X Nat \X Nat
    BY <1>0 DEF TypeOK, Forwards, Requests
  <1> DEFINE o == <<fwd.bank, "token_indices">>
  <1>3. /\ buf' \in [Owners -> Nat \X Nat \X Nat]
        /\ buf'[o] = <<request.ordinal, fwd.a, 0>>
    <2>1. buf \in [Owners -> Nat \X Nat \X Nat]
      BY <1>0 DEF TypeOK
    <2> HIDE DEF o
    <2> QED
      BY <1>1, <1>2, <2>1 DEF o
  <1>4. PlanAccepted'
    BY <1>0 DEF PlanKept, PlanAccepted, Published, Forward
  <1>c1. TypeOK'
    BY <1>0, <1>3 DEF TypeOK, Pcs, Published, Forward
  <1>c2. PoisonStops'
    BY <1>0 DEF PoisonStops
  <1>c3. LedgerSettled'
    BY <1>0 DEF LedgerSettled, Awaited, PoisonStops
  <1>c4. LastIsAwaited'
    BY <1>0 DEF LastIsAwaited, Awaited, OfForward
  <1>c5. GroupSettled'
    BY <1>0 DEF GroupSettled
  <1>c6. GroupOfStep'
    BY <1>0 DEF GroupOfStep, OfForward
  <1>c7. FirstFailureKept'
    BY <1>0 DEF FirstFailureKept
  <1>c8. PlaceInForward'
    BY <1>0 DEF PlaceInForward, Published, Forward
  <1>c9. PrefixesInStep'
    BY <1>0 DEF PrefixesInStep, Published, Forward
  <1>c10. HistoryCounted'
    BY <1>0 DEF HistoryCounted, Published, Forward
  <1>c11. InputsHeld'
    BY <1>0, <1>3 DEF InputsHeld, Holds, Value, LastDone
  <1>c12. StepsMade'
    BY <1>0 DEF StepsMade
  <1>c13. OutputsHeld'
    BY <1>0 DEF OutputsHeld, Holds, Value, LastDone
  <1>c14. CachesWritten'
    BY <1>0 DEF CachesWritten, Published, Forward, RowsWritten
  <1>c15. PlanKept'
    BY <1>0, <1>4 DEF PlanKept, Published, Forward
  <1>c16. CallPlaced'
    BY <1>0 DEF CallPlaced, InRequest, InSetup, NoCall, Published, Forward
  <1>c17. AttemptPlaced'
    BY <1>0 DEF AttemptPlaced, InRequest, InSetup, Published, Forward
  <1>c18. Counted'
    BY <1>0 DEF Counted, Published, Forward
  <1>c19. RatesEarned'
    BY <1>0 DEF RatesEarned
  <1>c20. RowsPaired'
    BY <1>0 DEF RowsPaired, Published, Forward
  <1>c21. RowsTruthful'
    BY <1>0 DEF RowsTruthful
  <1> QED
    BY <1>c1, <1>c2, <1>c3, <1>c4, <1>c5, <1>c6, <1>c7, <1>c8, <1>c9, <1>c10,
       <1>c11, <1>c12, <1>c13, <1>c14, <1>c15, <1>c16, <1>c17, <1>c18, <1>c19,
       <1>c20, <1>c21 DEF IInv

(* The upload ends, well or not. *)
LEMMA UploadKeeps ==
    ASSUME IInv, Upload
    PROVE  IInv'
  <1>1. CASE pc' = "embedding"
    <2>1. /\ pc = "upload"
          /\ buf' = [buf EXCEPT ![<<fwd.bank, "token_indices">>] =
                                   <<request.ordinal, fwd.a, 0>>]
          /\ UNCHANGED <<call, need, request, ledger, group, fwd, rows, prefix,
                         poisoned, err, drainAt, drained, ret, calls, metrics>>
      BY <1>1 DEF Upload, Steady, Unwind
    <2> QED
      BY <1>1, <2>1, UploadedKeeps
  <1>2. CASE pc' # "embedding"
    <2>1. /\ pc = "upload" /\ Unwind("device_error")
          /\ UNCHANGED <<call, need, request, ledger, group, fwd, buf, rows,
                         prefix, ret, calls, metrics>>
      BY <1>2 DEF Upload
    <2>2. pc \in Published /\ "device_error" \in Failures
      BY <2>1 DEF Published, Forward, Failures
    <2> QED
      BY <2>1, <2>2, Unwinds
  <1> QED
    BY <1>1, <1>2

(* What SessionAccess::submit of an accepted operation leaves behind. *)
LEMMA SubmitEffect ==
    ASSUME IInv, NEW op \in {"embedding", "final_norm", "lm_head"},
           NEW layer \in Nat, require_submission,
           ledger' = Append(ledger, Token(op, layer, "pending")),
           Spoil(Token(op, layer, "pending")),
           metrics' = record_enqueue(metrics, accepted_oid_capacity),
           UNCHANGED <<request, fwd>>
    PROVE  /\ ledger' \in Seq(Accepted) /\ Len(ledger') = Len(ledger) + 1
           /\ ledger' # <<>> /\ DOMAIN ledger' = 1 .. Len(ledger) + 1
           /\ \A i \in DOMAIN ledger : ledger'[i] = ledger[i]
           /\ OfForward(ledger[Len(ledger)], op, layer)'
           /\ (ledger[Len(ledger)].st = "pending")'
           /\ buf' \in BufType /\ rows' = rows
           /\ \A o \in Owners : o # Writes(Token(op, layer, "pending")) =>
                  buf'[o] = buf[o]
           /\ metrics' \in Recorders /\ SameAttempt(metrics, metrics')
           /\ metrics'.scalars = metrics.scalars
           /\ metrics'.tracing = metrics.tracing
           /\ metrics'.dropped = metrics.dropped
           /\ ~metrics.tracing => metrics' = metrics
           /\ metrics.tracing =>
                  /\ Len(metrics'.rows) = Len(metrics.rows) + 1
                  /\ \A i \in DOMAIN metrics.rows :
                         metrics'.rows[i] = metrics.rows[i]
                  /\ metrics'.rows[Len(metrics.rows) + 1].wait = "not_observed"
  <1> DEFINE t == Token(op, layer, "pending")
  <1>0. /\ ledger \in Seq(Accepted) /\ fwd \in Forwards /\ request \in Requests
        /\ buf \in BufType /\ rows \in RowsType /\ metrics \in Recorders
    BY DEF IInv, TypeOK, BufType, RowsType
  <1>1. t = [op |-> op, ordinal |-> request.ordinal, bank |-> fwd.bank,
             a |-> fwd.a, R |-> fwd.R, layer |-> layer, st |-> "pending"]
    BY DEF Token
  <1>2. t \in Accepted /\ t \in Members
    BY <1>0, <1>1 DEF Accepted, Members, Tokens, Ops, Forwards, Requests
  <1>3. /\ t.op = op /\ t.ordinal = request.ordinal /\ t.bank = fwd.bank
        /\ t.a = fwd.a /\ t.R = fwd.R /\ t.layer = layer /\ t.st = "pending"
        /\ t.bank \in Banks
    BY <1>0, <1>1 DEF Forwards
  <1>4. Writes(t) \in Owners
    <2>1. \/ Writes(t) = <<t.bank, "x">>
          \/ Writes(t) = <<t.bank, "final_norm">>
          \/ Writes(t) = Logits
      BY <1>3, OperandTable
    <2>2. "x" \in Roles /\ "final_norm" \in Roles
      BY DEF Roles
    <2> QED
      BY <1>3, <2>1, <2>2, OwnerKinds
  <1>5. rows' = rows
    BY <1>4 DEF Spoil
  <1>6. t.op \notin LayerOps
    BY <1>3 DEF LayerOps
  <1>7. /\ buf' \in BufType
        /\ \A o \in Owners : o # Writes(t) => buf'[o] = buf[o]
    BY <1>0, <1>2, <1>6, SpoilEffect
  <1> HIDE DEF t
  <1>8. /\ ledger' \in Seq(Accepted) /\ Len(ledger') = Len(ledger) + 1
        /\ ledger' # <<>> /\ DOMAIN ledger' = 1 .. Len(ledger) + 1
        /\ \A i \in DOMAIN ledger : ledger'[i] = ledger[i]
        /\ ledger'[Len(ledger')] = t
    BY <1>0, <1>2 DEF t
  <1>9. OfForward(ledger[Len(ledger)], op, layer)'
        /\ (ledger[Len(ledger)].st = "pending")'
    BY <1>3, <1>8 DEF OfForward
  <1>10. accepted_oid_capacity \in Nat
    <2>1. Config.L * 24 + 32 \in Nat /\ Config.C \in Nat
      BY ConfigFacts
    <2> DEFINE x == Config.L * 24 + 32
    <2> HIDE DEF x
    <2>2. x \in Nat => Config.C * x \in Nat
      BY <2>1
    <2> QED
      BY <2>1, <2>2 DEF accepted_oid_capacity, x
  <1>11. metrics.tracing => Len(metrics.rows) < accepted_oid_capacity
    BY DEF require_submission
  <1>12. /\ metrics' \in Recorders /\ SameAttempt(metrics, metrics')
         /\ metrics'.scalars = metrics.scalars
         /\ metrics'.tracing = metrics.tracing
         /\ metrics'.dropped = metrics.dropped
         /\ ~metrics.tracing => metrics' = metrics
         /\ metrics.tracing =>
                /\ Len(metrics'.rows) = Len(metrics.rows) + 1
                /\ \A i \in DOMAIN metrics.rows :
                       metrics'.rows[i] = metrics.rows[i]
                /\ metrics'.rows[Len(metrics.rows) + 1].wait = "not_observed"
    BY <1>0, <1>10, <1>11, EnqueueEffect
  <1> QED
    BY <1>5, <1>7, <1>8, <1>9, <1>12 DEF t

(* An accepted operation is the one token not yet waited for. *)
LEMMA SubmittedKeeps ==
    ASSUME IInv, NEW op \in {"embedding", "final_norm", "lm_head"},
           NEW layer \in Nat, NEW next,
           \/ /\ pc = "embedding" /\ op = "embedding" /\ layer = 0
              /\ next = "layer"
           \/ /\ pc = "final_norm" /\ op = "final_norm" /\ layer = Config.L
              /\ next = "await_norm"
           \/ /\ pc = "lm_head" /\ op = "lm_head" /\ layer = Config.L
              /\ next = "ready",
           require_submission, pc' = next,
           ledger' = Append(ledger, Token(op, layer, "pending")),
           Spoil(Token(op, layer, "pending")),
           metrics' = record_enqueue(metrics, accepted_oid_capacity),
           UNCHANGED <<call, need, request, group, fwd, prefix, poisoned, err,
                       drainAt, drained, ret, calls>>
    PROVE  IInv'
  <1>0. /\ TypeOK /\ PoisonStops /\ LedgerSettled /\ LastIsAwaited
        /\ GroupSettled /\ GroupOfStep /\ FirstFailureKept /\ PlaceInForward
        /\ PrefixesInStep /\ HistoryCounted /\ InputsHeld /\ StepsMade
        /\ OutputsHeld /\ CachesWritten /\ PlanKept /\ CallPlaced
        /\ AttemptPlaced /\ Counted /\ RatesEarned /\ RowsPaired /\ RowsTruthful
    BY DEF IInv
  <1> DEFINE w == Writes(Token(op, layer, "pending"))
  <1>1. /\ ledger' \in Seq(Accepted) /\ Len(ledger') = Len(ledger) + 1
        /\ ledger' # <<>> /\ DOMAIN ledger' = 1 .. Len(ledger) + 1
        /\ \A i \in DOMAIN ledger : ledger'[i] = ledger[i]
        /\ OfForward(ledger[Len(ledger)], op, layer)'
        /\ (ledger[Len(ledger)].st = "pending")'
        /\ buf' \in BufType /\ rows' = rows
        /\ \A o \in Owners : o # w => buf'[o] = buf[o]
        /\ metrics' \in Recorders /\ SameAttempt(metrics, metrics')
        /\ metrics'.scalars = metrics.scalars
        /\ metrics'.tracing = metrics.tracing
        /\ metrics'.dropped = metrics.dropped
        /\ ~metrics.tracing => metrics' = metrics
        /\ metrics.tracing =>
               /\ Len(metrics'.rows) = Len(metrics.rows) + 1
               /\ \A i \in DOMAIN metrics.rows :
                      metrics'.rows[i] = metrics.rows[i]
               /\ metrics'.rows[Len(metrics.rows) + 1].wait = "not_observed"
    BY SubmitEffect
  <1>2. /\ op = "embedding" => w = <<fwd.bank, "x">>
        /\ op = "final_norm" => w = <<fwd.bank, "final_norm">>
        /\ op = "lm_head" => w = Logits
    <2> DEFINE t == Token(op, layer, "pending")
    <2>1. t.op = op /\ t.bank = fwd.bank
      BY DEF Token
    <2> HIDE DEF t
    <2> QED
      BY <2>1, OperandTable DEF t
  <1> HIDE DEF w
  <1>3. ~poisoned /\ \A i \in DOMAIN ledger : ledger[i].st = "ok"
    BY <1>0 DEF PoisonStops, LedgerSettled, Awaited
  <1>4. \/ /\ pc = "embedding" /\ pc' = "layer" /\ fwd.layer = 0
           /\ op = "embedding"
        \/ /\ pc = "final_norm" /\ pc' = "await_norm" /\ fwd.layer = Config.L
           /\ op = "final_norm"
        \/ /\ pc = "lm_head" /\ pc' = "ready" /\ fwd.layer = Config.L
           /\ op = "lm_head"
    BY <1>0 DEF PlaceInForward
  <1>5. ~LastDone'
    BY <1>1 DEF LastDone
  <1>6. fwd.bank \in Banks /\ Len(ledger) \in Nat /\ DOMAIN ledger = 1 .. Len(ledger)
    BY <1>0 DEF TypeOK, Forwards
  <1>7. /\ <<fwd.bank, "token_indices">> \in Owners
        /\ <<fwd.bank, "final_norm">> \in Owners
        /\ <<fwd.bank, final_layer_output(Config.L)>> \in Owners
        /\ <<fwd.bank, "final_norm">> # Logits
        /\ final_layer_output(Config.L) # "final_norm"
    <2>1. /\ "token_indices" \in Roles /\ "final_norm" \in Roles
          /\ final_layer_output(Config.L) \in Roles
          /\ final_layer_output(Config.L) # "final_norm"
      BY DEF final_layer_output, Roles
    <2> QED
      BY <1>6, <2>1, OwnerKinds
  <1>10. /\ op = "embedding" => Holds("token_indices", 0)' = Holds("token_indices", 0)
         /\ op = "final_norm" =>
                Holds(final_layer_output(Config.L), Config.L)' =
                Holds(final_layer_output(Config.L), Config.L)
         /\ op = "lm_head" =>
                Holds("final_norm", Config.L)' = Holds("final_norm", Config.L)
    <2>1. /\ op = "embedding" => <<fwd.bank, "token_indices">> # w
          /\ op = "final_norm" => <<fwd.bank, final_layer_output(Config.L)>> # w
          /\ op = "lm_head" => <<fwd.bank, "final_norm">> # w
      BY <1>2, <1>7
    <2> QED
      BY <1>1, <1>7, <2>1 DEF Holds, Value
  <1>8. PlanAccepted'
    BY <1>0, <1>4 DEF PlanKept, PlanAccepted, Published, Forward
  <1>9. /\ metrics.rows \in Seq(Rows) /\ metrics'.rows \in Seq(Rows)
    BY <1>0, <1>1 DEF TypeOK, Recorders
  <1>c1. TypeOK'
    BY <1>0, <1>4, <1>1 DEF TypeOK, Pcs, Published, Forward, BufType
  <1>c2. PoisonStops'
    BY <1>0, <1>4 DEF PoisonStops
  <1>c3. LedgerSettled'
    BY <1>0, <1>4, <1>1, <1>3, <1>6 DEF LedgerSettled, Awaited, PoisonStops
  <1>c4. LastIsAwaited'
    BY <1>0, <1>4, <1>1 DEF LastIsAwaited, Awaited
  <1>c5. GroupSettled'
    BY <1>0, <1>4 DEF GroupSettled
  <1>c6. GroupOfStep'
    BY <1>0, <1>4 DEF GroupOfStep, OfForward
  <1>c7. FirstFailureKept'
    BY <1>0, <1>4 DEF FirstFailureKept
  <1>c8. PlaceInForward'
    BY <1>0, <1>4, ConfigFacts DEF PlaceInForward, Published, Forward
  <1>c9. PrefixesInStep'
    BY <1>0, <1>4 DEF PrefixesInStep, Published, Forward
  <1>c10. HistoryCounted'
    BY <1>0, <1>4 DEF HistoryCounted, Published, Forward
  <1>c11. InputsHeld'
    BY <1>0, <1>4, ConfigFacts, <1>5, <1>10 DEF InputsHeld
  <1>c12. StepsMade'
    BY <1>0, <1>4 DEF StepsMade
  <1>c13. OutputsHeld'
    BY <1>0, <1>4, <1>5, <1>10 DEF OutputsHeld
  <1>c14. CachesWritten'
    BY <1>0, <1>4, <1>1 DEF CachesWritten, Published, Forward, RowsWritten
  <1>c15. PlanKept'
    BY <1>0, <1>4, <1>8 DEF PlanKept, Published, Forward
  <1>c16. CallPlaced'
    BY <1>0, <1>4 DEF CallPlaced, InRequest, InSetup, NoCall, Published,
       Forward
  <1>c17. AttemptPlaced'
    BY <1>0, <1>4, <1>1 DEF AttemptPlaced, InRequest, InSetup, Published,
       Forward, SameAttempt
  <1>c18. Counted'
    BY <1>0, <1>4, <1>1 DEF Counted, Published, Forward
  <1>c19. RatesEarned'
    BY <1>0, <1>4, <1>1 DEF RatesEarned
  <1>c20. RowsPaired'
    BY <1>0, <1>4, <1>1, <1>6, <1>9 DEF RowsPaired, Published, Forward
  <1>c21. RowsTruthful'
    BY <1>0, <1>4, <1>1, <1>6, <1>9 DEF RowsTruthful, RowsPaired, Published,
       Forward
  <1> QED
    BY <1>c1, <1>c2, <1>c3, <1>c4, <1>c5, <1>c6, <1>c7, <1>c8, <1>c9, <1>c10,
       <1>c11, <1>c12, <1>c13, <1>c14, <1>c15, <1>c16, <1>c17, <1>c18, <1>c19,
       <1>c20, <1>c21 DEF IInv

(* A submission outside the layers is accepted or unwinds the request. *)
LEMMA SubmitKeeps ==
    ASSUME IInv, Embedding \/ FinalNorm \/ LmHead
    PROVE  IInv'
  <1>1. ASSUME NEW op \in {"embedding", "final_norm", "lm_head"},
               NEW layer \in Nat, NEW next,
               \/ /\ pc = "embedding" /\ op = "embedding" /\ layer = 0
                  /\ next = "layer"
               \/ /\ pc = "final_norm" /\ op = "final_norm" /\ layer = Config.L
                  /\ next = "await_norm"
               \/ /\ pc = "lm_head" /\ op = "lm_head" /\ layer = Config.L
                  /\ next = "ready",
               Submit(op, layer, next)
        PROVE  IInv'
    <2>1. CASE Unwind(IF require_submission THEN op ELSE "overflow_error")
               /\ UNCHANGED <<ledger, buf, rows, metrics>>
      <3> DEFINE f == IF require_submission THEN op ELSE "overflow_error"
      <3>1. f \in Failures /\ pc \in Published /\ pc # "step"
        BY <1>1 DEF Failures, Ops, Published, Forward
      <3>2. Unwind(f) /\ UNCHANGED <<call, need, request, ledger, group, fwd,
                                     buf, rows, prefix, ret, calls, metrics>>
        BY <1>1, <2>1 DEF Submit
      <3> HIDE DEF f
      <3> QED
        BY <3>1, <3>2, Unwinds
    <2>2. CASE ~(Unwind(IF require_submission THEN op ELSE "overflow_error")
                 /\ UNCHANGED <<ledger, buf, rows, metrics>>)
      <3>1. /\ require_submission /\ pc' = next
            /\ ledger' = Append(ledger, Token(op, layer, "pending"))
            /\ Spoil(Token(op, layer, "pending"))
            /\ metrics' = record_enqueue(metrics, accepted_oid_capacity)
            /\ UNCHANGED <<call, need, request, group, fwd, prefix, poisoned,
                           err, drainAt, drained, ret, calls>>
        BY <1>1, <2>2 DEF Submit, Steady
      <3> QED
        BY <1>1, <3>1, SubmittedKeeps
    <2> QED
      BY <2>1, <2>2
  <1>2. 0 \in Nat /\ Config.L \in Nat
    BY ConfigFacts
  <1>3. CASE Embedding
    BY <1>1, <1>2, <1>3 DEF Embedding
  <1>4. CASE FinalNorm
    BY <1>1, <1>2, <1>4 DEF FinalNorm
  <1>5. CASE LmHead
    BY <1>1, <1>2, <1>5 DEF LmHead
  <1> QED
    BY <1>3, <1>4, <1>5

(* Where a token is awaited, it is the last one, and every other ended well. *)
LEMMA AwaitedToken ==
    ASSUME IInv, Awaited
    PROVE  /\ ~poisoned /\ ledger \in Seq(Accepted) /\ ledger # <<>>
           /\ Len(ledger) \in DOMAIN ledger
           /\ ledger[Len(ledger)].st \in {"pending", "ok", "failed"}
           /\ ledger[Len(ledger)].st = "ok" =>
                  \A i \in DOMAIN ledger : ledger[i].st = "ok"
           /\ pc = "layer" => ledger[Len(ledger)].op = "embedding"
           /\ pc = "await_norm" => ledger[Len(ledger)].op = "final_norm"
           /\ pc = "ready" => ledger[Len(ledger)].op = "lm_head"
           /\ pc \in Published
           /\ Observed(metrics, ObserveWait(metrics, Len(ledger)))
           /\ ledger[Len(ledger)].st # "failed" =>
                  ObserveWait(metrics, Len(ledger)).scalars = metrics.scalars
  <1>1. pc \in {"await_norm", "ready", "layer"} /\ pc \in Published
    BY DEF Awaited, Published, Forward
  <1>2. ~poisoned
    BY <1>1 DEF IInv, PoisonStops
  <1>3. ledger \in Seq(Accepted) /\ metrics \in Recorders
    BY DEF IInv, TypeOK
  <1>4. ledger # <<>>
    BY DEF IInv, LastIsAwaited
  <1>5. Len(ledger) \in DOMAIN ledger
    BY <1>3, <1>4
  <1>6. ledger[Len(ledger)] \in Accepted
    BY <1>3, <1>5
  <1>7. ledger[Len(ledger)].st \in {"pending", "ok", "failed"}
    BY <1>6 DEF Accepted, Tokens
  <1>8. ledger[Len(ledger)].st = "ok" => \A i \in DOMAIN ledger : ledger[i].st = "ok"
    BY <1>2 DEF IInv, LedgerSettled
  <1>9. /\ pc = "layer" => ledger[Len(ledger)].op = "embedding"
        /\ pc = "await_norm" => ledger[Len(ledger)].op = "final_norm"
        /\ pc = "ready" => ledger[Len(ledger)].op = "lm_head"
    BY DEF IInv, LastIsAwaited, OfForward, Awaited
  <1>10. /\ Observed(metrics, ObserveWait(metrics, Len(ledger)))
         /\ ledger[Len(ledger)].st # "failed" =>
                ObserveWait(metrics, Len(ledger)).scalars = metrics.scalars
    BY <1>3, <1>5, ObserveEffect
  <1> QED
    BY <1>1, <1>2, <1>3, <1>4, <1>5, <1>7, <1>8, <1>9, <1>10

(* The final norm was seen to end well. *)
LEMMA NormAwaitedKeeps ==
    ASSUME IInv, pc = "await_norm", pc' = "lm_head",
           ledger[Len(ledger)].st = "ok", Observed(metrics, metrics'),
           UNCHANGED <<call, need, request, ledger, group, fwd, buf, rows, prefix,
                       poisoned, err, drainAt, drained, ret, calls>>
    PROVE  IInv'
  <1>0. /\ TypeOK /\ PoisonStops /\ LedgerSettled /\ LastIsAwaited
        /\ GroupSettled /\ GroupOfStep /\ FirstFailureKept /\ PlaceInForward
        /\ PrefixesInStep /\ HistoryCounted /\ InputsHeld /\ StepsMade
        /\ OutputsHeld /\ CachesWritten /\ PlanKept /\ CallPlaced
        /\ AttemptPlaced /\ Counted /\ RatesEarned /\ RowsPaired /\ RowsTruthful
    BY DEF IInv
  <1>1. /\ ~poisoned /\ \A i \in DOMAIN ledger : ledger[i].st = "ok"
    BY AwaitedToken DEF Awaited
  <1>2. LastDone
    BY DEF LastDone
  <1>3. PlanAccepted'
    BY <1>0 DEF PlanKept, PlanAccepted, Published, Forward
  <1>c1. TypeOK'
    BY <1>0 DEF TypeOK, Pcs, Published, Forward, Observed
  <1>c2. PoisonStops'
    BY <1>0 DEF PoisonStops
  <1>c3. LedgerSettled'
    BY <1>0, <1>1 DEF LedgerSettled, Awaited, PoisonStops
  <1>c4. LastIsAwaited'
    BY <1>0 DEF LastIsAwaited, Awaited, OfForward
  <1>c5. GroupSettled'
    BY <1>0 DEF GroupSettled
  <1>c6. GroupOfStep'
    BY <1>0 DEF GroupOfStep, OfForward
  <1>c7. FirstFailureKept'
    BY <1>0 DEF FirstFailureKept
  <1>c8. PlaceInForward'
    BY <1>0 DEF PlaceInForward, Published, Forward
  <1>c9. PrefixesInStep'
    BY <1>0 DEF PrefixesInStep, Published, Forward
  <1>c10. HistoryCounted'
    BY <1>0 DEF HistoryCounted, Published, Forward
  <1>c11. InputsHeld'
    BY <1>0 DEF InputsHeld, Holds, Value, LastDone
  <1>c12. StepsMade'
    BY <1>0 DEF StepsMade
  <1>c13. OutputsHeld'
    BY <1>0, <1>2 DEF OutputsHeld, Holds, Value
  <1>c14. CachesWritten'
    BY <1>0 DEF CachesWritten, Published, Forward, RowsWritten
  <1>c15. PlanKept'
    BY <1>0, <1>3 DEF PlanKept, Published, Forward
  <1>c16. CallPlaced'
    BY <1>0 DEF CallPlaced, InRequest, InSetup, NoCall, Published, Forward
  <1>c17. AttemptPlaced'
    BY <1>0 DEF AttemptPlaced, InRequest, InSetup, Published, Forward,
       Observed, SameAttempt
  <1>c18. Counted'
    BY <1>0 DEF Counted, Published, Forward, Observed, SameCounts
  <1>c19. RatesEarned'
    BY <1>0, <1>1 DEF RatesEarned, Observed, SameCounts
  <1>c20. RowsPaired'
    BY <1>0 DEF RowsPaired, Published, Forward, Observed, TypeOK, Recorders
  <1>c21. RowsTruthful'
    BY <1>0 DEF RowsTruthful, Observed
  <1> QED
    BY <1>c1, <1>c2, <1>c3, <1>c4, <1>c5, <1>c6, <1>c7, <1>c8, <1>c9, <1>c10,
       <1>c11, <1>c12, <1>c13, <1>c14, <1>c15, <1>c16, <1>c17, <1>c18, <1>c19,
       <1>c20, <1>c21 DEF IInv

(* The wait for the final norm. *)
LEMMA AwaitNormKeeps ==
    ASSUME IInv, AwaitNorm
    PROVE  IInv'
  <1>1. Awaited /\ pc = "await_norm"
    BY DEF AwaitNorm, Awaited
  <1>2. /\ Observed(metrics, ObserveWait(metrics, Len(ledger)))
        /\ ledger[Len(ledger)].op = "final_norm" /\ pc \in Published
    BY <1>1, AwaitedToken
  <1>3. /\ metrics' = ObserveWait(metrics, Len(ledger))
        /\ IF ledger[Len(ledger)].st = "ok" THEN pc' = "lm_head" /\ Steady
           ELSE Unwind(ledger[Len(ledger)].op)
        /\ UNCHANGED <<call, need, request, ledger, group, fwd, buf, rows, prefix,
                       ret, calls>>
    BY DEF AwaitNorm, WaitLast
  <1>4. CASE ledger[Len(ledger)].st = "ok"
    BY <1>1, <1>2, <1>3, <1>4, NormAwaitedKeeps DEF Steady
  <1>5. CASE ledger[Len(ledger)].st # "ok"
    <2>1. "final_norm" \in Failures
      BY DEF Failures, Ops
    <2> QED
      BY <1>1, <1>2, <1>3, <1>5, <2>1, Unwinds
  <1> QED
    BY <1>4, <1>5

(* A layer whose checks passed starts with its first step. *)
LEMMA LayerEnteredKeeps ==
    ASSUME IInv, pc = "layer", pc' = "step",
           fwd.layer = 0 => ledger[Len(ledger)].st = "ok",
           \A op \in {"rmsnorm", "rope"} : need[fwd.bank][op].bytes = 0,
           UNCHANGED <<call, need, request, ledger, group, fwd, buf, rows, prefix,
                       poisoned, err, drainAt, drained, ret, calls, metrics>>
    PROVE  IInv'
  <1>0. /\ TypeOK /\ PoisonStops /\ LedgerSettled /\ LastIsAwaited
        /\ GroupSettled /\ GroupOfStep /\ FirstFailureKept /\ PlaceInForward
        /\ PrefixesInStep /\ HistoryCounted /\ InputsHeld /\ StepsMade
        /\ OutputsHeld /\ CachesWritten /\ PlanKept /\ CallPlaced
        /\ AttemptPlaced /\ Counted /\ RatesEarned /\ RowsPaired /\ RowsTruthful
    BY DEF IInv
  <1>1. ~poisoned /\ \A i \in DOMAIN ledger : ledger[i].st = "ok"
    BY <1>0, AwaitedToken DEF Awaited, PoisonStops, LedgerSettled
  <1>2. /\ fwd.layer \in Nat /\ fwd.layer = 0 => Holds("x", 0)
        /\ fwd.layer # 0 => Holds(LayerInput(fwd.layer), fwd.layer)
    <2>1. fwd.layer \in Nat
      BY <1>0, ConfigFacts DEF TypeOK, Forwards
    <2> QED
      BY <1>0, <2>1 DEF InputsHeld, LastDone
  <1>3. Holds(LayerInput(fwd.layer), fwd.layer)
    BY <1>2 DEF LayerInput
  <1>4. PlanAccepted'
    BY <1>0 DEF PlanKept, PlanAccepted, Published, Forward
  <1>5. group = <<>> /\ fwd.step = 1 /\ fwd.layer < Config.L
    BY <1>0 DEF GroupSettled, PlaceInForward, Forward
  <1>6. \A op \in LayerOps : ~(StepOf(op) < fwd.step)
    <2>1. \A op \in LayerOps : StepOf(op) \in 1 .. 13
      BY StepMembers, Zenon
    <2> QED
      BY <1>5, <2>1
  <1>c1. TypeOK'
    BY <1>0 DEF TypeOK, Pcs, Published, Forward
  <1>c2. PoisonStops'
    BY <1>0 DEF PoisonStops
  <1>c3. LedgerSettled'
    BY <1>0, <1>1 DEF LedgerSettled, Awaited, PoisonStops
  <1>c4. LastIsAwaited'
    BY <1>0 DEF LastIsAwaited, Awaited, OfForward
  <1>c5. GroupSettled'
    BY <1>0, <1>5 DEF GroupSettled
  <1>c6. GroupOfStep'
    BY <1>0, <1>5, StepTable DEF GroupOfStep
  <1>c7. FirstFailureKept'
    BY <1>0 DEF FirstFailureKept
  <1>c8. PlaceInForward'
    BY <1>0, <1>5 DEF PlaceInForward, Published, Forward
  <1>c9. PrefixesInStep'
    BY <1>0 DEF PrefixesInStep, Published, Forward
  <1>c10. HistoryCounted'
    BY <1>0 DEF HistoryCounted, Published, Forward
  <1>c11. InputsHeld'
    BY <1>0, <1>3 DEF InputsHeld, Holds, Value
  <1>c12. StepsMade'
    BY <1>0, <1>5, <1>6 DEF StepsMade
  <1>c13. OutputsHeld'
    BY <1>0 DEF OutputsHeld, Holds, Value, LastDone
  <1>c14. CachesWritten'
    BY <1>0 DEF CachesWritten, Published, Forward, RowsWritten
  <1>c15. PlanKept'
    BY <1>0, <1>4 DEF PlanKept, Published, Forward
  <1>c16. CallPlaced'
    BY <1>0 DEF CallPlaced, InRequest, InSetup, NoCall, Published, Forward
  <1>c17. AttemptPlaced'
    BY <1>0 DEF AttemptPlaced, InRequest, InSetup, Published, Forward
  <1>c18. Counted'
    BY <1>0 DEF Counted, Published, Forward
  <1>c19. RatesEarned'
    BY <1>0 DEF RatesEarned
  <1>c20. RowsPaired'
    BY <1>0 DEF RowsPaired, Published, Forward
  <1>c21. RowsTruthful'
    BY <1>0 DEF RowsTruthful
  <1> QED
    BY <1>c1, <1>c2, <1>c3, <1>c4, <1>c5, <1>c6, <1>c7, <1>c8, <1>c9, <1>c10,
       <1>c11, <1>c12, <1>c13, <1>c14, <1>c15, <1>c16, <1>c17, <1>c18, <1>c19,
       <1>c20, <1>c21 DEF IInv

(* A layer is checked before anything of it is submitted. *)
LEMMA EnterLayerKeeps ==
    ASSUME IInv, EnterLayer
    PROVE  IInv'
  <1>1. /\ pc = "layer" /\ pc \in Published /\ pc # "step"
        /\ UNCHANGED <<call, need, request, ledger, group, fwd, buf, rows, prefix,
                       ret, calls, metrics>>
    BY DEF EnterLayer, Published, Forward
  <1>2. "invalid_argument" \in Failures /\ "embedding" \in Failures
    BY DEF Failures, Ops
  <1>3. CASE Unwind("invalid_argument")
    BY <1>1, <1>2, <1>3, Unwinds
  <1>4. CASE Unwind("embedding")
    BY <1>1, <1>2, <1>4, Unwinds
  <1>5. CASE ~Unwind("invalid_argument") /\ ~Unwind("embedding")
    <2> DEFINE v == make_layer_views(Config, fwd.bank, fwd.R, fwd.layer)
    <2> HIDE DEF v
    <2>1. /\ fwd.layer = 0 => /\ ledger[Len(ledger)].st # "pending"
                              /\ ledger[Len(ledger)].st # "failed"
          /\ StagesAccept(v) /\ pc' = "step" /\ Steady
      BY <1>5 DEF EnterLayer, v
    <2>2. fwd.layer = 0 => ledger[Len(ledger)].st = "ok"
      BY <1>1, <2>1, AwaitedToken DEF Awaited
    <2>3. \A op \in {"rmsnorm", "rope"} : need[fwd.bank][op].bytes = 0
      BY <2>1 DEF StagesAccept
    <2> QED
      BY <1>1, <2>1, <2>2, <2>3, LayerEnteredKeeps DEF Steady
  <1> QED
    BY <1>3, <1>4, <1>5

--------------------------------------------------------------------------------
(***************************************************************************)
(* The steps of a layer.                                                   *)
(***************************************************************************)
InnerOps == LayerOps \ {"append_k", "append_v", "residual"}

(* Every operation inside a layer has a tensor of its own, which is neither *)
(* the layer's input nor its output.                                       *)
LEMMA RolesDiffer ==
    /\ \A op \in InnerOps : Role(op) \in Roles \ {"x", "residual_after_mlp"}
    /\ \A o, p \in InnerOps : o # p => Role(o) # Role(p)
  <1> DEFINE opOf == [r \in Roles |->
                CASE r = "attention_norm" -> "norm1"
                  [] r = "q" -> "q"
                  [] r = "k" -> "k"
                  [] r = "v" -> "v"
                  [] r = "rotated_q" -> "rope_q"
                  [] r = "rotated_k" -> "rope_k"
                  [] r = "attention_merged" -> "sdpa"
                  [] r = "attention_output" -> "projection"
                  [] r = "residual_after_attention" -> "first_residual"
                  [] r = "mlp_norm" -> "norm2"
                  [] r = "gate" -> "gate"
                  [] r = "up" -> "up"
                  [] r = "silu" -> "silu"
                  [] r = "product" -> "mul"
                  [] r = "down" -> "down"
                  [] OTHER -> "none"]
  <1>1. /\ Role("norm1") = "attention_norm"
        /\ "attention_norm" \in Roles
        /\ opOf["attention_norm"] = "norm1"
    BY DEF Role, Roles
  <1>2. Role("q") = "q" /\ "q" \in Roles /\ opOf["q"] = "q"
    BY DEF Role, Roles
  <1>3. Role("k") = "k" /\ "k" \in Roles /\ opOf["k"] = "k"
    BY DEF Role, Roles
  <1>4. Role("v") = "v" /\ "v" \in Roles /\ opOf["v"] = "v"
    BY DEF Role, Roles
  <1>5. /\ Role("rope_q") = "rotated_q"
        /\ "rotated_q" \in Roles
        /\ opOf["rotated_q"] = "rope_q"
    BY DEF Role, Roles
  <1>6. /\ Role("rope_k") = "rotated_k"
        /\ "rotated_k" \in Roles
        /\ opOf["rotated_k"] = "rope_k"
    BY DEF Role, Roles
  <1>7. /\ Role("sdpa") = "attention_merged"
        /\ "attention_merged" \in Roles
        /\ opOf["attention_merged"] = "sdpa"
    BY DEF Role, Roles
  <1>8. /\ Role("projection") = "attention_output"
        /\ "attention_output" \in Roles
        /\ opOf["attention_output"] = "projection"
    BY DEF Role, Roles
  <1>9. /\ Role("first_residual") = "residual_after_attention"
        /\ "residual_after_attention" \in Roles
        /\ opOf["residual_after_attention"] = "first_residual"
    BY DEF Role, Roles
  <1>10. /\ Role("norm2") = "mlp_norm"
         /\ "mlp_norm" \in Roles
         /\ opOf["mlp_norm"] = "norm2"
    BY DEF Role, Roles
  <1>11. Role("gate") = "gate" /\ "gate" \in Roles /\ opOf["gate"] = "gate"
    BY DEF Role, Roles
  <1>12. Role("up") = "up" /\ "up" \in Roles /\ opOf["up"] = "up"
    BY DEF Role, Roles
  <1>13. Role("silu") = "silu" /\ "silu" \in Roles /\ opOf["silu"] = "silu"
    BY DEF Role, Roles
  <1>14. /\ Role("mul") = "product"
         /\ "product" \in Roles
         /\ opOf["product"] = "mul"
    BY DEF Role, Roles
  <1>15. Role("down") = "down" /\ "down" \in Roles /\ opOf["down"] = "down"
    BY DEF Role, Roles
  <1> HIDE DEF opOf
  <1>16. \A op \in InnerOps :
            op \in {"norm1", "q", "k", "v", "rope_q", "rope_k", "sdpa", "projection",
                    "first_residual", "norm2", "gate", "up", "silu", "mul", "down"}
    BY DEF InnerOps, LayerOps
  <1>17. \A op \in InnerOps : opOf[Role(op)] = op
    BY <1>1, <1>2, <1>3, <1>4, <1>5, <1>6, <1>7, <1>8, <1>9, <1>10, <1>11,
       <1>12, <1>13, <1>14, <1>15, <1>16
  <1>18. \A op \in InnerOps : Role(op) \in Roles \ {"x", "residual_after_mlp"}
    BY <1>1, <1>2, <1>3, <1>4, <1>5, <1>6, <1>7, <1>8, <1>9, <1>10, <1>11,
       <1>12, <1>13, <1>14, <1>15, <1>16
  <1> QED
    BY <1>17, <1>18

(* The tensor or the cache that an operation of the running layer writes. *)
Target(op) ==
    CASE op = "append_k" -> <<"key", fwd.layer>>
      [] op = "append_v" -> <<"value", fwd.layer>>
      [] op = "residual" -> <<fwd.bank, LayerOutput(fwd.layer)>>
      [] OTHER -> <<fwd.bank, Role(op)>>

(* ... in a form a proof can look up. *)
LEMMA TargetTable ==
    /\ Target("append_k") = <<"key", fwd.layer>>
    /\ Target("append_v") = <<"value", fwd.layer>>
    /\ Target("residual") = <<fwd.bank, LayerOutput(fwd.layer)>>
    /\ \A op \in InnerOps : Target(op) = <<fwd.bank, Role(op)>>
  BY DEF Target, InnerOps

(* An operation of the running layer writes its target. *)
LEMMA TargetOf ==
    ASSUME NEW t, NEW op \in LayerOps, OfForward(t, op, fwd.layer)
    PROVE  Writes(t) = Target(op)
  <1>1. t.op = op /\ t.bank = fwd.bank /\ t.layer = fwd.layer
    BY DEF OfForward
  <1>2. CASE op = "append_k"
    BY <1>1, <1>2, TargetTable, OperandTable
  <1>3. CASE op = "append_v"
    BY <1>1, <1>3, TargetTable, OperandTable
  <1>4. CASE op = "residual"
    BY <1>1, <1>4, TargetTable, OperandTable
  <1>5. CASE op = "norm1"
    <2>1. Writes(t) = <<t.bank, "attention_norm">>
      BY <1>1, <1>5, OperandTable
    <2>2. Target(op) = <<fwd.bank, "attention_norm">>
      BY <1>5 DEF Target, Role
    <2> QED
      BY <1>1, <2>1, <2>2
  <1>6. CASE op = "q"
    <2>1. Writes(t) = <<t.bank, "q">>
      BY <1>1, <1>6, OperandTable
    <2>2. Target(op) = <<fwd.bank, "q">>
      BY <1>6 DEF Target, Role
    <2> QED
      BY <1>1, <2>1, <2>2
  <1>7. CASE op = "k"
    <2>1. Writes(t) = <<t.bank, "k">>
      BY <1>1, <1>7, OperandTable
    <2>2. Target(op) = <<fwd.bank, "k">>
      BY <1>7 DEF Target, Role
    <2> QED
      BY <1>1, <2>1, <2>2
  <1>8. CASE op = "v"
    <2>1. Writes(t) = <<t.bank, "v">>
      BY <1>1, <1>8, OperandTable
    <2>2. Target(op) = <<fwd.bank, "v">>
      BY <1>8 DEF Target, Role
    <2> QED
      BY <1>1, <2>1, <2>2
  <1>9. CASE op = "rope_q"
    <2>1. Writes(t) = <<t.bank, "rotated_q">>
      BY <1>1, <1>9, OperandTable
    <2>2. Target(op) = <<fwd.bank, "rotated_q">>
      BY <1>9 DEF Target, Role
    <2> QED
      BY <1>1, <2>1, <2>2
  <1>10. CASE op = "rope_k"
    <2>1. Writes(t) = <<t.bank, "rotated_k">>
      BY <1>1, <1>10, OperandTable
    <2>2. Target(op) = <<fwd.bank, "rotated_k">>
      BY <1>10 DEF Target, Role
    <2> QED
      BY <1>1, <2>1, <2>2
  <1>11. CASE op = "sdpa"
    <2>1. Writes(t) = <<t.bank, "attention_merged">>
      BY <1>1, <1>11, OperandTable
    <2>2. Target(op) = <<fwd.bank, "attention_merged">>
      BY <1>11 DEF Target, Role
    <2> QED
      BY <1>1, <2>1, <2>2
  <1>12. CASE op = "projection"
    <2>1. Writes(t) = <<t.bank, "attention_output">>
      BY <1>1, <1>12, OperandTable
    <2>2. Target(op) = <<fwd.bank, "attention_output">>
      BY <1>12 DEF Target, Role
    <2> QED
      BY <1>1, <2>1, <2>2
  <1>13. CASE op = "first_residual"
    <2>1. Writes(t) = <<t.bank, "residual_after_attention">>
      BY <1>1, <1>13, OperandTable
    <2>2. Target(op) = <<fwd.bank, "residual_after_attention">>
      BY <1>13 DEF Target, Role
    <2> QED
      BY <1>1, <2>1, <2>2
  <1>14. CASE op = "norm2"
    <2>1. Writes(t) = <<t.bank, "mlp_norm">>
      BY <1>1, <1>14, OperandTable
    <2>2. Target(op) = <<fwd.bank, "mlp_norm">>
      BY <1>14 DEF Target, Role
    <2> QED
      BY <1>1, <2>1, <2>2
  <1>15. CASE op = "gate"
    <2>1. Writes(t) = <<t.bank, "gate">>
      BY <1>1, <1>15, OperandTable
    <2>2. Target(op) = <<fwd.bank, "gate">>
      BY <1>15 DEF Target, Role
    <2> QED
      BY <1>1, <2>1, <2>2
  <1>16. CASE op = "up"
    <2>1. Writes(t) = <<t.bank, "up">>
      BY <1>1, <1>16, OperandTable
    <2>2. Target(op) = <<fwd.bank, "up">>
      BY <1>16 DEF Target, Role
    <2> QED
      BY <1>1, <2>1, <2>2
  <1>17. CASE op = "silu"
    <2>1. Writes(t) = <<t.bank, "silu">>
      BY <1>1, <1>17, OperandTable
    <2>2. Target(op) = <<fwd.bank, "silu">>
      BY <1>17 DEF Target, Role
    <2> QED
      BY <1>1, <2>1, <2>2
  <1>18. CASE op = "mul"
    <2>1. Writes(t) = <<t.bank, "product">>
      BY <1>1, <1>18, OperandTable
    <2>2. Target(op) = <<fwd.bank, "product">>
      BY <1>18 DEF Target, Role
    <2> QED
      BY <1>1, <2>1, <2>2
  <1>19. CASE op = "down"
    <2>1. Writes(t) = <<t.bank, "down">>
      BY <1>1, <1>19, OperandTable
    <2>2. Target(op) = <<fwd.bank, "down">>
      BY <1>19 DEF Target, Role
    <2> QED
      BY <1>1, <2>1, <2>2
  <1> QED
    BY <1>2, <1>3, <1>4, <1>5, <1>6, <1>7, <1>8, <1>9, <1>10, <1>11, <1>12,
       <1>13, <1>14, <1>15, <1>16, <1>17, <1>18, <1>19 DEF LayerOps

(* No two operations of a layer write the same, and none writes its input. *)
LEMMA TargetsDiffer ==
    ASSUME fwd \in Forwards
    PROVE  /\ \A o, p \in LayerOps : o # p => Target(o) # Target(p)
           /\ \A op \in LayerOps : Target(op) # <<fwd.bank, LayerInput(fwd.layer)>>
           /\ \A op \in LayerOps : Target(op) \in Owners
                                    <=> op \notin {"append_k", "append_v"}
  <1>1. fwd.bank \in Banks /\ fwd.layer \in Nat
    BY ConfigFacts DEF Forwards
  <1>2. \A op \in LayerOps : \/ op \in InnerOps
                             \/ op = "append_k" \/ op = "append_v" \/ op = "residual"
    BY DEF InnerOps
  <1>3. /\ LayerOutput(fwd.layer) \in {"x", "residual_after_mlp"}
        /\ LayerInput(fwd.layer) \in {"x", "residual_after_mlp"}
        /\ LayerInput(fwd.layer) # LayerOutput(fwd.layer)
        /\ "x" \in Roles /\ "residual_after_mlp" \in Roles
    BY DEF LayerInput, LayerOutput, Roles
  <1>4. fwd.bank \notin {"key", "value"} /\ "key" # "value"
    BY <1>1 DEF Banks
  <1>5. /\ \A op \in InnerOps : Role(op) \in Roles \ {"x", "residual_after_mlp"}
        /\ \A o, p \in InnerOps : o # p => Role(o) # Role(p)
    BY RolesDiffer, Zenon
  <1>6. \A op \in LayerOps : Target(op) # <<fwd.bank, LayerInput(fwd.layer)>>
    BY <1>2, <1>3, <1>4, <1>5, TargetTable
  <1>7. \A op \in LayerOps : Target(op) \in Owners
                             <=> op \notin {"append_k", "append_v"}
    <2>1. \A op \in InnerOps : Target(op) \in Owners
      BY <1>1, <1>5, TargetTable, OwnerKinds
    <2>2. Target("residual") \in Owners
      BY <1>1, <1>3, TargetTable, OwnerKinds
    <2>3. Target("append_k") \notin Owners /\ Target("append_v") \notin Owners
      BY TargetTable, OwnerKinds
    <2>4. \A op \in InnerOps : op \notin {"append_k", "append_v"}
      BY DEF InnerOps
    <2> QED
      BY <1>2, <2>1, <2>2, <2>3, <2>4
  <1>8. ASSUME NEW o \in LayerOps, NEW p \in LayerOps, o # p
        PROVE  Target(o) # Target(p)
    <2>1. CASE o \in InnerOps /\ p \in InnerOps
      BY <1>5, <1>8, <2>1, TargetTable
    <2>2. CASE o \in InnerOps /\ p \notin InnerOps
      BY <1>2, <1>3, <1>4, <1>5, <2>2, TargetTable
    <2>3. CASE o \notin InnerOps /\ p \in InnerOps
      BY <1>2, <1>3, <1>4, <1>5, <2>3, TargetTable
    <2>4. CASE o \notin InnerOps /\ p \notin InnerOps
      BY <1>2, <1>4, <1>8, <2>4, TargetTable
    <2> QED
      BY <2>1, <2>2, <2>3, <2>4
  <1> QED
    BY <1>6, <1>7, <1>8

(* What the operations of a layer leave behind, in a form to look up. *)
LEMMA MadeTable ==
    /\ Made("append_k") = RowsWritten(<<"key", fwd.layer>>, fwd.a + fwd.R)
    /\ Made("append_v") = RowsWritten(<<"value", fwd.layer>>, fwd.a + fwd.R)
    /\ Made("residual") = Holds(LayerOutput(fwd.layer), fwd.layer + 1)
    /\ \A op \in InnerOps : Made(op) = Holds(Role(op), fwd.layer)
  BY DEF Made, InnerOps

(* A step that touches only w, and of a cache only the forward's own rows. *)
Frame(w) ==
    /\ \A o \in Owners : o # w => buf'[o] = buf[o]
    /\ \A o \in Caches : \A i \in 0 .. Config.C - 1 :
           o # w \/ i < fwd.a => rows'[o][i] = rows[o][i]

(* Such a step leaves what the other operations of the layer made. *)
LEMMA MadeFrame ==
    ASSUME fwd \in Forwards, fwd.layer \in Layers, fwd.a + fwd.R <= Config.C,
           UNCHANGED <<fwd, request>>, NEW w, Frame(w),
           NEW op \in LayerOps, Made(op), Target(op) # w
    PROVE  Made(op)'
  <1>0. fwd.a \in Nat /\ fwd.R \in Nat /\ Config.C \in Nat
    BY ConfigFacts DEF Forwards
  <1>1. ASSUME NEW o \in Caches, o # w, RowsWritten(o, fwd.a + fwd.R)
        PROVE  RowsWritten(o, fwd.a + fwd.R)'
    BY <1>0, <1>1 DEF RowsWritten, Frame
  <1>2. ASSUME NEW r, NEW l, <<fwd.bank, r>> \in Owners, <<fwd.bank, r>> # w,
               Holds(r, l)
        PROVE  Holds(r, l)'
    BY <1>2 DEF Holds, Value, Frame
  <1>3. CASE op = "append_k"
    <2>1. <<"key", fwd.layer>> \in Caches /\ <<"key", fwd.layer>> # w
      BY <1>3, OwnerKinds, TargetTable
    <2>2. RowsWritten(<<"key", fwd.layer>>, fwd.a + fwd.R)'
      BY <1>1, <1>3, <2>1, MadeTable
    <2> QED
      BY <1>3, <2>2 DEF Made
  <1>4. CASE op = "append_v"
    <2>1. <<"value", fwd.layer>> \in Caches /\ <<"value", fwd.layer>> # w
      BY <1>4, OwnerKinds, TargetTable
    <2>2. RowsWritten(<<"value", fwd.layer>>, fwd.a + fwd.R)'
      BY <1>1, <1>4, <2>1, MadeTable
    <2> QED
      BY <1>4, <2>2 DEF Made
  <1>5. CASE op = "residual"
    <2>1. /\ <<fwd.bank, LayerOutput(fwd.layer)>> \in Owners
          /\ <<fwd.bank, LayerOutput(fwd.layer)>> # w
      BY <1>5, TargetsDiffer, TargetTable
    <2>2. Holds(LayerOutput(fwd.layer), fwd.layer + 1)'
      BY <1>2, <1>5, <2>1, MadeTable
    <2> QED
      BY <1>5, <2>2 DEF Made
  <1>6. CASE op \in InnerOps
    <2>1. /\ <<fwd.bank, Role(op)>> \in Owners
          /\ <<fwd.bank, Role(op)>> # w /\ Holds(Role(op), fwd.layer)
      BY <1>6, TargetsDiffer, TargetTable, MadeTable DEF InnerOps
    <2>2. Holds(Role(op), fwd.layer)'
      BY <1>2, <2>1
    <2> QED
      BY <1>6, <2>2 DEF Made, InnerOps
  <1> QED
    BY <1>3, <1>4, <1>5, <1>6 DEF InnerOps

(* ... and the rows of the layers that are done. *)
LEMMA CachesFrame ==
    ASSUME fwd \in Forwards, fwd.a + fwd.R <= Config.C,
           UNCHANGED <<fwd, request>>, NEW w, Frame(w),
           w \in Caches => w[2] = fwd.layer,
           NEW o \in Caches,
           RowsWritten(o, IF o[2] < fwd.layer THEN fwd.a + fwd.R ELSE fwd.a)
    PROVE  RowsWritten(o, IF o[2] < fwd.layer THEN fwd.a + fwd.R ELSE fwd.a)'
  <1>0. /\ fwd.a \in Nat /\ fwd.R \in Nat /\ Config.C \in Nat
        /\ fwd.layer \in Nat /\ o[2] \in Nat
    BY ConfigFacts DEF Forwards, Caches, Layers
  <1>1. CASE o[2] < fwd.layer
    <2>1. o # w
      BY <1>0, <1>1
    <2> QED
      BY <1>0, <1>1, <2>1 DEF RowsWritten, Frame
  <1>2. CASE ~(o[2] < fwd.layer)
    BY <1>0, <1>2 DEF RowsWritten, Frame
  <1> QED
    BY <1>1, <1>2

(* A member of the running step disturbs only what it writes. *)
LEMMA MemberFrame ==
    ASSUME IInv, pc = "step", UNCHANGED <<fwd, request>>, NEW op \in LayerOps,
           Frame(Target(op))
    PROVE  /\ \A o \in LayerOps : o # op /\ Made(o) => Made(o)'
           /\ Holds(LayerInput(fwd.layer), fwd.layer)'
           /\ \A o \in Caches : RowsWritten(o, IF o[2] < fwd.layer
                                               THEN fwd.a + fwd.R ELSE fwd.a)'
  <1>1. /\ fwd \in Forwards /\ fwd.layer \in Layers /\ fwd.bank \in Banks
        /\ fwd.a + fwd.R <= Config.C
    <2>1. fwd.layer < Config.L /\ fwd.a + fwd.R <= Config.C
      BY DEF IInv, PlaceInForward, Published, Forward
    <2>2. fwd \in Forwards
      BY DEF IInv, TypeOK
    <2> QED
      BY <2>1, <2>2, ConfigFacts DEF Forwards, Layers
  <1>2. /\ \A o, p \in LayerOps : o # p => Target(o) # Target(p)
        /\ \A p \in LayerOps : Target(p) # <<fwd.bank, LayerInput(fwd.layer)>>
    BY <1>1, TargetsDiffer
  <1>3. Holds(LayerInput(fwd.layer), fwd.layer)'
    <2>1. LayerInput(fwd.layer) \in Roles
      BY DEF LayerInput, Roles
    <2>2. <<fwd.bank, LayerInput(fwd.layer)>> \in Owners
      BY <1>1, <2>1, OwnerKinds
    <2>3. Holds(LayerInput(fwd.layer), fwd.layer)
      BY DEF IInv, InputsHeld
    <2> QED
      BY <1>2, <2>2, <2>3 DEF Holds, Value, Frame
  <1>4. Target(op) \in Caches => Target(op)[2] = fwd.layer
    <2>1. op \in {"append_k", "append_v"} \/ Target(op) \in Owners
      BY <1>1, TargetsDiffer
    <2> QED
      BY <2>1, TargetTable, OwnerKinds
  <1>5. \A o \in Caches : RowsWritten(o, IF o[2] < fwd.layer
                                         THEN fwd.a + fwd.R ELSE fwd.a)
    BY DEF IInv, CachesWritten, Forward
  <1>6. \A o \in Caches : RowsWritten(o, IF o[2] < fwd.layer
                                         THEN fwd.a + fwd.R ELSE fwd.a)'
    BY <1>1, <1>4, <1>5, CachesFrame
  <1>7. \A o \in LayerOps : o # op /\ Made(o) => Made(o)'
    BY <1>1, <1>2, MadeFrame
  <1> QED
    BY <1>3, <1>6, <1>7

(* The members of the running step, and what the layer may count on. *)
LEMMA InStep ==
    ASSUME IInv, pc = "step"
    PROVE  /\ ~poisoned /\ \A i \in DOMAIN ledger : ledger[i].st = "ok"
           /\ fwd \in Forwards /\ fwd.step \in 1 .. 13 /\ fwd.layer \in Layers
           /\ fwd.layer \in Nat /\ fwd.bank \in Banks
           /\ fwd.a \in Nat /\ fwd.R \in Nat /\ fwd.a + fwd.R <= Config.C
           /\ group \in Seq(Members)
           /\ Len(group) \in Nat /\ DOMAIN group = 1 .. Len(group)
           /\ Len(LayerSteps[fwd.step]) \in 1 .. 3
           /\ Len(group) <= Len(LayerSteps[fwd.step])
           /\ \A i \in DOMAIN group :
                  OfForward(group[i], LayerSteps[fwd.step][i], fwd.layer)
           /\ \A i \in 1 .. Len(LayerSteps[fwd.step]) :
                  /\ LayerSteps[fwd.step][i] \in LayerOps
                  /\ StepOf(LayerSteps[fwd.step][i]) = fwd.step
  <1>1. ~poisoned /\ \A i \in DOMAIN ledger : ledger[i].st = "ok"
    BY DEF IInv, PoisonStops, LedgerSettled, Awaited
  <1>2. fwd \in Forwards /\ group \in Seq(Members)
    BY DEF IInv, TypeOK
  <1>3. fwd.layer < Config.L /\ fwd.a + fwd.R <= Config.C
    BY DEF IInv, PlaceInForward, Published, Forward
  <1>4. /\ fwd.step \in 1 .. 13 /\ fwd.layer \in Layers /\ fwd.layer \in Nat
        /\ fwd.bank \in Banks /\ fwd.a \in Nat /\ fwd.R \in Nat
    BY <1>2, <1>3, ConfigFacts DEF Forwards, Layers
  <1>5. /\ Len(LayerSteps[fwd.step]) \in 1 .. 3
        /\ \A i \in 1 .. Len(LayerSteps[fwd.step]) :
               /\ LayerSteps[fwd.step][i] \in LayerOps
               /\ StepOf(LayerSteps[fwd.step][i]) = fwd.step
    BY <1>4, StepMembers, Zenon
  <1>6. /\ Len(group) <= Len(LayerSteps[fwd.step])
        /\ \A i \in DOMAIN group :
               OfForward(group[i], LayerSteps[fwd.step][i], fwd.layer)
    BY DEF IInv, GroupOfStep
  <1>7. Len(group) \in Nat /\ DOMAIN group = 1 .. Len(group)
    BY <1>2
  <1> QED
    BY <1>1, <1>2, <1>3, <1>4, <1>5, <1>6, <1>7

(* A member of a step is submitted or refused. *)
LEMMA SubmitMemberKeeps ==
    ASSUME IInv, SubmitMember
    PROVE  IInv'
  <1>0. /\ TypeOK /\ PoisonStops /\ LedgerSettled /\ LastIsAwaited
        /\ GroupSettled /\ GroupOfStep /\ FirstFailureKept /\ PlaceInForward
        /\ PrefixesInStep /\ HistoryCounted /\ InputsHeld /\ StepsMade
        /\ OutputsHeld /\ CachesWritten /\ PlanKept /\ CallPlaced
        /\ AttemptPlaced /\ Counted /\ RatesEarned /\ RowsPaired /\ RowsTruthful
    BY DEF IInv
  <1>1. /\ pc = "step" /\ pc' = pc /\ Len(group) < Len(LayerSteps[fwd.step])
        /\ UNCHANGED <<call, need, request, ledger, fwd, prefix, poisoned, err,
                       drainAt, drained, ret, calls, metrics>>
    BY DEF SubmitMember, Steady
  <1> DEFINE op == LayerSteps[fwd.step][Len(group) + 1]
  <1>2. PICK st \in {"pending", "rejected"} :
            /\ group' = Append(group, Token(op, fwd.layer, st))
            /\ IF st = "pending" THEN Spoil(Token(op, fwd.layer, st))
               ELSE UNCHANGED <<buf, rows>>
    BY DEF SubmitMember
  <1> DEFINE t == Token(op, fwd.layer, st)
  <1>3. /\ fwd \in Forwards /\ fwd.layer \in Layers /\ fwd.bank \in Banks
        /\ fwd.layer \in Nat /\ fwd.a \in Nat /\ fwd.R \in Nat
        /\ group \in Seq(Members)
        /\ Len(group) \in Nat /\ DOMAIN group = 1 .. Len(group)
        /\ Len(LayerSteps[fwd.step]) \in 1 .. 3
        /\ \A i \in DOMAIN group :
               OfForward(group[i], LayerSteps[fwd.step][i], fwd.layer)
    BY <1>1, InStep
  <1>4. op \in LayerOps /\ StepOf(op) = fwd.step
    <2>1. Len(group) + 1 \in 1 .. Len(LayerSteps[fwd.step])
      BY <1>1, <1>3
    <2> QED
      BY <1>1, <2>1, InStep
  <1> HIDE DEF op
  <1>5. t = [op |-> op, ordinal |-> request.ordinal, bank |-> fwd.bank,
             a |-> fwd.a, R |-> fwd.R, layer |-> fwd.layer, st |-> st]
    BY DEF Token
  <1>6. t \in Members
    <2>1. request.ordinal \in Nat
      BY <1>0 DEF TypeOK, Requests
    <2>2. op \in Ops
      BY <1>4 DEF Ops
    <2> QED
      BY <1>3, <1>5, <2>1, <2>2 DEF Members, Tokens
  <1>7. OfForward(t, op, fwd.layer) /\ t.st = st /\ t.a = fwd.a /\ t.op = op
    BY <1>5 DEF OfForward
  <1> HIDE DEF t
  <1>8. Writes(t) = Target(op)
    BY <1>4, <1>7, TargetOf
  <1>9. buf' \in BufType /\ rows' \in RowsType /\ Frame(Target(op))
    <2>1. buf \in BufType /\ rows \in RowsType
      BY <1>0 DEF TypeOK, BufType, RowsType
    <2>2. CASE st = "pending"
      <3>1. Spoil(t)
        BY <1>2, <2>2 DEF t
      <3>2. t.op \in LayerOps => t.layer \in Layers
        BY <1>3, <1>7 DEF OfForward
      <3>3. /\ buf' \in BufType /\ rows' \in RowsType
            /\ \A o \in Owners : o # Writes(t) => buf'[o] = buf[o]
            /\ \A o \in Caches : \A i \in 0 .. Config.C - 1 :
                   o # Writes(t) \/ i < t.a => rows'[o][i] = rows[o][i]
        BY <1>6, <2>1, <3>1, <3>2, SpoilEffect
      <3> QED
        BY <1>7, <1>8, <3>3 DEF Frame
    <2>3. CASE st # "pending"
      BY <1>2, <2>1, <2>3 DEF Frame
    <2> QED
      BY <2>2, <2>3
  <1>10. /\ \A o \in LayerOps : o # op /\ Made(o) => Made(o)'
         /\ Holds(LayerInput(fwd.layer), fwd.layer)'
         /\ \A o \in Caches : RowsWritten(o, IF o[2] < fwd.layer
                                             THEN fwd.a + fwd.R ELSE fwd.a)'
    BY <1>1, <1>4, <1>9, MemberFrame
  <1>11. /\ group' \in Seq(Members) /\ Len(group') = Len(group) + 1
         /\ DOMAIN group' = 1 .. Len(group) + 1
         /\ \A i \in DOMAIN group : group'[i] = group[i]
         /\ group'[Len(group) + 1] = t
    BY <1>2, <1>3, <1>6 DEF t
  <1>12. \A i \in DOMAIN group' :
            OfForward(group[i], LayerSteps[fwd.step][i], fwd.layer)'
    <2>1. \A i \in DOMAIN group : i # Len(group) + 1
      BY <1>3
    <2>2. \A i \in DOMAIN group :
             OfForward(group'[i], LayerSteps[fwd.step][i], fwd.layer)
      BY <1>3, <1>11
    <2>3. OfForward(group'[Len(group) + 1], op, fwd.layer)
      BY <1>7, <1>11
    <2>4. \A i \in DOMAIN group' :
             OfForward(group'[i], LayerSteps[fwd.step][i], fwd.layer)
      BY <1>3, <1>11, <2>2, <2>3 DEF op
    <2> QED
      BY <1>1, <2>4 DEF OfForward
  <1>13. \A i \in DOMAIN group' : group'[i].st = "ok" =>
            i \in DOMAIN group /\ Made(group[i].op) /\ group[i].op # op
    <2>1. \A i \in DOMAIN group' : group'[i].st = "ok" => i \in DOMAIN group
      BY <1>2, <1>3, <1>7, <1>11
    <2>2. ASSUME NEW i \in DOMAIN group, group'[i].st = "ok"
          PROVE  Made(group[i].op) /\ group[i].op # op
      <3>1. Made(group[i].op)
        BY <1>0, <1>1, <1>11, <2>2 DEF StepsMade
      <3>2. group[i].op = LayerSteps[fwd.step][i]
        BY <1>3 DEF OfForward
      <3>3. /\ i \in 1 .. Len(LayerSteps[fwd.step]) /\ i # Len(group) + 1
            /\ Len(group) + 1 \in 1 .. Len(LayerSteps[fwd.step])
        BY <1>1, <1>3
      <3>4. fwd.step \in 1 .. 13
        BY <1>3 DEF Forwards
      <3>5. LayerSteps[fwd.step][i] # LayerSteps[fwd.step][Len(group) + 1]
        BY <3>3, <3>4, StepMembers, Zenon
      <3> QED
        BY <3>1, <3>2, <3>5 DEF op
    <2> QED
      BY <2>1, <2>2
  <1>14. \A i \in DOMAIN group : group[i].op \in LayerOps
    <2>1. \A i \in DOMAIN group : i \in 1 .. Len(LayerSteps[fwd.step])
      BY <1>1, <1>3
    <2>2. \A i \in DOMAIN group : LayerSteps[fwd.step][i] \in LayerOps
      BY <1>1, <2>1, InStep
    <2> QED
      BY <1>3, <2>2 DEF OfForward
  <1>15. PlanAccepted'
    BY <1>0, <1>1 DEF PlanKept, PlanAccepted, Published, Forward
  <1>c1. TypeOK'
    BY <1>0, <1>1, <1>9, <1>11 DEF TypeOK, Pcs, Published, Forward, BufType,
       RowsType
  <1>c2. PoisonStops'
    BY <1>0, <1>1 DEF PoisonStops
  <1>c3. LedgerSettled'
    BY <1>0, <1>1 DEF LedgerSettled, Awaited, PoisonStops
  <1>c4. LastIsAwaited'
    BY <1>0, <1>1 DEF LastIsAwaited, Awaited, OfForward
  <1>c5. GroupSettled'
    BY <1>0, <1>1 DEF GroupSettled
  <1>c6. GroupOfStep'
    BY <1>0, <1>1, <1>3, <1>11, <1>12 DEF GroupOfStep
  <1>c7. FirstFailureKept'
    BY <1>0, <1>1 DEF FirstFailureKept
  <1>c8. PlaceInForward'
    BY <1>0, <1>1 DEF PlaceInForward, Published, Forward
  <1>c9. PrefixesInStep'
    BY <1>0, <1>1 DEF PrefixesInStep, Published, Forward
  <1>c10. HistoryCounted'
    BY <1>0, <1>1 DEF HistoryCounted, Published, Forward
  <1>c11. InputsHeld'
    BY <1>0, <1>1, <1>10 DEF InputsHeld
  <1>c12. StepsMade'
    <2>1. ASSUME NEW o \in LayerOps, StepOf(o) < fwd.step
          PROVE  Made(o)'
      <3>1. o # op
        BY <1>3, <1>4, <2>1 DEF Forwards
      <3> QED
        BY <1>0, <1>1, <1>10, <2>1, <3>1 DEF StepsMade
    <2>2. \A i \in DOMAIN group' : group'[i].st = "ok" => Made(group[i].op)'
      <3>1. ASSUME NEW i \in DOMAIN group', group'[i].st = "ok"
            PROVE  Made(group[i].op)'
        <4>1. /\ i \in DOMAIN group /\ Made(group[i].op) /\ group[i].op # op
              /\ group[i].op \in LayerOps /\ group'[i] = group[i]
          BY <1>11, <1>13, <1>14, <3>1
        <4> DEFINE o == group[i].op
        <4>2. Made(o)'
          BY <1>10, <4>1
        <4> QED
          BY <1>1, <4>1, <4>2
      <3> QED
        BY <3>1
    <2> QED
      BY <1>1, <2>1, <2>2 DEF StepsMade
  <1>c13. OutputsHeld'
    BY <1>0, <1>1 DEF OutputsHeld
  <1>c14. CachesWritten'
    BY <1>0, <1>1, <1>10 DEF CachesWritten, Forward
  <1>c15. PlanKept'
    BY <1>0, <1>1, <1>15 DEF PlanKept, Published, Forward
  <1>c16. CallPlaced'
    BY <1>0, <1>1 DEF CallPlaced, InRequest, InSetup, NoCall, Published,
       Forward
  <1>c17. AttemptPlaced'
    BY <1>0, <1>1 DEF AttemptPlaced, InRequest, InSetup, Published, Forward
  <1>c18. Counted'
    BY <1>0, <1>1 DEF Counted, Published, Forward
  <1>c19. RatesEarned'
    BY <1>0, <1>1 DEF RatesEarned
  <1>c20. RowsPaired'
    BY <1>0, <1>1 DEF RowsPaired, Published, Forward
  <1>c21. RowsTruthful'
    BY <1>0, <1>1 DEF RowsTruthful
  <1> QED
    BY <1>c1, <1>c2, <1>c3, <1>c4, <1>c5, <1>c6, <1>c7, <1>c8, <1>c9, <1>c10,
       <1>c11, <1>c12, <1>c13, <1>c14, <1>c15, <1>c16, <1>c17, <1>c18, <1>c19,
       <1>c20, <1>c21 DEF IInv

(* A step has at most three members, so a first and a last broken one. *)
LEMMA FirstAndLast ==
    ASSUME NEW S \in SUBSET (1 .. 3), S # {}
    PROVE  Min(S) \in S /\ Max(S) \in S
  <1>0. \A y \in S : y = 1 \/ y = 2 \/ y = 3
    OBVIOUS
  <1>a. PICK z \in S : TRUE
    OBVIOUS
  <1>1. \E x \in S : \A y \in S : x =< y
    <2>1. CASE 1 \in S
      BY <1>0, <2>1
    <2>2. CASE 1 \notin S /\ 2 \in S
      BY <1>0, <2>2
    <2>3. CASE 1 \notin S /\ 2 \notin S
      BY <1>0, <1>a, <2>3
    <2> QED
      BY <2>1, <2>2, <2>3
  <1>2. \E x \in S : \A y \in S : x >= y
    <2>1. CASE 3 \in S
      BY <1>0, <2>1
    <2>2. CASE 3 \notin S /\ 2 \in S
      BY <1>0, <2>2
    <2>3. CASE 3 \notin S /\ 2 \notin S
      BY <1>0, <1>a, <2>3
    <2> QED
      BY <2>1, <2>2, <2>3
  <1> QED
    BY <1>1, <1>2 DEF Min, Max

(* A step with a broken member unwinds once all its members have ended. *)
LEMMA StepFailsKeeps ==
    ASSUME IInv, StepFails
    PROVE  IInv'
  <1>1. /\ pc = "step" /\ Broken # {} /\ Unwind(GroupFailure)
        /\ Pending(group) = {}
        /\ UNCHANGED <<call, need, request, ledger, group, fwd, buf, rows, prefix,
                       ret, calls, metrics>>
    BY DEF StepFails, StepWaited
  <1>2. \A i \in DOMAIN group : group[i].st # "pending"
    BY <1>1 DEF Pending
  <1>3. /\ group \in Seq(Members) /\ DOMAIN group \subseteq 1 .. 3
    BY <1>1, InStep
  <1>4. /\ Broken \in SUBSET (1 .. 3) /\ Refused \in SUBSET (1 .. 3)
        /\ Broken \subseteq DOMAIN group /\ Refused \subseteq DOMAIN group
    BY <1>3 DEF Broken, Refused
  <1>5. Min(Broken) \in DOMAIN group
    BY <1>1, <1>4, FirstAndLast
  <1>6. Refused # {} => Max(Refused) \in DOMAIN group
    BY <1>4, FirstAndLast
  <1>7. \A i \in DOMAIN group : group[i].op \in Failures
    <2>1. \A i \in DOMAIN group : group[i] \in Members
      BY <1>3
    <2>2. \A i \in DOMAIN group : group[i].op \in Ops
      BY <2>1 DEF Members, Tokens
    <2> QED
      BY <2>2 DEF Failures
  <1>8. GroupFailure \in Failures
    BY <1>5, <1>6, <1>7 DEF GroupFailure
  <1>9. LayerSteps[fwd.step] # <<"gate", "up">> =>
            GroupFailure = group[Min(Broken)].op
    BY DEF GroupFailure
  <1>10. pc \in Published
    BY <1>1 DEF Published, Forward
  <1> DEFINE f == GroupFailure
  <1> HIDE DEF f
  <1>11. f \in Failures /\ Unwind(f)
         /\ (LayerSteps[fwd.step] # <<"gate", "up">> => f = group[Min(Broken)].op)
    BY <1>1, <1>8, <1>9 DEF f
  <1> QED
    BY <1>1, <1>2, <1>10, <1>11, Unwinds

(* What a step leaves once all its members ended well. *)
LEMMA StepDone ==
    ASSUME IInv, StepWaited, Broken = {}
    PROVE  \A op \in LayerOps : StepOf(op) < fwd.step + 1 => Made(op)
  <1>1. /\ pc = "step" /\ Len(group) = Len(LayerSteps[fwd.step])
        /\ \A i \in DOMAIN group : group[i].st # "pending"
    BY DEF StepWaited, Pending
  <1>2. /\ group \in Seq(Members) /\ fwd.step \in 1 .. 13
        /\ DOMAIN group = 1 .. Len(group)
        /\ \A i \in DOMAIN group :
               OfForward(group[i], LayerSteps[fwd.step][i], fwd.layer)
    BY <1>1, InStep
  <1>3. \A i \in DOMAIN group : group[i].st = "ok"
    <2>1. \A i \in DOMAIN group : group[i] \in Members
      BY <1>2
    <2>2. \A i \in DOMAIN group :
             group[i].st \in {"pending", "ok", "failed", "rejected"}
      BY <2>1 DEF Members, Tokens
    <2> QED
      BY <1>1, <2>2 DEF Broken
  <1>4. SUFFICES ASSUME NEW op \in LayerOps, StepOf(op) < fwd.step + 1
                 PROVE  Made(op)
    OBVIOUS
  <1>5. /\ StepOf(op) \in 1 .. 13
        /\ \E i \in 1 .. Len(LayerSteps[StepOf(op)]) :
               LayerSteps[StepOf(op)][i] = op
    BY StepMembers, Zenon
  <1>6. CASE StepOf(op) < fwd.step
    BY <1>1, <1>6 DEF IInv, StepsMade
  <1>7. CASE StepOf(op) = fwd.step
    <2>1. PICK i \in DOMAIN group : LayerSteps[fwd.step][i] = op
      BY <1>1, <1>2, <1>5, <1>7
    <2>2. group[i].op = op /\ group[i].st = "ok"
      BY <1>2, <1>3, <2>1 DEF OfForward
    <2> QED
      BY <1>1, <2>2 DEF IInv, StepsMade
  <1> QED
    BY <1>2, <1>4, <1>5, <1>6, <1>7

(* The layer goes on to its next step. *)
LEMMA NextStepKeeps ==
    ASSUME IInv, StepWaited, Broken = {}, group' = <<>>, fwd.step < 13,
           fwd' = [fwd EXCEPT !.step = @ + 1],
           UNCHANGED <<pc, prefix, call, need, request, ledger, buf, rows, ret,
                       calls, metrics, poisoned, err, drainAt, drained>>
    PROVE  IInv'
  <1>0. /\ TypeOK /\ PoisonStops /\ LedgerSettled /\ LastIsAwaited
        /\ GroupSettled /\ GroupOfStep /\ FirstFailureKept /\ PlaceInForward
        /\ PrefixesInStep /\ HistoryCounted /\ InputsHeld /\ StepsMade
        /\ OutputsHeld /\ CachesWritten /\ PlanKept /\ CallPlaced
        /\ AttemptPlaced /\ Counted /\ RatesEarned /\ RowsPaired /\ RowsTruthful
    BY DEF IInv
  <1>1. pc = "step"
    BY DEF StepWaited
  <1>2. /\ fwd \in Forwards /\ fwd.step \in 1 .. 13
        /\ Len(LayerSteps[fwd.step]) \in 1 .. 3
    BY <1>1, InStep
  <1>3. /\ fwd' \in Forwards /\ fwd'.step = fwd.step + 1
        /\ fwd'.layer = fwd.layer /\ fwd'.a = fwd.a /\ fwd'.R = fwd.R
        /\ fwd'.bank = fwd.bank
    BY <1>2 DEF Forwards
  <1>4. \A op \in LayerOps : StepOf(op) < fwd.step + 1 => Made(op)
    BY StepDone
  <1>5. \A op : Made(op)' = Made(op)
    BY <1>3 DEF Made, RowsWritten, Holds, Value
  <1>6. Len(LayerSteps[fwd.step + 1]) \in 1 .. 3
    <2>1. fwd.step + 1 \in 1 .. 13
      BY <1>2
    <2> QED
      BY <2>1, StepMembers
  <1>7. PlanAccepted'
    BY <1>0, <1>1 DEF PlanKept, PlanAccepted, Published, Forward
  <1>c1. TypeOK'
    BY <1>0, <1>1, <1>3 DEF TypeOK, Pcs, Published, Forward
  <1>c2. PoisonStops'
    BY <1>0, <1>1, <1>3 DEF PoisonStops
  <1>c3. LedgerSettled'
    BY <1>0, <1>1, <1>3 DEF LedgerSettled, Awaited, PoisonStops
  <1>c4. LastIsAwaited'
    BY <1>0, <1>1, <1>3 DEF LastIsAwaited, Awaited, OfForward
  <1>c5. GroupSettled'
    BY <1>0, <1>1, <1>3 DEF GroupSettled
  <1>c6. GroupOfStep'
    BY <1>0, <1>1, <1>3, <1>6 DEF GroupOfStep
  <1>c7. FirstFailureKept'
    BY <1>0, <1>1, <1>3 DEF FirstFailureKept
  <1>c8. PlaceInForward'
    BY <1>0, <1>1, <1>3 DEF PlaceInForward, Published, Forward
  <1>c9. PrefixesInStep'
    BY <1>0, <1>1, <1>3 DEF PrefixesInStep, Published, Forward
  <1>c10. HistoryCounted'
    BY <1>0, <1>1, <1>3 DEF HistoryCounted, Published, Forward
  <1>c11. InputsHeld'
    BY <1>0, <1>1, <1>3 DEF InputsHeld, Holds, Value, LastDone
  <1>c12. StepsMade'
    BY <1>0, <1>1, <1>3, <1>4, <1>5 DEF StepsMade
  <1>c13. OutputsHeld'
    BY <1>0, <1>1, <1>3 DEF OutputsHeld, Holds, Value, LastDone
  <1>c14. CachesWritten'
    BY <1>0, <1>1, <1>3 DEF CachesWritten, Published, Forward, RowsWritten
  <1>c15. PlanKept'
    BY <1>0, <1>1, <1>3, <1>7 DEF PlanKept, Published, Forward
  <1>c16. CallPlaced'
    BY <1>0, <1>1, <1>3 DEF CallPlaced, InRequest, InSetup, NoCall, Published,
       Forward
  <1>c17. AttemptPlaced'
    BY <1>0, <1>1, <1>3 DEF AttemptPlaced, InRequest, InSetup, Published,
       Forward
  <1>c18. Counted'
    BY <1>0, <1>1, <1>3 DEF Counted, Published, Forward
  <1>c19. RatesEarned'
    BY <1>0, <1>1, <1>3 DEF RatesEarned
  <1>c20. RowsPaired'
    BY <1>0, <1>1, <1>3 DEF RowsPaired, Published, Forward
  <1>c21. RowsTruthful'
    BY <1>0, <1>1, <1>3 DEF RowsTruthful
  <1> QED
    BY <1>c1, <1>c2, <1>c3, <1>c4, <1>c5, <1>c6, <1>c7, <1>c8, <1>c9, <1>c10,
       <1>c11, <1>c12, <1>c13, <1>c14, <1>c15, <1>c16, <1>c17, <1>c18, <1>c19,
       <1>c20, <1>c21 DEF IInv

(* The last step publishes the rows of the layer's cache. *)
LEMMA LayerDoneKeeps ==
    ASSUME IInv, StepWaited, Broken = {}, group' = <<>>, ~(fwd.step < 13),
           prefix' = [prefix EXCEPT ![fwd.layer] = fwd.a + fwd.R],
           fwd' = [fwd EXCEPT !.step = 1, !.layer = @ + 1],
           pc' = (IF fwd.layer + 1 < Config.L THEN "layer" ELSE "final_norm"),
           UNCHANGED <<call, need, request, ledger, buf, rows, ret, calls,
                       metrics, poisoned, err, drainAt, drained>>
    PROVE  IInv'
  <1>0. /\ TypeOK /\ PoisonStops /\ LedgerSettled /\ LastIsAwaited
        /\ GroupSettled /\ GroupOfStep /\ FirstFailureKept /\ PlaceInForward
        /\ PrefixesInStep /\ HistoryCounted /\ InputsHeld /\ StepsMade
        /\ OutputsHeld /\ CachesWritten /\ PlanKept /\ CallPlaced
        /\ AttemptPlaced /\ Counted /\ RatesEarned /\ RowsPaired /\ RowsTruthful
    BY DEF IInv
  <1>1. pc = "step"
    BY DEF StepWaited
  <1>2. /\ fwd \in Forwards /\ fwd.step = 13 /\ fwd.layer \in Layers
        /\ fwd.layer \in Nat /\ fwd.a \in Nat /\ fwd.R \in Nat
        /\ ~poisoned /\ \A i \in DOMAIN ledger : ledger[i].st = "ok"
    <2>1. /\ fwd \in Forwards /\ fwd.step \in 1 .. 13 /\ fwd.layer \in Layers
          /\ fwd.layer \in Nat /\ fwd.a \in Nat /\ fwd.R \in Nat
          /\ ~poisoned /\ \A i \in DOMAIN ledger : ledger[i].st = "ok"
      BY <1>1, InStep
    <2>2. fwd.step = 13
      BY <2>1
    <2> QED
      BY <2>1, <2>2
  <1>3. /\ fwd.layer + 1 \in Nat /\ fwd.layer + 1 \in 0 .. Config.L
        /\ fwd.layer + 1 # 0
        /\ ~(fwd.layer + 1 < Config.L) => fwd.layer + 1 = Config.L
    BY <1>2, ConfigFacts DEF Layers
  <1>4. /\ fwd' \in Forwards /\ fwd'.step = 1
        /\ fwd'.layer = fwd.layer + 1 /\ fwd'.a = fwd.a /\ fwd'.R = fwd.R
        /\ fwd'.bank = fwd.bank
    <2> DEFINE n == fwd.layer + 1
    <2>1. fwd' = [fwd EXCEPT !.step = 1, !.layer = n] /\ n \in 0 .. Config.L
      BY <1>3
    <2> HIDE DEF n
    <2>2. fwd \in Forwards /\ 1 \in 1 .. 13
      BY <1>2
    <2>3. fwd' \in Forwards
      BY <2>1, <2>2 DEF Forwards
    <2>4. /\ fwd'.step = 1 /\ fwd'.layer = n /\ fwd'.a = fwd.a /\ fwd'.R = fwd.R
          /\ fwd'.bank = fwd.bank
      BY <2>1, <2>2 DEF Forwards
    <2> QED
      BY <2>3, <2>4 DEF n
  <1>5. \A op \in LayerOps : Made(op)
    <2>1. \A op \in LayerOps : StepOf(op) < fwd.step + 1 => Made(op)
      BY StepDone
    <2>2. \A op \in LayerOps : StepOf(op) \in 1 .. 13
      BY StepMembers, Zenon
    <2> QED
      BY <1>2, <2>1, <2>2
  <1>6. /\ RowsWritten(<<"key", fwd.layer>>, fwd.a + fwd.R)
        /\ RowsWritten(<<"value", fwd.layer>>, fwd.a + fwd.R)
        /\ Holds(LayerOutput(fwd.layer), fwd.layer + 1)
    BY <1>5, MadeTable DEF LayerOps
  <1>7. Holds(LayerInput(fwd.layer + 1), fwd.layer + 1)
    BY <1>2, <1>6 DEF LayerInput, LayerOutput
  <1>8. LayerInput(fwd.layer + 1) = final_layer_output(fwd.layer + 1)
    BY DEF LayerInput, final_layer_output
  <1>9. \A r, l : Holds(r, l)' = Holds(r, l)
    BY <1>4 DEF Holds, Value
  <1>10. \A o, n : RowsWritten(o, n)' = RowsWritten(o, n)
    BY DEF RowsWritten
  <1>11. \A o \in Caches : RowsWritten(o, IF o[2] < fwd.layer + 1
                                          THEN fwd.a + fwd.R ELSE fwd.a)
    <2>1. SUFFICES ASSUME NEW o \in Caches
                   PROVE  RowsWritten(o, IF o[2] < fwd.layer + 1
                                         THEN fwd.a + fwd.R ELSE fwd.a)
      OBVIOUS
    <2>2. RowsWritten(o, IF o[2] < fwd.layer THEN fwd.a + fwd.R ELSE fwd.a)
      BY <1>0, <1>1 DEF CachesWritten, Forward
    <2>3. o[2] \in Nat /\ (o[2] = fwd.layer => o = <<"key", fwd.layer>>
                                              \/ o = <<"value", fwd.layer>>)
      BY ConfigFacts DEF Caches, Layers
    <2>4. CASE o[2] = fwd.layer
      BY <1>2, <1>6, <2>3, <2>4
    <2>5. CASE o[2] # fwd.layer
      BY <1>2, <2>2, <2>3, <2>5
    <2> QED
      BY <2>4, <2>5
  <1>12. PlanAccepted'
    BY <1>0, <1>1 DEF PlanKept, PlanAccepted, Published, Forward
  <1>13. /\ prefix' \in [Layers -> Nat]
         /\ \A l \in Layers : prefix'[l] = IF l < fwd.layer + 1
                                           THEN fwd.a + fwd.R ELSE fwd.a
    <2>1. /\ prefix \in [Layers -> Nat]
          /\ \A l \in Layers : prefix[l] = IF l < fwd.layer
                                           THEN fwd.a + fwd.R ELSE fwd.a
      BY <1>0, <1>1 DEF TypeOK, PrefixesInStep, Forward
    <2>2. \A l \in Layers : l \in Nat
      BY ConfigFacts DEF Layers
    <2> QED
      BY <1>2, <2>1, <2>2
  <1>14. \/ pc' = "layer" /\ fwd.layer + 1 < Config.L
         \/ pc' = "final_norm" /\ fwd.layer + 1 = Config.L
    BY <1>3
  <1>c1. TypeOK'
    BY <1>0, <1>1, <1>4, <1>14, <1>13 DEF TypeOK, Pcs, Published, Forward
  <1>c2. PoisonStops'
    BY <1>0, <1>1, <1>4, <1>14 DEF PoisonStops
  <1>c3. LedgerSettled'
    BY <1>0, <1>1, <1>4, <1>14, <1>2 DEF LedgerSettled, Awaited, PoisonStops
  <1>c4. LastIsAwaited'
    BY <1>0, <1>1, <1>4, <1>14, <1>3 DEF LastIsAwaited, Awaited, OfForward
  <1>c5. GroupSettled'
    BY <1>0, <1>1, <1>4, <1>14 DEF GroupSettled
  <1>c6. GroupOfStep'
    BY <1>0, <1>1, <1>4, <1>14 DEF GroupOfStep, OfForward
  <1>c7. FirstFailureKept'
    BY <1>0, <1>1, <1>4, <1>14 DEF FirstFailureKept
  <1>c8. PlaceInForward'
    BY <1>0, <1>1, <1>4, <1>14 DEF PlaceInForward, Published, Forward
  <1>c9. PrefixesInStep'
    BY <1>0, <1>1, <1>4, <1>14, <1>13 DEF PrefixesInStep, Published, Forward
  <1>c10. HistoryCounted'
    BY <1>0, <1>1, <1>4, <1>14 DEF HistoryCounted, Published, Forward
  <1>c11. InputsHeld'
    BY <1>0, <1>1, <1>4, <1>14, <1>2, <1>3, <1>7, <1>8, <1>9 DEF InputsHeld
  <1>c12. StepsMade'
    BY <1>0, <1>1, <1>4, <1>14 DEF StepsMade
  <1>c13. OutputsHeld'
    BY <1>0, <1>1, <1>4, <1>14 DEF OutputsHeld, Holds, Value, LastDone
  <1>c14. CachesWritten'
    BY <1>0, <1>1, <1>4, <1>14, <1>10, <1>11 DEF CachesWritten
  <1>c15. PlanKept'
    BY <1>0, <1>1, <1>4, <1>14, <1>12 DEF PlanKept, Published, Forward
  <1>c16. CallPlaced'
    BY <1>0, <1>1, <1>4, <1>14 DEF CallPlaced, InRequest, InSetup, NoCall,
       Published, Forward
  <1>c17. AttemptPlaced'
    BY <1>0, <1>1, <1>4, <1>14 DEF AttemptPlaced, InRequest, InSetup,
       Published, Forward
  <1>c18. Counted'
    BY <1>0, <1>1, <1>4, <1>14 DEF Counted, Published, Forward
  <1>c19. RatesEarned'
    BY <1>0, <1>1, <1>4, <1>14 DEF RatesEarned
  <1>c20. RowsPaired'
    BY <1>0, <1>1, <1>4, <1>14 DEF RowsPaired, Published, Forward
  <1>c21. RowsTruthful'
    BY <1>0, <1>1, <1>4, <1>14 DEF RowsTruthful
  <1> QED
    BY <1>c1, <1>c2, <1>c3, <1>c4, <1>c5, <1>c6, <1>c7, <1>c8, <1>c9, <1>c10,
       <1>c11, <1>c12, <1>c13, <1>c14, <1>c15, <1>c16, <1>c17, <1>c18, <1>c19,
       <1>c20, <1>c21 DEF IInv

(* A step all of whose members ended well is over. *)
LEMMA StepSucceedsKeeps ==
    ASSUME IInv, StepSucceeds
    PROVE  IInv'
  <1>1. /\ StepWaited /\ Broken = {} /\ group' = <<>>
        /\ UNCHANGED <<call, need, request, ledger, buf, rows, ret, calls,
                       metrics, poisoned, err, drainAt, drained>>
    BY DEF StepSucceeds, Steady
  <1>2. Len(LayerSteps) = 13
    BY StepTable
  <1>3. CASE fwd.step < 13
    <2>1. fwd' = [fwd EXCEPT !.step = @ + 1] /\ UNCHANGED <<pc, prefix>>
      BY <1>2, <1>3 DEF StepSucceeds
    <2> QED
      BY <1>1, <1>3, <2>1, NextStepKeeps
  <1>4. CASE ~(fwd.step < 13)
    <2>1. /\ prefix' = [prefix EXCEPT ![fwd.layer] = fwd.a + fwd.R]
          /\ fwd' = [fwd EXCEPT !.step = 1, !.layer = @ + 1]
          /\ pc' = IF fwd.layer + 1 < Config.L THEN "layer" ELSE "final_norm"
      BY <1>2, <1>4 DEF StepSucceeds
    <2> QED
      BY <1>1, <1>4, <2>1, LayerDoneKeeps
  <1> QED
    BY <1>3, <1>4

--------------------------------------------------------------------------------
(***************************************************************************)
(* The logits are waited for, and a token is selected.                     *)
(***************************************************************************)
Returns == [ok : BOOLEAN, tokens : Nat, reason : Reasons \cup Failures]

(* What is booked as a call returns. *)
LEMMA FinishBooks ==
    ASSUME NEW m \in Recorders, NEW r \in Reasons, NEW n \in Nat,
           finish(r, n, m)
    PROVE  /\ metrics' \in Recorders /\ SameTrace(m, metrics')
           /\ SameAttempt(m, metrics') /\ SameCounts(m.scalars, metrics'.scalars)
           /\ metrics'.scalars.failure = m.scalars.failure
           /\ metrics'.scalars.rate => m.scalars.rate \/ m.scalars.decodeTokens # 0
           /\ ret' \in Returns /\ pc' = "idle" /\ call' = NoCall
  <1> DEFINE e == end_generation(m, r)
  <1>1. /\ e \in Recorders /\ SameTrace(m, e) /\ SameAttempt(m, e)
        /\ SameCounts(m.scalars, e.scalars)
        /\ e.scalars.failure = m.scalars.failure
        /\ e.scalars.rate => m.scalars.rate \/ m.scalars.decodeTokens # 0
    BY EndEffect
  <1>2. metrics' = e \/ metrics' = record_tokenization(e, "succeeded")
    BY DEF finish
  <1> HIDE DEF e
  <1>3. ret' \in Returns /\ pc' = "idle" /\ call' = NoCall
    BY ReturnKind DEF finish, Returns
  <1>4. CASE metrics' = e
    BY <1>1, <1>3, <1>4
  <1>5. CASE metrics' = record_tokenization(e, "succeeded")
    <2>1. /\ metrics' \in Recorders /\ SameTrace(e, metrics')
          /\ SameAttempt(e, metrics')
          /\ SameCounts(e.scalars, metrics'.scalars)
          /\ SameEnd(e.scalars, metrics'.scalars)
      BY <1>1, <1>5, PhaseEffect DEF Phases
    <2> QED
      BY <1>1, <1>3, <2>1 DEF SameTrace, SameAttempt, SameCounts, SameEnd
  <1> QED
    BY <1>2, <1>4, <1>5

(* A call that returns leaves the session at rest. *)
LEMMA FinishKeeps ==
    ASSUME IInv, pc \in {"ready", "select"}, pc' = "idle", call' = NoCall,
           ret' \in Returns, request' \in Requests,
           request'.ordinal = request.ordinal,
           \A i \in DOMAIN ledger : ledger[i].st = "ok",
           metrics' \in Recorders, metrics'.ordinal = metrics.ordinal,
           metrics'.scalars.generated = request'.results,
           metrics'.scalars.decodeTokens = (IF request'.results = 0 THEN 0
                                            ELSE request'.results - 1),
           metrics'.scalars.decodeForwards = metrics'.scalars.decodeTokens,
           metrics'.scalars.failure = None,
           metrics'.scalars.rate => metrics'.scalars.decodeTokens # 0,
           metrics'.tracing = metrics.tracing,
           metrics'.dropped = metrics.dropped,
           Len(metrics'.rows) = Len(metrics.rows),
           ~metrics.tracing => metrics'.rows = metrics.rows,
           \A i \in DOMAIN metrics'.rows \cap DOMAIN ledger :
               metrics'.rows[i].wait # "failed",
           UNCHANGED <<need, ledger, group, fwd, buf, rows, prefix, poisoned, err,
                       drainAt, drained, calls>>
    PROVE  IInv'
  <1>0. /\ TypeOK /\ PoisonStops /\ LedgerSettled /\ LastIsAwaited
        /\ GroupSettled /\ GroupOfStep /\ FirstFailureKept /\ PlaceInForward
        /\ PrefixesInStep /\ HistoryCounted /\ InputsHeld /\ StepsMade
        /\ OutputsHeld /\ CachesWritten /\ PlanKept /\ CallPlaced
        /\ AttemptPlaced /\ Counted /\ RatesEarned /\ RowsPaired /\ RowsTruthful
    BY DEF IInv
  <1>1. ~poisoned
    BY <1>0 DEF PoisonStops
  <1>2. NoCall \in Calls
    BY DEF NoCall, Calls
  <1>3. metrics'.scalars.decodeTokens \in Nat
    BY DEF Recorders, Scalars
  <1>4. \A k, l \in Layers : prefix[k] = prefix[l]
    <2>1. CASE pc = "select"
      BY <1>0, <2>1 DEF PrefixesInStep
    <2>2. CASE pc = "ready"
      <3>1. fwd.layer = Config.L
        BY <1>0, <2>2 DEF PlaceInForward
      <3>2. \A l \in Layers : l < fwd.layer
        BY <3>1, ConfigFacts DEF Layers
      <3> QED
        BY <1>0, <2>2, <3>2 DEF PrefixesInStep, Forward
    <2> QED
      BY <2>1, <2>2
  <1>5. group = <<>>
    BY <1>0 DEF GroupSettled
  <1>c1. TypeOK'
    BY <1>0, <1>2 DEF TypeOK, Pcs, Published, Forward, Returns
  <1>c2. PoisonStops'
    BY <1>0, <1>1 DEF PoisonStops
  <1>c3. LedgerSettled'
    BY <1>0, <1>1 DEF LedgerSettled, Awaited, PoisonStops
  <1>c4. LastIsAwaited'
    BY <1>0 DEF LastIsAwaited, Awaited, OfForward
  <1>c5. GroupSettled'
    BY <1>0 DEF GroupSettled
  <1>c6. GroupOfStep'
    BY <1>0 DEF GroupOfStep, OfForward
  <1>c7. FirstFailureKept'
    BY <1>0 DEF FirstFailureKept
  <1>c8. PlaceInForward'
    BY <1>0 DEF PlaceInForward, Published, Forward
  <1>c9. PrefixesInStep'
    BY <1>0, <1>4 DEF PrefixesInStep, Published, Forward
  <1>c10. HistoryCounted'
    BY <1>0 DEF HistoryCounted, Published, Forward
  <1>c11. InputsHeld'
    BY <1>0 DEF InputsHeld, Holds, Value, LastDone
  <1>c12. StepsMade'
    BY <1>0 DEF StepsMade
  <1>c13. OutputsHeld'
    BY <1>0 DEF OutputsHeld, Holds, Value, LastDone
  <1>c14. CachesWritten'
    BY <1>0 DEF CachesWritten, Published, Forward, RowsWritten
  <1>c15. PlanKept'
    BY <1>0 DEF PlanKept, Published, Forward
  <1>c16. CallPlaced'
    BY <1>0 DEF CallPlaced, InRequest, InSetup, NoCall, Published, Forward
  <1>c17. AttemptPlaced'
    BY <1>0 DEF AttemptPlaced, InRequest, InSetup, Published, Forward
  <1>c18. Counted'
    BY <1>0 DEF Counted, Published, Forward
  <1>c19. RatesEarned'
    <2> DEFINE s == metrics.scalars
    <2>1. /\ (s.rate => s.decodeTokens # 0)' /\ (s.failure = None)'
      OBVIOUS
    <2>2. (s.decodeTokens # 0 => s.decodeTokens > 0)'
      <3> DEFINE d == metrics'.scalars.decodeTokens
      <3>1. d \in Nat
        BY <1>3
      <3> HIDE DEF d
      <3>2. d # 0 => d > 0
        BY <3>1
      <3> QED
        BY <3>2 DEF d
    <2>3. ~poisoned'
      BY <1>1
    <2> HIDE DEF s
    <2> QED
      BY <2>1, <2>2, <2>3 DEF RatesEarned, s
  <1>c20. RowsPaired'
    BY <1>0 DEF RowsPaired, Published, Forward
  <1>c21. RowsTruthful'
    BY <1>0 DEF RowsTruthful
  <1> QED
    BY <1>c1, <1>c2, <1>c3, <1>c4, <1>c5, <1>c6, <1>c7, <1>c8, <1>c9, <1>c10,
       <1>c11, <1>c12, <1>c13, <1>c14, <1>c15, <1>c16, <1>c17, <1>c18, <1>c19,
       <1>c20, <1>c21 DEF IInv

(* The logits are there: a token can be selected. *)
LEMMA ReadyKeeps ==
    ASSUME IInv, pc = "ready", pc' = "select",
           ledger[Len(ledger)].st = "ok",
           call' \in Calls, call'.phase = "select", call'.kind = call.kind,
           call'.fromDecode = call.fromDecode,
           request' \in Requests, request'.ordinal = request.ordinal,
           request'.results = request.results,
           request'.history = fwd.a + fwd.R,
           metrics' \in Recorders, SameAttempt(metrics, metrics'),
           SameEnd(metrics.scalars, metrics'.scalars),
           metrics'.scalars.generated = metrics.scalars.generated,
           metrics'.scalars.decodeTokens = metrics.scalars.decodeTokens,
           metrics'.scalars.decodeForwards =
               (IF request.results = 0 THEN metrics.scalars.decodeForwards
                ELSE metrics.scalars.decodeForwards + 1),
           metrics'.tracing = metrics.tracing,
           metrics'.dropped = metrics.dropped,
           Len(metrics'.rows) = Len(metrics.rows),
           ~metrics.tracing => metrics'.rows = metrics.rows,
           \A i \in DOMAIN metrics'.rows \cap DOMAIN ledger :
               metrics'.rows[i].wait # "failed",
           UNCHANGED <<need, ledger, group, fwd, buf, rows, prefix, poisoned, err,
                       drainAt, drained, ret, calls>>
    PROVE  IInv'
  <1>0. /\ TypeOK /\ PoisonStops /\ LedgerSettled /\ LastIsAwaited
        /\ GroupSettled /\ GroupOfStep /\ FirstFailureKept /\ PlaceInForward
        /\ PrefixesInStep /\ HistoryCounted /\ InputsHeld /\ StepsMade
        /\ OutputsHeld /\ CachesWritten /\ PlanKept /\ CallPlaced
        /\ AttemptPlaced /\ Counted /\ RatesEarned /\ RowsPaired /\ RowsTruthful
    BY DEF IInv
  <1>1. /\ ~poisoned /\ \A i \in DOMAIN ledger : ledger[i].st = "ok"
        /\ LastDone
    BY AwaitedToken DEF Awaited, LastDone
  <1>2. PlanAccepted'
    BY <1>0 DEF PlanKept, PlanAccepted, Published, Forward
  <1>3. /\ fwd.layer = Config.L /\ fwd.a \in Nat /\ fwd.R \in Nat
        /\ \A l \in Layers : l < fwd.layer
        /\ \A o \in Caches : o[2] < fwd.layer
    <2>1. fwd.layer = Config.L
      BY <1>0 DEF PlaceInForward
    <2> QED
      BY <1>0, <2>1, ConfigFacts DEF TypeOK, Forwards, Layers, Caches
  <1>4. \A i \in DOMAIN metrics.rows \cap DOMAIN ledger :
            metrics.rows[i].wait # "failed"
    BY <1>0, <1>1 DEF RowsTruthful
  <1>c1. TypeOK'
    BY <1>0 DEF TypeOK, Pcs, Published, Forward
  <1>c2. PoisonStops'
    BY <1>0 DEF PoisonStops
  <1>c3. LedgerSettled'
    BY <1>0, <1>1 DEF LedgerSettled, Awaited, PoisonStops
  <1>c4. LastIsAwaited'
    BY <1>0 DEF LastIsAwaited, Awaited, OfForward
  <1>c5. GroupSettled'
    BY <1>0 DEF GroupSettled
  <1>c6. GroupOfStep'
    BY <1>0 DEF GroupOfStep, OfForward
  <1>c7. FirstFailureKept'
    BY <1>0 DEF FirstFailureKept
  <1>c8. PlaceInForward'
    BY <1>0, <1>3 DEF PlaceInForward, Published, Forward
  <1>c9. PrefixesInStep'
    BY <1>0, <1>3 DEF PrefixesInStep, Published, Forward
  <1>c10. HistoryCounted'
    BY <1>0, <1>3 DEF HistoryCounted, Published, Forward, TypeOK, Requests,
       Calls
  <1>c11. InputsHeld'
    BY <1>0 DEF InputsHeld, Holds, Value, LastDone
  <1>c12. StepsMade'
    BY <1>0 DEF StepsMade
  <1>c13. OutputsHeld'
    BY <1>0, <1>1 DEF OutputsHeld, Value
  <1>c14. CachesWritten'
    BY <1>0, <1>3 DEF CachesWritten, Published, Forward, RowsWritten
  <1>c15. PlanKept'
    BY <1>0, <1>2 DEF PlanKept, Published, Forward
  <1>c16. CallPlaced'
    BY <1>0 DEF CallPlaced, InRequest, InSetup, NoCall, Published, Forward
  <1>c17. AttemptPlaced'
    BY <1>0 DEF AttemptPlaced, InRequest, InSetup, Published, Forward,
       SameAttempt, SameEnd
  <1>c18. Counted'
    BY <1>0 DEF Counted, Published, Forward
  <1>c19. RatesEarned'
    BY <1>0, <1>1 DEF RatesEarned, SameEnd
  <1>c20. RowsPaired'
    BY <1>0 DEF RowsPaired, Published, Forward
  <1>c21. RowsTruthful'
    BY <1>0 DEF RowsTruthful
  <1> QED
    BY <1>c1, <1>c2, <1>c3, <1>c4, <1>c5, <1>c6, <1>c7, <1>c8, <1>c9, <1>c10,
       <1>c11, <1>c12, <1>c13, <1>c14, <1>c15, <1>c16, <1>c17, <1>c18, <1>c19,
       <1>c20, <1>c21 DEF IInv

(* The recorder after the logits were seen to be there. *)
LEMMA SeenReady ==
    ASSUME IInv, pc = "ready", ledger[Len(ledger)].st = "ok",
           NEW n, n = ObserveWait(metrics, Len(ledger))
    PROVE  /\ n \in Recorders /\ SameAttempt(metrics, n)
           /\ n.scalars = metrics.scalars
           /\ n.tracing = metrics.tracing /\ n.dropped = metrics.dropped
           /\ Len(n.rows) = Len(metrics.rows)
           /\ ~metrics.tracing => n.rows = metrics.rows
           /\ \A i \in DOMAIN n.rows \cap DOMAIN ledger :
                  n.rows[i].wait # "failed"
           /\ \A i \in DOMAIN ledger : ledger[i].st = "ok"
           /\ writes_admitted_request(n) /\ writes_admitted_request(metrics)
  <1>1. /\ \A i \in DOMAIN ledger : ledger[i].st = "ok"
        /\ Observed(metrics, n) /\ n.scalars = metrics.scalars
    BY AwaitedToken DEF Awaited
  <1>2. ~metrics.tracing => n.rows = metrics.rows
    <2>1. n \in Recorders /\ metrics \in Recorders /\ Len(n.rows) = Len(metrics.rows)
      BY <1>1 DEF Observed, IInv, TypeOK
    <2>2. n.rows \in Seq(Rows) /\ (~metrics.tracing => metrics.rows = <<>>)
      BY <2>1 DEF IInv, RowsPaired, Recorders
    <2> QED
      BY <2>1, <2>2
  <1>3. \A i \in DOMAIN n.rows \cap DOMAIN ledger : n.rows[i].wait # "failed"
    BY <1>1 DEF Observed, IInv, RowsTruthful
  <1>4. writes_admitted_request(metrics)
    BY DEF IInv, AttemptPlaced, InRequest, Published, Forward,
       writes_admitted_request
  <1>5. writes_admitted_request(n)
    BY <1>1, <1>4 DEF Observed, SameAttempt, writes_admitted_request
  <1> QED
    BY <1>1, <1>2, <1>3, <1>4, <1>5 DEF Observed

(* The prompt is behind: the first token is selected, if there is room. *)
LEMMA PrefillReadyKeeps ==
    ASSUME IInv, PrefillReady
    PROVE  IInv'
  <1> DEFINE n == ObserveWait(metrics, Len(ledger))
             m == record_prefill(n, "succeeded")
  <1>1. /\ pc = "ready" /\ call.phase = "prefill" /\ pc \in Published /\ Awaited
        /\ UNCHANGED <<need, ledger, group, fwd, buf, rows, prefix, calls>>
    BY DEF PrefillReady, Published, Forward, Awaited
  <1>2. CASE ledger[Len(ledger)].st = "failed"
    <2>1. /\ metrics' = n /\ Unwind("lm_head") /\ UNCHANGED <<call, request, ret>>
      BY <1>2 DEF PrefillReady
    <2>2. Observed(metrics, metrics')
      BY <1>1, <2>1, AwaitedToken
    <2>3. "lm_head" \in Failures
      BY DEF Failures, Ops
    <2> QED
      BY <1>1, <2>1, <2>2, <2>3, Unwinds
  <1>3. CASE ledger[Len(ledger)].st # "failed"
    <2>1. ledger[Len(ledger)].st = "ok"
      BY <1>1, <1>3, AwaitedToken DEF PrefillReady
    <2>2. /\ request' = [request EXCEPT !.history = call.prompt]
          /\ IF call.prompt = Config.C THEN finish("context_capacity", 0, m)
             ELSE /\ metrics' = m /\ pc' = "select" /\ ret' = ret
                  /\ call' = [call EXCEPT !.phase = "select"]
          /\ UNCHANGED <<poisoned, err, drainAt, drained>>
      BY <1>3 DEF PrefillReady, Steady
    <2>3. /\ n \in Recorders /\ SameAttempt(metrics, n)
          /\ n.scalars = metrics.scalars
          /\ n.tracing = metrics.tracing /\ n.dropped = metrics.dropped
          /\ Len(n.rows) = Len(metrics.rows)
          /\ ~metrics.tracing => n.rows = metrics.rows
          /\ \A i \in DOMAIN n.rows \cap DOMAIN ledger :
                 n.rows[i].wait # "failed"
          /\ \A i \in DOMAIN ledger : ledger[i].st = "ok"
      BY <1>1, <2>1, SeenReady
    <2> HIDE DEF n
    <2>4. /\ m \in Recorders /\ SameTrace(n, m) /\ SameAttempt(n, m)
          /\ SameCounts(n.scalars, m.scalars) /\ SameEnd(n.scalars, m.scalars)
      BY <2>3, PhaseEffect DEF Phases
    <2> HIDE DEF m
    <2>5. /\ call \in Calls /\ request \in Requests /\ call.prompt \in Nat
      BY DEF IInv, TypeOK, Calls
    <2>6. /\ fwd.a = 0 /\ fwd.R = call.prompt /\ request.results = 0
          /\ ~call.fromDecode
      BY <1>1 DEF IInv, HistoryCounted, Forward
    <2>7. /\ request' \in Requests /\ request'.ordinal = request.ordinal
          /\ request'.results = 0 /\ request'.history = fwd.a + fwd.R
      BY <2>2, <2>5, <2>6 DEF Requests
    <2>8. /\ metrics.scalars.generated = 0 /\ metrics.scalars.decodeTokens = 0
          /\ metrics.scalars.decodeForwards = 0
      BY <1>1, <2>6 DEF IInv, Counted, Published, Forward
    <2>9. /\ metrics.scalars.failure = None /\ ~metrics.scalars.rate
      BY <1>1 DEF IInv, AttemptPlaced, InRequest
    <2>10. /\ SameAttempt(metrics, m) /\ SameCounts(metrics.scalars, m.scalars)
           /\ SameEnd(metrics.scalars, m.scalars)
           /\ m.tracing = metrics.tracing /\ m.dropped = metrics.dropped
           /\ Len(m.rows) = Len(metrics.rows)
           /\ ~metrics.tracing => m.rows = metrics.rows
           /\ \A i \in DOMAIN m.rows \cap DOMAIN ledger :
                  m.rows[i].wait # "failed"
      BY <2>3, <2>4 DEF SameAttempt, SameCounts, SameEnd, SameTrace
    <2>11. CASE call.prompt = Config.C
      <3>1. "context_capacity" \in Reasons
        BY DEF Reasons
      <3>2. /\ metrics' \in Recorders /\ SameTrace(m, metrics')
            /\ SameAttempt(m, metrics')
            /\ SameCounts(m.scalars, metrics'.scalars)
            /\ metrics'.scalars.failure = m.scalars.failure
            /\ metrics'.scalars.rate => m.scalars.rate
                                        \/ m.scalars.decodeTokens # 0
            /\ ret' \in Returns /\ pc' = "idle" /\ call' = NoCall
        BY <2>2, <2>4, <2>11, <3>1, FinishBooks
      <3>3. /\ metrics'.scalars.generated = request'.results
            /\ metrics'.scalars.decodeTokens = 0
            /\ metrics'.scalars.decodeForwards = 0
        BY <2>7, <2>8, <2>10, <3>2 DEF SameCounts
      <3>4. metrics'.scalars.failure = None /\ ~metrics'.scalars.rate
        BY <2>8, <2>9, <2>10, <3>2 DEF SameEnd, SameCounts
      <3>5. /\ metrics'.ordinal = metrics.ordinal
            /\ metrics'.tracing = metrics.tracing
            /\ metrics'.dropped = metrics.dropped /\ metrics'.rows = m.rows
        BY <2>10, <3>2 DEF SameAttempt, SameTrace
      <3> QED
        BY <1>1, <2>2, <2>3, <2>7, <2>10, <3>2, <3>3, <3>4, <3>5, FinishKeeps
    <2>12. CASE call.prompt # Config.C
      <3>1. /\ metrics' = m /\ pc' = "select" /\ ret' = ret
            /\ call' \in Calls /\ call'.phase = "select"
            /\ call'.kind = call.kind /\ call'.fromDecode = call.fromDecode
        BY <2>2, <2>5, <2>12 DEF Calls
      <3>2. /\ m.scalars.generated = metrics.scalars.generated
            /\ m.scalars.decodeTokens = metrics.scalars.decodeTokens
            /\ m.scalars.decodeForwards = metrics.scalars.decodeForwards
        BY <2>10 DEF SameCounts
      <3> QED
        BY <1>1, <2>1, <2>2, <2>4, <2>6, <2>7, <2>10, <3>1, <3>2, ReadyKeeps
    <2> QED
      BY <2>11, <2>12
  <1> QED
    BY <1>2, <1>3

(* A decode is behind: its token is selected. *)
LEMMA DecodeReadyKeeps ==
    ASSUME IInv, DecodeReady
    PROVE  IInv'
  <1> DEFINE n == ObserveWait(metrics, Len(ledger))
             d == record_decode(n, "succeeded")
             m == record_decode_forward(d)
  <1>1. /\ pc = "ready" /\ call.phase = "decode" /\ pc \in Published /\ Awaited
        /\ UNCHANGED <<need, request, ledger, group, fwd, buf, rows, prefix, ret,
                       calls>>
    BY DEF DecodeReady, Published, Forward, Awaited
  <1>2. CASE ledger[Len(ledger)].st = "failed"
    <2>1. /\ metrics' = n /\ Unwind("lm_head") /\ UNCHANGED call
      BY <1>2 DEF DecodeReady
    <2>2. Observed(metrics, metrics')
      BY <1>1, <2>1, AwaitedToken
    <2>3. "lm_head" \in Failures
      BY DEF Failures, Ops
    <2> QED
      BY <1>1, <2>1, <2>2, <2>3, Unwinds
  <1>3. CASE ledger[Len(ledger)].st # "failed"
    <2>1. ledger[Len(ledger)].st = "ok"
      BY <1>1, <1>3, AwaitedToken DEF DecodeReady
    <2>2. /\ metrics' = m /\ pc' = "select"
          /\ call' = [call EXCEPT !.decodePending = FALSE, !.phase = "select"]
          /\ UNCHANGED <<poisoned, err, drainAt, drained>>
      BY <1>3 DEF DecodeReady, Steady
    <2>3. /\ n \in Recorders /\ SameAttempt(metrics, n)
          /\ n.scalars = metrics.scalars
          /\ n.tracing = metrics.tracing /\ n.dropped = metrics.dropped
          /\ Len(n.rows) = Len(metrics.rows)
          /\ ~metrics.tracing => n.rows = metrics.rows
          /\ \A i \in DOMAIN n.rows \cap DOMAIN ledger :
                 n.rows[i].wait # "failed"
          /\ writes_admitted_request(n)
      BY <1>1, <2>1, SeenReady
    <2> HIDE DEF n
    <2>4. /\ d \in Recorders /\ SameTrace(n, d) /\ SameAttempt(n, d)
          /\ SameCounts(n.scalars, d.scalars) /\ SameEnd(n.scalars, d.scalars)
      BY <2>3, PhaseEffect DEF Phases
    <2>a. writes_admitted_request(d)
      BY <2>3, <2>4 DEF SameAttempt, writes_admitted_request
    <2> HIDE DEF d
    <2>5. /\ m \in Recorders /\ SameTrace(d, m) /\ SameAttempt(d, m)
          /\ SameEnd(d.scalars, m.scalars)
          /\ m.scalars.generated = d.scalars.generated
          /\ m.scalars.decodeTokens = d.scalars.decodeTokens
          /\ m.scalars.decodeForwards = d.scalars.decodeForwards + 1
      BY <2>4, <2>a, DecodeForwardEffect
    <2> HIDE DEF m
    <2>6. /\ call \in Calls /\ request \in Requests
      BY DEF IInv, TypeOK
    <2>7. /\ fwd.R = 1 /\ request.results # 0 /\ request.history = fwd.a + fwd.R
      <3>1. request.results > 0 /\ fwd.R = 1 /\ request.history = fwd.a + 1
        BY <1>1 DEF IInv, HistoryCounted, Forward
      <3> QED
        BY <2>6, <3>1 DEF Requests
    <2>8. /\ call' \in Calls /\ call'.phase = "select"
          /\ call'.kind = call.kind /\ call'.fromDecode = call.fromDecode
      BY <2>2, <2>6 DEF Calls
    <2>9. /\ SameAttempt(metrics, m) /\ SameEnd(metrics.scalars, m.scalars)
          /\ m.scalars.generated = metrics.scalars.generated
          /\ m.scalars.decodeTokens = metrics.scalars.decodeTokens
          /\ m.scalars.decodeForwards = metrics.scalars.decodeForwards + 1
          /\ m.tracing = metrics.tracing /\ m.dropped = metrics.dropped
          /\ Len(m.rows) = Len(metrics.rows)
          /\ ~metrics.tracing => m.rows = metrics.rows
          /\ \A i \in DOMAIN m.rows \cap DOMAIN ledger :
                 m.rows[i].wait # "failed"
      BY <2>3, <2>4, <2>5 DEF SameAttempt, SameCounts, SameEnd, SameTrace
    <2> QED
      BY <1>1, <2>1, <2>2, <2>5, <2>6, <2>7, <2>8, <2>9, ReadyKeeps
  <1> QED
    BY <1>2, <1>3

(* The selector throws, or selects what is not a token. *)
LEMMA SelectFailsKeeps ==
    ASSUME IInv, SelectFails
    PROVE  IInv'
  <1>1. PICK f \in {"selector", "invalid_argument"} : Unwind(f)
    BY DEF SelectFails
  <1>2. /\ pc = "select" /\ pc \in Published
        /\ UNCHANGED <<call, need, request, ledger, group, fwd, buf, rows, prefix,
                       ret, calls, metrics>>
    BY DEF SelectFails, Published
  <1>3. f \in Failures
    BY DEF Failures
  <1> QED
    BY <1>1, <1>2, <1>3, Unwinds

(* A token was selected and there is room for another. *)
LEMMA GoesOnKeeps ==
    ASSUME IInv, pc = "select", pc' = "decode", ret' = ret, call' = call,
           request' \in Requests, request'.ordinal = request.ordinal,
           request'.results = request.results + 1,
           request'.history = request.history + 1,
           request'.history < Config.C,
           \A i \in DOMAIN ledger : ledger[i].st = "ok",
           metrics' \in Recorders, SameAttempt(metrics, metrics'),
           SameTrace(metrics, metrics'),
           SameEnd(metrics.scalars, metrics'.scalars),
           metrics'.scalars.generated = request.results + 1,
           metrics'.scalars.decodeTokens = request.results,
           metrics'.scalars.decodeForwards = request.results,
           UNCHANGED <<need, ledger, group, fwd, buf, rows, prefix, poisoned, err,
                       drainAt, drained, calls>>
    PROVE  IInv'
  <1>0. /\ TypeOK /\ PoisonStops /\ LedgerSettled /\ LastIsAwaited
        /\ GroupSettled /\ GroupOfStep /\ FirstFailureKept /\ PlaceInForward
        /\ PrefixesInStep /\ HistoryCounted /\ InputsHeld /\ StepsMade
        /\ OutputsHeld /\ CachesWritten /\ PlanKept /\ CallPlaced
        /\ AttemptPlaced /\ Counted /\ RatesEarned /\ RowsPaired /\ RowsTruthful
    BY DEF IInv
  <1>1. ~poisoned
    BY <1>0 DEF PoisonStops
  <1>2. PlanAccepted'
    BY <1>0 DEF PlanKept, PlanAccepted, Published, Forward
  <1>3. /\ fwd.a \in Nat /\ fwd.R \in Nat /\ request.history \in Nat
        /\ request.results \in Nat /\ request'.results > 0
        /\ request'.results # 0 /\ request'.results - 1 = request.results
    <2>1. /\ fwd.a \in Nat /\ fwd.R \in Nat /\ request.history \in Nat
          /\ request.results \in Nat
      BY <1>0 DEF TypeOK, Forwards, Requests
    <2> QED
      BY <2>1
  <1>c1. TypeOK'
    BY <1>0 DEF TypeOK, Pcs, Published, Forward
  <1>c2. PoisonStops'
    BY <1>0 DEF PoisonStops
  <1>c3. LedgerSettled'
    BY <1>0, <1>1 DEF LedgerSettled, Awaited, PoisonStops
  <1>c4. LastIsAwaited'
    BY <1>0 DEF LastIsAwaited, Awaited, OfForward
  <1>c5. GroupSettled'
    BY <1>0 DEF GroupSettled
  <1>c6. GroupOfStep'
    BY <1>0 DEF GroupOfStep, OfForward
  <1>c7. FirstFailureKept'
    BY <1>0 DEF FirstFailureKept
  <1>c8. PlaceInForward'
    BY <1>0 DEF PlaceInForward, Published, Forward
  <1>c9. PrefixesInStep'
    BY <1>0 DEF PrefixesInStep, Published, Forward
  <1>c10. HistoryCounted'
    BY <1>0, <1>3 DEF HistoryCounted, Published, Forward
  <1>c11. InputsHeld'
    BY <1>0 DEF InputsHeld, Holds, Value, LastDone
  <1>c12. StepsMade'
    BY <1>0 DEF StepsMade
  <1>c13. OutputsHeld'
    BY <1>0 DEF OutputsHeld, Holds, Value, LastDone
  <1>c14. CachesWritten'
    BY <1>0 DEF CachesWritten, Published, Forward, RowsWritten
  <1>c15. PlanKept'
    BY <1>0, <1>2 DEF PlanKept, Published, Forward
  <1>c16. CallPlaced'
    BY <1>0 DEF CallPlaced, InRequest, InSetup, NoCall, Published, Forward
  <1>c17. AttemptPlaced'
    BY <1>0 DEF AttemptPlaced, InRequest, InSetup, Published, Forward,
       SameAttempt, SameEnd
  <1>c18. Counted'
    BY <1>0, <1>3 DEF Counted, Published, Forward
  <1>c19. RatesEarned'
    <2>1. ~metrics.scalars.rate /\ metrics.scalars.failure = None
      BY <1>0 DEF AttemptPlaced, InRequest, Published
    <2>2. ~metrics'.scalars.rate /\ metrics'.scalars.failure = None
      BY <2>1 DEF SameEnd
    <2> QED
      BY <2>2 DEF RatesEarned
  <1>c20. RowsPaired'
    BY <1>0 DEF RowsPaired, Published, Forward, SameTrace
  <1>c21. RowsTruthful'
    BY <1>0 DEF RowsTruthful, SameTrace
  <1> QED
    BY <1>c1, <1>c2, <1>c3, <1>c4, <1>c5, <1>c6, <1>c7, <1>c8, <1>c9, <1>c10,
       <1>c11, <1>c12, <1>c13, <1>c14, <1>c15, <1>c16, <1>c17, <1>c18, <1>c19,
       <1>c20, <1>c21 DEF IInv

(* The selected token is committed. *)
LEMMA SelectKeeps ==
    ASSUME IInv, Select
    PROVE  IInv'
  <1> DEFINE m == commit_token(metrics, call.fromDecode)
  <1>1. /\ pc = "select"
        /\ request' = [request EXCEPT !.history = request.history + 1,
                                      !.results = request.results + 1]
        /\ \/ \E r \in {"eos", "max_new_tokens", "context_capacity"} :
                  finish(r, request.results + 1, m)
           \/ /\ request.history + 1 < Config.C
              /\ pc' = "decode" /\ metrics' = m /\ UNCHANGED <<ret, call>>
        /\ UNCHANGED <<need, ledger, group, fwd, buf, rows, prefix, calls,
                       poisoned, err, drainAt, drained>>
    BY DEF Select, Steady
  <1>2. /\ metrics \in Recorders /\ call.fromDecode \in BOOLEAN
        /\ request \in Requests /\ request.results \in Nat
        /\ request.history \in Nat
    BY DEF IInv, TypeOK, Calls, Requests
  <1>3. /\ ~poisoned /\ \A i \in DOMAIN ledger : ledger[i].st = "ok"
    BY <1>1 DEF IInv, PoisonStops, LedgerSettled, Awaited
  <1>4. /\ writes_admitted_request(metrics) /\ ~metrics.scalars.rate
        /\ metrics.scalars.failure = None
    BY <1>1 DEF IInv, AttemptPlaced, InRequest, Published,
       writes_admitted_request
  <1>5. /\ m \in Recorders /\ SameTrace(metrics, m) /\ SameAttempt(metrics, m)
        /\ SameEnd(metrics.scalars, m.scalars)
        /\ m.scalars.generated = metrics.scalars.generated + 1
        /\ m.scalars.decodeForwards = metrics.scalars.decodeForwards
        /\ m.scalars.decodeTokens = IF call.fromDecode
               THEN metrics.scalars.decodeTokens + 1
               ELSE metrics.scalars.decodeTokens
    BY <1>2, <1>4, CommitEffect
  <1> HIDE DEF m
  <1>6. /\ call.fromDecode <=> request.results # 0
        /\ metrics.scalars.generated = request.results
        /\ metrics.scalars.decodeTokens = IF request.results = 0 THEN 0
                                          ELSE request.results - 1
        /\ metrics.scalars.decodeForwards = request.results
    <2>1. call.fromDecode = (request.results > 0)
      BY <1>1 DEF IInv, HistoryCounted
    <2>2. /\ metrics.scalars.generated = request.results
          /\ metrics.scalars.decodeTokens = IF request.results = 0 THEN 0
                                            ELSE request.results - 1
          /\ metrics.scalars.decodeForwards = IF request.results = 0 THEN 0
                                        ELSE metrics.scalars.decodeTokens + 1
      BY <1>1 DEF IInv, Counted
    <2>3. request.results > 0 <=> request.results # 0
      BY <1>2
    <2>4. call.fromDecode <=> request.results # 0
      BY <2>1, <2>3, Zenon
    <2>5. metrics.scalars.decodeForwards = request.results
      BY <1>2, <2>2
    <2> QED
      BY <2>2, <2>4, <2>5
  <1>7. /\ m.scalars.generated = request.results + 1
        /\ m.scalars.decodeTokens = request.results
        /\ m.scalars.decodeForwards = request.results
    BY <1>2, <1>5, <1>6
  <1>8. /\ request' \in Requests /\ request'.ordinal = request.ordinal
        /\ request'.results = request.results + 1
        /\ request'.history = request.history + 1
    <2> DEFINE h == request.history + 1
               r == request.results + 1
    <2>1. h \in Nat /\ r \in Nat
      BY <1>2
    <2>2. request' = [request EXCEPT !.history = h, !.results = r]
      BY <1>1
    <2> HIDE DEF h, r
    <2>3. request' \in Requests /\ request'.ordinal = request.ordinal
          /\ request'.results = r /\ request'.history = h
      BY <1>2, <2>1, <2>2 DEF Requests
    <2> QED
      BY <2>3 DEF h, r
  <1>9. CASE /\ request.history + 1 < Config.C
             /\ pc' = "decode" /\ metrics' = m /\ UNCHANGED <<ret, call>>
    BY <1>1, <1>3, <1>5, <1>7, <1>8, <1>9, GoesOnKeeps
  <1>10. ASSUME NEW r \in {"eos", "max_new_tokens", "context_capacity"},
                finish(r, request.results + 1, m)
         PROVE  IInv'
    <2>1. r \in Reasons /\ request.results + 1 \in Nat
      BY <1>2 DEF Reasons
    <2>2. /\ metrics' \in Recorders /\ SameTrace(m, metrics')
          /\ SameAttempt(m, metrics')
          /\ SameCounts(m.scalars, metrics'.scalars)
          /\ metrics'.scalars.failure = m.scalars.failure
          /\ metrics'.scalars.rate => m.scalars.rate
                                      \/ m.scalars.decodeTokens # 0
          /\ ret' \in Returns /\ pc' = "idle" /\ call' = NoCall
      <3> DEFINE k == request.results + 1
      <3>1. k \in Nat /\ finish(r, k, m)
        BY <1>10, <2>1
      <3> HIDE DEF k
      <3> QED
        BY <1>5, <2>1, <3>1, FinishBooks
    <2>3. /\ metrics'.scalars.generated = request'.results
          /\ metrics'.scalars.decodeTokens = request.results
          /\ metrics'.scalars.decodeForwards = request.results
      BY <1>7, <1>8, <2>2 DEF SameCounts
    <2>4. request.results = IF request'.results = 0 THEN 0 ELSE request'.results - 1
      BY <1>2, <1>8
    <2>5. /\ metrics'.scalars.failure = None
          /\ metrics'.scalars.rate => metrics'.scalars.decodeTokens # 0
      BY <1>4, <1>5, <2>2 DEF SameEnd, SameCounts
    <2>6. /\ metrics'.ordinal = metrics.ordinal
          /\ metrics'.tracing = metrics.tracing
          /\ metrics'.dropped = metrics.dropped /\ metrics'.rows = metrics.rows
      BY <1>5, <2>2 DEF SameAttempt, SameTrace
    <2>7. \A i \in DOMAIN metrics.rows \cap DOMAIN ledger :
             metrics.rows[i].wait # "failed"
      BY <1>3 DEF IInv, RowsTruthful
    <2> QED
      BY <1>1, <1>3, <1>8, <2>2, <2>3, <2>4, <2>5, <2>6, <2>7, FinishKeeps
  <1> QED
    BY <1>1, <1>9, <1>10

--------------------------------------------------------------------------------
(***************************************************************************)
(* The queue ends an operation.                                            *)
(***************************************************************************)

(* A member of the running step finds the right values in what it reads:   *)
(* an earlier step made them.                                              *)
LEMMA SoundMember ==
    ASSUME IInv, pc = "step", NEW i \in DOMAIN group
    PROVE  Sound(group[i])
  <1> DEFINE t == group[i]
  <1> SUFFICES Sound(t)
    OBVIOUS
  <1>0. /\ OfForward(t, LayerSteps[fwd.step][i], fwd.layer)
        /\ LayerSteps[fwd.step][i] \in LayerOps
        /\ StepOf(LayerSteps[fwd.step][i]) = fwd.step
        /\ fwd.bank \in Banks /\ fwd.a \in Nat /\ fwd.R \in Nat
    <2>1. i \in 1 .. Len(LayerSteps[fwd.step])
      BY InStep
    <2> QED
      BY <2>1, InStep
  <1> HIDE DEF t
  <1>1. /\ t.op \in LayerOps /\ StepOf(t.op) = fwd.step /\ t.bank = fwd.bank
        /\ t.layer = fwd.layer /\ t.a = fwd.a /\ t.R = fwd.R
        /\ t.ordinal = request.ordinal
    BY <1>0 DEF OfForward
  <1>2. \A op \in LayerOps : StepOf(op) < StepOf(t.op) => Made(op)
    BY <1>1 DEF IInv, StepsMade
  <1>3. Holds(LayerInput(fwd.layer), fwd.layer)
    BY DEF IInv, InputsHeld
  <1>4. ASSUME NEW r, Holds(r, fwd.layer)
        PROVE  buf[<<t.bank, r>>] = Tag(t)
    BY <1>1, <1>4 DEF Holds, Value, Tag
  <1>5. ASSUME NEW o, RowsWritten(o, fwd.a + fwd.R)
        PROVE  \A j \in 0 .. t.a + t.R - 1 : rows[o][j] = t.ordinal
    BY <1>0, <1>1, <1>5 DEF RowsWritten
  <1>6. CASE t.op = "norm1"
    <2>1. Reads(t) = {<<t.bank, LayerInput(t.layer)>>}
      BY <1>6, OperandTable
    <2>2. buf[<<t.bank, LayerInput(t.layer)>>] = Tag(t)
      BY <1>1, <1>3, <1>4
    <2>3. <<t.bank, LayerInput(t.layer)>> \in Owners
      <3>1. LayerInput(t.layer) \in Roles
        BY DEF LayerInput, Roles
      <3> QED
        BY <1>0, <1>1, <3>1, OwnerKinds
    <2> QED
      BY <2>1, <2>2, <2>3 DEF Sound
  <1>7. CASE t.op = "q"
    <2>1. Reads(t) = {<<t.bank, "attention_norm">>}
      BY <1>7, OperandTable
    <2>2. Holds("attention_norm", fwd.layer)
      <3>1. "norm1" \in LayerOps /\ StepOf("norm1") < StepOf(t.op)
        BY <1>7 DEF StepOf, LayerOps
      <3>2. Made("norm1")
        BY <1>2, <3>1
      <3> QED
        BY <3>2 DEF Made, Role
    <2>3. /\ buf[<<t.bank, "attention_norm">>] = Tag(t)
          /\ <<t.bank, "attention_norm">> \in Owners
      BY <1>0, <1>1, <1>4, <2>2, OwnerKinds DEF Roles
    <2> QED
      BY <2>1, <2>3 DEF Sound
  <1>8. CASE t.op = "k"
    <2>1. Reads(t) = {<<t.bank, "attention_norm">>}
      BY <1>8, OperandTable
    <2>2. Holds("attention_norm", fwd.layer)
      <3>1. "norm1" \in LayerOps /\ StepOf("norm1") < StepOf(t.op)
        BY <1>8 DEF StepOf, LayerOps
      <3>2. Made("norm1")
        BY <1>2, <3>1
      <3> QED
        BY <3>2 DEF Made, Role
    <2>3. /\ buf[<<t.bank, "attention_norm">>] = Tag(t)
          /\ <<t.bank, "attention_norm">> \in Owners
      BY <1>0, <1>1, <1>4, <2>2, OwnerKinds DEF Roles
    <2> QED
      BY <2>1, <2>3 DEF Sound
  <1>9. CASE t.op = "v"
    <2>1. Reads(t) = {<<t.bank, "attention_norm">>}
      BY <1>9, OperandTable
    <2>2. Holds("attention_norm", fwd.layer)
      <3>1. "norm1" \in LayerOps /\ StepOf("norm1") < StepOf(t.op)
        BY <1>9 DEF StepOf, LayerOps
      <3>2. Made("norm1")
        BY <1>2, <3>1
      <3> QED
        BY <3>2 DEF Made, Role
    <2>3. /\ buf[<<t.bank, "attention_norm">>] = Tag(t)
          /\ <<t.bank, "attention_norm">> \in Owners
      BY <1>0, <1>1, <1>4, <2>2, OwnerKinds DEF Roles
    <2> QED
      BY <2>1, <2>3 DEF Sound
  <1>10. CASE t.op = "rope_q"
    <2>1. Reads(t) = {<<t.bank, "q">>}
      BY <1>10, OperandTable
    <2>2. Holds("q", fwd.layer)
      <3>1. "q" \in LayerOps /\ StepOf("q") < StepOf(t.op)
        BY <1>10 DEF StepOf, LayerOps
      <3>2. Made("q")
        BY <1>2, <3>1
      <3> QED
        BY <3>2 DEF Made, Role
    <2>3. buf[<<t.bank, "q">>] = Tag(t) /\ <<t.bank, "q">> \in Owners
      BY <1>0, <1>1, <1>4, <2>2, OwnerKinds DEF Roles
    <2> QED
      BY <2>1, <2>3 DEF Sound
  <1>11. CASE t.op = "rope_k"
    <2>1. Reads(t) = {<<t.bank, "k">>}
      BY <1>11, OperandTable
    <2>2. Holds("k", fwd.layer)
      <3>1. "k" \in LayerOps /\ StepOf("k") < StepOf(t.op)
        BY <1>11 DEF StepOf, LayerOps
      <3>2. Made("k")
        BY <1>2, <3>1
      <3> QED
        BY <3>2 DEF Made, Role
    <2>3. buf[<<t.bank, "k">>] = Tag(t) /\ <<t.bank, "k">> \in Owners
      BY <1>0, <1>1, <1>4, <2>2, OwnerKinds DEF Roles
    <2> QED
      BY <2>1, <2>3 DEF Sound
  <1>12. CASE t.op = "append_k"
    <2>1. Reads(t) = {<<t.bank, "rotated_k">>}
      BY <1>12, OperandTable
    <2>2. Holds("rotated_k", fwd.layer)
      <3>1. "rope_k" \in LayerOps /\ StepOf("rope_k") < StepOf(t.op)
        BY <1>12 DEF StepOf, LayerOps
      <3>2. Made("rope_k")
        BY <1>2, <3>1
      <3> QED
        BY <3>2 DEF Made, Role
    <2>3. /\ buf[<<t.bank, "rotated_k">>] = Tag(t)
          /\ <<t.bank, "rotated_k">> \in Owners
      BY <1>0, <1>1, <1>4, <2>2, OwnerKinds DEF Roles
    <2> QED
      BY <2>1, <2>3 DEF Sound
  <1>13. CASE t.op = "append_v"
    <2>1. Reads(t) = {<<t.bank, "v">>}
      BY <1>13, OperandTable
    <2>2. Holds("v", fwd.layer)
      <3>1. "v" \in LayerOps /\ StepOf("v") < StepOf(t.op)
        BY <1>13 DEF StepOf, LayerOps
      <3>2. Made("v")
        BY <1>2, <3>1
      <3> QED
        BY <3>2 DEF Made, Role
    <2>3. buf[<<t.bank, "v">>] = Tag(t) /\ <<t.bank, "v">> \in Owners
      BY <1>0, <1>1, <1>4, <2>2, OwnerKinds DEF Roles
    <2> QED
      BY <2>1, <2>3 DEF Sound
  <1>14. CASE t.op = "sdpa"
    <2>1. Reads(t) = {<<t.bank, "rotated_q">>, <<"key", t.layer>>, <<"value", t.layer>>}
      BY <1>14, OperandTable
    <2>2. Holds("rotated_q", fwd.layer)
      <3>1. "rope_q" \in LayerOps /\ StepOf("rope_q") < StepOf(t.op)
        BY <1>14 DEF StepOf, LayerOps
      <3>2. Made("rope_q")
        BY <1>2, <3>1
      <3> QED
        BY <3>2 DEF Made, Role
    <2>3. /\ buf[<<t.bank, "rotated_q">>] = Tag(t)
          /\ <<t.bank, "rotated_q">> \in Owners
      BY <1>0, <1>1, <1>4, <2>2, OwnerKinds DEF Roles
    <2>4. RowsWritten(<<"key", fwd.layer>>, fwd.a + fwd.R)
      <3>1. "append_k" \in LayerOps /\ StepOf("append_k") < StepOf(t.op)
        BY <1>14 DEF StepOf, LayerOps
      <3>2. Made("append_k")
        BY <1>2, <3>1
      <3> QED
        BY <3>2, MadeTable
    <2>5. /\ <<"key", t.layer>> \notin Owners
          /\ \A n \in 0 .. t.a + t.R - 1 : rows[<<"key", t.layer>>][n] = t.ordinal
      BY <1>1, <1>5, <2>4, OwnerKinds
    <2>6. RowsWritten(<<"value", fwd.layer>>, fwd.a + fwd.R)
      <3>1. "append_v" \in LayerOps /\ StepOf("append_v") < StepOf(t.op)
        BY <1>14 DEF StepOf, LayerOps
      <3>2. Made("append_v")
        BY <1>2, <3>1
      <3> QED
        BY <3>2, MadeTable
    <2>7. /\ <<"value", t.layer>> \notin Owners
          /\ \A n \in 0 .. t.a + t.R - 1 : rows[<<"value", t.layer>>][n] = t.ordinal
      BY <1>1, <1>5, <2>6, OwnerKinds
    <2> QED
      BY <2>1, <2>3, <2>5, <2>7 DEF Sound
  <1>15. CASE t.op = "projection"
    <2>1. Reads(t) = {<<t.bank, "attention_merged">>}
      BY <1>15, OperandTable
    <2>2. Holds("attention_merged", fwd.layer)
      <3>1. "sdpa" \in LayerOps /\ StepOf("sdpa") < StepOf(t.op)
        BY <1>15 DEF StepOf, LayerOps
      <3>2. Made("sdpa")
        BY <1>2, <3>1
      <3> QED
        BY <3>2 DEF Made, Role
    <2>3. /\ buf[<<t.bank, "attention_merged">>] = Tag(t)
          /\ <<t.bank, "attention_merged">> \in Owners
      BY <1>0, <1>1, <1>4, <2>2, OwnerKinds DEF Roles
    <2> QED
      BY <2>1, <2>3 DEF Sound
  <1>16. CASE t.op = "first_residual"
    <2>1. Reads(t) = {<<t.bank, LayerInput(t.layer)>>, <<t.bank, "attention_output">>}
      BY <1>16, OperandTable
    <2>2. buf[<<t.bank, LayerInput(t.layer)>>] = Tag(t)
      BY <1>1, <1>3, <1>4
    <2>3. <<t.bank, LayerInput(t.layer)>> \in Owners
      <3>1. LayerInput(t.layer) \in Roles
        BY DEF LayerInput, Roles
      <3> QED
        BY <1>0, <1>1, <3>1, OwnerKinds
    <2>4. Holds("attention_output", fwd.layer)
      <3>1. "projection" \in LayerOps /\ StepOf("projection") < StepOf(t.op)
        BY <1>16 DEF StepOf, LayerOps
      <3>2. Made("projection")
        BY <1>2, <3>1
      <3> QED
        BY <3>2 DEF Made, Role
    <2>5. /\ buf[<<t.bank, "attention_output">>] = Tag(t)
          /\ <<t.bank, "attention_output">> \in Owners
      BY <1>0, <1>1, <1>4, <2>4, OwnerKinds DEF Roles
    <2> QED
      BY <2>1, <2>2, <2>3, <2>5 DEF Sound
  <1>17. CASE t.op = "norm2"
    <2>1. Reads(t) = {<<t.bank, "residual_after_attention">>}
      BY <1>17, OperandTable
    <2>2. Holds("residual_after_attention", fwd.layer)
      <3>1. /\ "first_residual" \in LayerOps
            /\ StepOf("first_residual") < StepOf(t.op)
        BY <1>17 DEF StepOf, LayerOps
      <3>2. Made("first_residual")
        BY <1>2, <3>1
      <3> QED
        BY <3>2 DEF Made, Role
    <2>3. /\ buf[<<t.bank, "residual_after_attention">>] = Tag(t)
          /\ <<t.bank, "residual_after_attention">> \in Owners
      BY <1>0, <1>1, <1>4, <2>2, OwnerKinds DEF Roles
    <2> QED
      BY <2>1, <2>3 DEF Sound
  <1>18. CASE t.op = "gate"
    <2>1. Reads(t) = {<<t.bank, "mlp_norm">>}
      BY <1>18, OperandTable
    <2>2. Holds("mlp_norm", fwd.layer)
      <3>1. "norm2" \in LayerOps /\ StepOf("norm2") < StepOf(t.op)
        BY <1>18 DEF StepOf, LayerOps
      <3>2. Made("norm2")
        BY <1>2, <3>1
      <3> QED
        BY <3>2 DEF Made, Role
    <2>3. /\ buf[<<t.bank, "mlp_norm">>] = Tag(t)
          /\ <<t.bank, "mlp_norm">> \in Owners
      BY <1>0, <1>1, <1>4, <2>2, OwnerKinds DEF Roles
    <2> QED
      BY <2>1, <2>3 DEF Sound
  <1>19. CASE t.op = "up"
    <2>1. Reads(t) = {<<t.bank, "mlp_norm">>}
      BY <1>19, OperandTable
    <2>2. Holds("mlp_norm", fwd.layer)
      <3>1. "norm2" \in LayerOps /\ StepOf("norm2") < StepOf(t.op)
        BY <1>19 DEF StepOf, LayerOps
      <3>2. Made("norm2")
        BY <1>2, <3>1
      <3> QED
        BY <3>2 DEF Made, Role
    <2>3. /\ buf[<<t.bank, "mlp_norm">>] = Tag(t)
          /\ <<t.bank, "mlp_norm">> \in Owners
      BY <1>0, <1>1, <1>4, <2>2, OwnerKinds DEF Roles
    <2> QED
      BY <2>1, <2>3 DEF Sound
  <1>20. CASE t.op = "silu"
    <2>1. Reads(t) = {<<t.bank, "gate">>}
      BY <1>20, OperandTable
    <2>2. Holds("gate", fwd.layer)
      <3>1. "gate" \in LayerOps /\ StepOf("gate") < StepOf(t.op)
        BY <1>20 DEF StepOf, LayerOps
      <3>2. Made("gate")
        BY <1>2, <3>1
      <3> QED
        BY <3>2 DEF Made, Role
    <2>3. buf[<<t.bank, "gate">>] = Tag(t) /\ <<t.bank, "gate">> \in Owners
      BY <1>0, <1>1, <1>4, <2>2, OwnerKinds DEF Roles
    <2> QED
      BY <2>1, <2>3 DEF Sound
  <1>21. CASE t.op = "mul"
    <2>1. Reads(t) = {<<t.bank, "silu">>, <<t.bank, "up">>}
      BY <1>21, OperandTable
    <2>2. Holds("silu", fwd.layer)
      <3>1. "silu" \in LayerOps /\ StepOf("silu") < StepOf(t.op)
        BY <1>21 DEF StepOf, LayerOps
      <3>2. Made("silu")
        BY <1>2, <3>1
      <3> QED
        BY <3>2 DEF Made, Role
    <2>3. buf[<<t.bank, "silu">>] = Tag(t) /\ <<t.bank, "silu">> \in Owners
      BY <1>0, <1>1, <1>4, <2>2, OwnerKinds DEF Roles
    <2>4. Holds("up", fwd.layer)
      <3>1. "up" \in LayerOps /\ StepOf("up") < StepOf(t.op)
        BY <1>21 DEF StepOf, LayerOps
      <3>2. Made("up")
        BY <1>2, <3>1
      <3> QED
        BY <3>2 DEF Made, Role
    <2>5. buf[<<t.bank, "up">>] = Tag(t) /\ <<t.bank, "up">> \in Owners
      BY <1>0, <1>1, <1>4, <2>4, OwnerKinds DEF Roles
    <2> QED
      BY <2>1, <2>3, <2>5 DEF Sound
  <1>22. CASE t.op = "down"
    <2>1. Reads(t) = {<<t.bank, "product">>}
      BY <1>22, OperandTable
    <2>2. Holds("product", fwd.layer)
      <3>1. "mul" \in LayerOps /\ StepOf("mul") < StepOf(t.op)
        BY <1>22 DEF StepOf, LayerOps
      <3>2. Made("mul")
        BY <1>2, <3>1
      <3> QED
        BY <3>2 DEF Made, Role
    <2>3. /\ buf[<<t.bank, "product">>] = Tag(t)
          /\ <<t.bank, "product">> \in Owners
      BY <1>0, <1>1, <1>4, <2>2, OwnerKinds DEF Roles
    <2> QED
      BY <2>1, <2>3 DEF Sound
  <1>23. CASE t.op = "residual"
    <2>1. Reads(t) = {<<t.bank, "residual_after_attention">>, <<t.bank, "down">>}
      BY <1>23, OperandTable
    <2>2. Holds("residual_after_attention", fwd.layer)
      <3>1. /\ "first_residual" \in LayerOps
            /\ StepOf("first_residual") < StepOf(t.op)
        BY <1>23 DEF StepOf, LayerOps
      <3>2. Made("first_residual")
        BY <1>2, <3>1
      <3> QED
        BY <3>2 DEF Made, Role
    <2>3. /\ buf[<<t.bank, "residual_after_attention">>] = Tag(t)
          /\ <<t.bank, "residual_after_attention">> \in Owners
      BY <1>0, <1>1, <1>4, <2>2, OwnerKinds DEF Roles
    <2>4. Holds("down", fwd.layer)
      <3>1. "down" \in LayerOps /\ StepOf("down") < StepOf(t.op)
        BY <1>23 DEF StepOf, LayerOps
      <3>2. Made("down")
        BY <1>2, <3>1
      <3> QED
        BY <3>2 DEF Made, Role
    <2>5. buf[<<t.bank, "down">>] = Tag(t) /\ <<t.bank, "down">> \in Owners
      BY <1>0, <1>1, <1>4, <2>4, OwnerKinds DEF Roles
    <2> QED
      BY <2>1, <2>3, <2>5 DEF Sound
  <1> QED
    BY <1>1, <1>6, <1>7, <1>8, <1>9, <1>10, <1>11, <1>12, <1>13, <1>14, <1>15,
       <1>16, <1>17, <1>18, <1>19, <1>20, <1>21, <1>22, <1>23 DEF LayerOps

(* So does the operation the session waits for outside the layers. *)
LEMMA SoundAwaited ==
    ASSUME IInv, Awaited
    PROVE  Sound(ledger[Len(ledger)])
  <1> DEFINE t == ledger[Len(ledger)]
  <1> SUFFICES Sound(t)
    OBVIOUS
  <1>0. fwd.bank \in Banks
    BY DEF IInv, TypeOK, Forwards
  <1>1. \/ /\ OfForward(t, "embedding", 0) /\ Holds("token_indices", 0)
        \/ /\ OfForward(t, "final_norm", Config.L)
           /\ Holds(final_layer_output(Config.L), Config.L)
        \/ /\ OfForward(t, "lm_head", Config.L) /\ Holds("final_norm", Config.L)
    BY DEF IInv, LastIsAwaited, InputsHeld, OutputsHeld, Awaited
  <1> HIDE DEF t
  <1>2. ASSUME NEW op, NEW r \in Roles, NEW l, OfForward(t, op, l), Holds(r, l),
               Reads(t) = {<<t.bank, r>>}
        PROVE  Sound(t)
    <2>1. <<t.bank, r>> \in Owners /\ buf[<<t.bank, r>>] = Tag(t)
      BY <1>0, <1>2, OwnerKinds DEF OfForward, Holds, Value, Tag
    <2> QED
      BY <1>2, <2>1 DEF Sound
  <1>3. /\ "token_indices" \in Roles /\ "final_norm" \in Roles
        /\ final_layer_output(Config.L) \in Roles
    BY DEF Roles, final_layer_output
  <1>4. CASE OfForward(t, "embedding", 0) /\ Holds("token_indices", 0)
    <2>1. Reads(t) = {<<t.bank, "token_indices">>}
      BY <1>4, OperandTable DEF OfForward
    <2> QED
      BY <1>2, <1>3, <1>4, <2>1
  <1>5. CASE OfForward(t, "final_norm", Config.L)
             /\ Holds(final_layer_output(Config.L), Config.L)
    <2>1. Reads(t) = {<<t.bank, final_layer_output(Config.L)>>}
      BY <1>5, OperandTable DEF OfForward
    <2> QED
      BY <1>2, <1>3, <1>5, <2>1
  <1>6. CASE OfForward(t, "lm_head", Config.L) /\ Holds("final_norm", Config.L)
    <2>1. Reads(t) = {<<t.bank, "final_norm">>}
      BY <1>6, OperandTable DEF OfForward
    <2> QED
      BY <1>2, <1>3, <1>6, <2>1
  <1> QED
    BY <1>1, <1>4, <1>5, <1>6

(* The awaited operation ends. *)
LEMMA LedgerFinishKeeps ==
    ASSUME IInv, NEW i \in DOMAIN ledger, NEW outcome \in {"ok", "failed"},
           ledger[i].st = "pending",
           ledger' = [ledger EXCEPT ![i].st = outcome],
           IF outcome = "ok" THEN Produce(ledger[i]) ELSE UNCHANGED <<buf, rows>>,
           UNCHANGED <<pc, call, need, request, group, fwd, prefix, poisoned, err,
                       drainAt, drained, ret, calls, metrics>>
    PROVE  IInv'
  <1>0. /\ TypeOK /\ PoisonStops /\ LedgerSettled /\ LastIsAwaited
        /\ GroupSettled /\ GroupOfStep /\ FirstFailureKept /\ PlaceInForward
        /\ PrefixesInStep /\ HistoryCounted /\ InputsHeld /\ StepsMade
        /\ OutputsHeld /\ CachesWritten /\ PlanKept /\ CallPlaced
        /\ AttemptPlaced /\ Counted /\ RatesEarned /\ RowsPaired /\ RowsTruthful
    BY DEF IInv
  <1> DEFINE t == ledger[i]
             u == [t EXCEPT !.st = outcome]
  <1>1. /\ ledger \in Seq(Accepted) /\ buf \in BufType /\ rows \in RowsType
        /\ fwd.bank \in Banks
    BY <1>0 DEF TypeOK, BufType, RowsType, Forwards
  <1>2. t \in Accepted
    BY <1>1
  <1>3. u \in Accepted /\ u.st = outcome /\ u.op = t.op /\ u.ordinal = t.ordinal
        /\ u.bank = t.bank /\ u.a = t.a /\ u.R = t.R /\ u.layer = t.layer
    <2> HIDE DEF t
    <2> QED
      BY <1>2 DEF Accepted, Tokens
  <1>4. t \in Members /\ t.op \notin LayerOps
    <2> HIDE DEF t
    <2> QED
      BY <1>2 DEF Accepted, Members, Tokens, Ops, LayerOps
  <1>5. i = Len(ledger) /\ (poisoned => pc = "drain_throw") /\ (~poisoned => Awaited)
    BY <1>0 DEF LedgerSettled
  <1>6. /\ ledger' \in Seq(Accepted) /\ Len(ledger') = Len(ledger)
        /\ DOMAIN ledger' = DOMAIN ledger /\ ledger'[i] = u
        /\ \A j \in DOMAIN ledger : j # i => ledger'[j] = ledger[j]
    <2>1. ledger' = [ledger EXCEPT ![i] = u]
      OBVIOUS
    <2> HIDE DEF u
    <2> QED
      BY <1>1, <1>3, <2>1
  <1>7. t.bank \in Banks /\ t.op \in {"embedding", "final_norm", "lm_head"}
    <2> HIDE DEF t
    <2> QED
      BY <1>2 DEF Accepted, Tokens
  <1>8. Writes(t) \in Owners
    <2>1. \/ Writes(t) = <<t.bank, "x">>
          \/ Writes(t) = <<t.bank, "final_norm">>
          \/ Writes(t) = Logits
      BY <1>7, OperandTable
    <2>2. "x" \in Roles /\ "final_norm" \in Roles
      BY DEF Roles
    <2> QED
      BY <1>7, <2>1, <2>2, OwnerKinds
  <1>9. /\ buf' \in BufType /\ rows' = rows
        /\ \A o \in Owners : o # Writes(t) => buf'[o] = buf[o]
        /\ outcome = "ok" /\ Sound(t) => buf'[Writes(t)] = Tag(t)
    <2>1. CASE outcome = "ok"
      <3>1. Produce(t)
        BY <2>1
      <3>2. rows' = rows
        BY <1>8, <3>1 DEF Produce
      <3>3. t.op # "residual"
        BY <1>7
      <3> QED
        BY <1>1, <1>4, <1>8, <3>1, <3>2, <3>3, ProduceEffect
    <2>2. CASE outcome # "ok"
      BY <1>1, <2>2
    <2> QED
      BY <2>1, <2>2
  <1>10. outcome = "ok" /\ ~poisoned => buf'[Writes(t)] = Tag(t)
    BY <1>5, <1>9, SoundAwaited
  <1>11. ~poisoned =>
            \/ pc = "layer" /\ fwd.layer = 0 /\ OfForward(t, "embedding", 0)
            \/ pc = "await_norm" /\ OfForward(t, "final_norm", Config.L)
            \/ pc = "ready" /\ OfForward(t, "lm_head", Config.L)
    BY <1>0, <1>5 DEF LastIsAwaited, Awaited
  <1>12. LastDone' <=> outcome = "ok"
    BY <1>3, <1>5, <1>6 DEF LastDone
  <1> HIDE DEF t, u
  <1>13. ~poisoned =>
            /\ pc = "layer" => Writes(t) = <<fwd.bank, "x">> /\ Tag(t) = Value(0)
            /\ pc = "await_norm" => /\ Writes(t) = <<fwd.bank, "final_norm">>
                                    /\ Tag(t) = Value(Config.L)
            /\ pc = "ready" => Writes(t) = Logits /\ Tag(t) = Value(Config.L)
    BY <1>11, OperandTable DEF OfForward, Tag, Value
  <1>14. /\ <<fwd.bank, "token_indices">> \in Owners
         /\ <<fwd.bank, "final_norm">> \in Owners
         /\ <<fwd.bank, final_layer_output(Config.L)>> \in Owners
         /\ <<fwd.bank, "final_norm">> # Logits
         /\ <<fwd.bank, final_layer_output(Config.L)>> # <<fwd.bank, "final_norm">>
         /\ <<fwd.bank, "token_indices">> # <<fwd.bank, "x">>
    <2>1. /\ "token_indices" \in Roles /\ "final_norm" \in Roles
          /\ final_layer_output(Config.L) \in Roles
          /\ final_layer_output(Config.L) # "final_norm"
      BY DEF final_layer_output, Roles
    <2> QED
      BY <1>1, <2>1, OwnerKinds
  <1>15. \A v : Value(v)' = Value(v)
    BY DEF Value
  <1>16. ~poisoned /\ pc = "layer" =>
            /\ Holds("token_indices", 0)' /\ (LastDone' => Holds("x", 0)')
    BY <1>0, <1>9, <1>10, <1>11, <1>12, <1>13, <1>14, <1>15 DEF InputsHeld,
       Holds
  <1>17. ~poisoned /\ pc = "await_norm" =>
            /\ Holds(final_layer_output(Config.L), Config.L)'
            /\ (LastDone' => Holds("final_norm", Config.L)')
    BY <1>0, <1>9, <1>10, <1>12, <1>13, <1>14, <1>15 DEF InputsHeld, Holds
  <1>18. ~poisoned /\ pc = "ready" =>
            /\ Holds("final_norm", Config.L)'
            /\ (LastDone' => buf'[Logits] = Value(Config.L)')
    BY <1>0, <1>9, <1>10, <1>12, <1>13, <1>14, <1>15 DEF OutputsHeld, Holds
  <1>19. \/ poisoned /\ pc = "drain_throw"
         \/ ~poisoned /\ pc = "layer" /\ fwd.layer = 0
         \/ ~poisoned /\ pc = "await_norm"
         \/ ~poisoned /\ pc = "ready"
    BY <1>5, <1>11
  <1>20. ~poisoned => \A op, l : OfForward(ledger[Len(ledger)], op, l)' =
                                OfForward(ledger[Len(ledger)], op, l)
    BY <1>3, <1>5, <1>6 DEF OfForward, t
  <1>21. Broken' = Broken
    BY DEF Broken
  <1>22. ledger' # <<>> <=> ledger # <<>>
    BY <1>1, <1>6
  <1>c1. TypeOK'
    BY <1>0, <1>19, <1>6, <1>9 DEF TypeOK, Pcs, Published, Forward, BufType
  <1>c2. PoisonStops'
    BY <1>0, <1>19 DEF PoisonStops
  <1>c3. LedgerSettled'
    BY <1>0, <1>19, <1>3, <1>5, <1>6 DEF LedgerSettled, Awaited, PoisonStops
  <1>c4. LastIsAwaited'
    BY <1>0, <1>19, <1>20, <1>22 DEF LastIsAwaited, Awaited
  <1>c5. GroupSettled'
    BY <1>0, <1>19 DEF GroupSettled
  <1>c6. GroupOfStep'
    BY <1>0, <1>19 DEF GroupOfStep, OfForward
  <1>c7. FirstFailureKept'
    BY <1>0, <1>19, <1>21 DEF FirstFailureKept
  <1>c8. PlaceInForward'
    BY <1>0, <1>19 DEF PlaceInForward, Published, Forward
  <1>c9. PrefixesInStep'
    BY <1>0, <1>19 DEF PrefixesInStep, Published, Forward
  <1>c10. HistoryCounted'
    BY <1>0, <1>19 DEF HistoryCounted, Published, Forward
  <1>c11. InputsHeld'
    BY <1>0, <1>19, <1>16, <1>17 DEF InputsHeld
  <1>c12. StepsMade'
    BY <1>0, <1>19 DEF StepsMade
  <1>c13. OutputsHeld'
    BY <1>0, <1>19, <1>17, <1>18 DEF OutputsHeld
  <1>c14. CachesWritten'
    BY <1>0, <1>19, <1>9 DEF CachesWritten, Published, Forward, RowsWritten
  <1>c15. PlanKept'
    <2>1. PlanAccepted' = PlanAccepted
      BY DEF PlanAccepted
    <2> QED
      BY <1>0, <2>1 DEF PlanKept
  <1>c16. CallPlaced'
    BY <1>0, <1>19 DEF CallPlaced, InRequest, InSetup, NoCall, Published,
       Forward
  <1>c17. AttemptPlaced'
    BY <1>0, <1>19 DEF AttemptPlaced, InRequest, InSetup, Published, Forward
  <1>c18. Counted'
    BY <1>0, <1>19 DEF Counted, Published, Forward
  <1>c19. RatesEarned'
    BY <1>0, <1>19 DEF RatesEarned
  <1>c20. RowsPaired'
    BY <1>0, <1>19, <1>6, <1>22 DEF RowsPaired, Published, Forward
  <1>c21. RowsTruthful'
    BY <1>0, <1>19, <1>6 DEF RowsTruthful
  <1> QED
    BY <1>c1, <1>c2, <1>c3, <1>c4, <1>c5, <1>c6, <1>c7, <1>c8, <1>c9, <1>c10,
       <1>c11, <1>c12, <1>c13, <1>c14, <1>c15, <1>c16, <1>c17, <1>c18, <1>c19,
       <1>c20, <1>c21 DEF IInv

(* A member that ends well leaves behind what the layer counts on. *)
LEMMA MemberMakes ==
    ASSUME IInv, pc = "step", UNCHANGED <<fwd, request>>, NEW op \in LayerOps,
           Frame(Target(op)),
           op \in {"append_k", "append_v"} =>
               \A n \in fwd.a .. fwd.a + fwd.R - 1 :
                   rows'[Target(op)][n] = request.ordinal,
           op = "residual" =>
               buf'[Target(op)] = <<request.ordinal, fwd.a, fwd.layer + 1>>,
           op \in InnerOps =>
               buf'[Target(op)] = <<request.ordinal, fwd.a, fwd.layer>>
    PROVE  Made(op)'
  <1>1. /\ fwd.layer \in Layers /\ fwd.a \in Nat /\ fwd.R \in Nat
        /\ <<"key", fwd.layer>> \in Caches /\ <<"value", fwd.layer>> \in Caches
    BY InStep, OwnerKinds
  <1>2. \A o \in Caches : RowsWritten(o, IF o[2] < fwd.layer
                                         THEN fwd.a + fwd.R ELSE fwd.a)'
    BY MemberFrame
  <1>3. ASSUME NEW o \in Caches, o[2] = fwd.layer,
               \A j \in fwd.a .. fwd.a + fwd.R - 1 : rows'[o][j] = request.ordinal
        PROVE  RowsWritten(o, fwd.a + fwd.R)'
    <2>1. ~(o[2] < fwd.layer)
      BY <1>1, <1>3, ConfigFacts DEF Layers
    <2>2. RowsWritten(o, fwd.a)'
      BY <1>2, <2>1
    <2>3. \A j \in 0 .. fwd.a - 1 : rows'[o][j] = request.ordinal
      BY <2>2 DEF RowsWritten
    <2>4. \A j \in 0 .. fwd.a + fwd.R - 1 :
             j \in 0 .. fwd.a - 1 \/ j \in fwd.a .. fwd.a + fwd.R - 1
      BY <1>1
    <2>5. \A j \in 0 .. fwd.a + fwd.R - 1 : rows'[o][j] = request.ordinal
      BY <1>3, <2>3, <2>4
    <2>6. fwd'.a = fwd.a /\ fwd'.R = fwd.R /\ request'.ordinal = request.ordinal
      OBVIOUS
    <2> QED
      BY <1>1, <2>5, <2>6 DEF RowsWritten
  <1>4. CASE op = "append_k"
    <2> DEFINE o == <<"key", fwd.layer>>
    <2>1. o \in Caches /\ o[2] = fwd.layer /\ Target(op) = o /\ o' = o
      BY <1>1, <1>4, TargetTable
    <2> HIDE DEF o
    <2>2. RowsWritten(o, fwd.a + fwd.R)'
      BY <1>3, <1>4, <2>1
    <2> QED
      BY <1>4, <2>2 DEF Made, o
  <1>5. CASE op = "append_v"
    <2> DEFINE o == <<"value", fwd.layer>>
    <2>1. o \in Caches /\ o[2] = fwd.layer /\ Target(op) = o /\ o' = o
      BY <1>1, <1>5, TargetTable
    <2> HIDE DEF o
    <2>2. RowsWritten(o, fwd.a + fwd.R)'
      BY <1>3, <1>5, <2>1
    <2> QED
      BY <1>5, <2>2 DEF Made, o
  <1>6. CASE op = "residual"
    <2>1. buf'[<<fwd.bank, LayerOutput(fwd.layer)>>] =
              <<request.ordinal, fwd.a, fwd.layer + 1>>
      BY <1>6, TargetTable
    <2>2. Holds(LayerOutput(fwd.layer), fwd.layer + 1)'
      BY <2>1 DEF Holds, Value
    <2> QED
      BY <1>6, <2>2 DEF Made
  <1>7. CASE op \in InnerOps
    <2>1. buf'[<<fwd.bank, Role(op)>>] = <<request.ordinal, fwd.a, fwd.layer>>
      BY <1>7, TargetTable
    <2>2. Holds(Role(op), fwd.layer)'
      BY <2>1 DEF Holds, Value
    <2> QED
      BY <1>7, <2>2 DEF Made, InnerOps
  <1> QED
    BY <1>4, <1>5, <1>6, <1>7 DEF InnerOps

(* A member of the running step ends. *)
LEMMA GroupFinishKeeps ==
    ASSUME IInv, NEW i \in DOMAIN group, NEW outcome \in {"ok", "failed"},
           group[i].st = "pending",
           group' = [group EXCEPT ![i].st = outcome],
           IF outcome = "ok" THEN Produce(group[i]) ELSE UNCHANGED <<buf, rows>>,
           UNCHANGED <<pc, call, need, request, ledger, fwd, prefix, poisoned,
                       err, drainAt, drained, ret, calls, metrics>>
    PROVE  IInv'
  <1>0. /\ TypeOK /\ PoisonStops /\ LedgerSettled /\ LastIsAwaited
        /\ GroupSettled /\ GroupOfStep /\ FirstFailureKept /\ PlaceInForward
        /\ PrefixesInStep /\ HistoryCounted /\ InputsHeld /\ StepsMade
        /\ OutputsHeld /\ CachesWritten /\ PlanKept /\ CallPlaced
        /\ AttemptPlaced /\ Counted /\ RatesEarned /\ RowsPaired /\ RowsTruthful
    BY DEF IInv
  <1> DEFINE t == group[i]
             u == [t EXCEPT !.st = outcome]
             op == LayerSteps[fwd.step][i]
  <1>1. pc = "step"
    BY <1>0 DEF GroupSettled
  <1>2. /\ group \in Seq(Members) /\ DOMAIN group = 1 .. Len(group)
        /\ Len(group) \in Nat /\ Len(group) <= Len(LayerSteps[fwd.step])
        /\ Len(LayerSteps[fwd.step]) \in 1 .. 3
        /\ fwd \in Forwards /\ fwd.layer \in Layers /\ fwd.step \in 1 .. 13
        /\ fwd.a \in Nat /\ fwd.R \in Nat /\ fwd.a + fwd.R <= Config.C
        /\ \A j \in DOMAIN group :
               OfForward(group[j], LayerSteps[fwd.step][j], fwd.layer)
    BY <1>1, InStep
  <1>3. t \in Members /\ OfForward(t, op, fwd.layer)
    BY <1>2
  <1>4. \A j \in DOMAIN group : /\ LayerSteps[fwd.step][j] \in LayerOps
                               /\ StepOf(LayerSteps[fwd.step][j]) = fwd.step
    <2>1. \A j \in DOMAIN group : j \in 1 .. Len(LayerSteps[fwd.step])
      BY <1>2
    <2> QED
      BY <1>1, <2>1, InStep
  <1>5. \A j \in DOMAIN group : j # i => LayerSteps[fwd.step][j] # op
    <2>1. \A j \in DOMAIN group : j \in 1 .. Len(LayerSteps[fwd.step])
      BY <1>2
    <2>2. \A j, k \in 1 .. Len(LayerSteps[fwd.step]) :
             j # k => LayerSteps[fwd.step][j] # LayerSteps[fwd.step][k]
      BY <1>2, StepMembers, Zenon
    <2> QED
      BY <2>1, <2>2
  <1>6. op \in LayerOps /\ StepOf(op) = fwd.step
    BY <1>4
  <1>7. Sound(t)
    BY <1>1, SoundMember
  <1>8. /\ u \in Members /\ u.st = outcome /\ u.op = t.op /\ u.ordinal = t.ordinal
        /\ u.bank = t.bank /\ u.a = t.a /\ u.R = t.R /\ u.layer = t.layer
    <2> HIDE DEF t
    <2> QED
      BY <1>3 DEF Members, Tokens
  <1>9. /\ group' \in Seq(Members) /\ Len(group') = Len(group)
        /\ DOMAIN group' = DOMAIN group /\ group'[i] = u
        /\ \A j \in DOMAIN group : j # i => group'[j] = group[j]
    <2>1. group' = [group EXCEPT ![i] = u]
      OBVIOUS
    <2>2. group \in Seq(Members) /\ u \in Members
      BY <1>2, <1>8
    <2> HIDE DEF u, t
    <2> QED
      BY <2>1, <2>2
  <1>10. outcome = "ok" => Produce(t)
    OBVIOUS
  <1>11. outcome # "ok" => UNCHANGED <<buf, rows>>
    OBVIOUS
  <1> HIDE DEF t, u, op
  <1>12. /\ t.a = fwd.a /\ t.R = fwd.R /\ t.layer = fwd.layer /\ t.bank = fwd.bank
         /\ t.ordinal = request.ordinal /\ t.op = op
    BY <1>3 DEF OfForward
  <1>13. Writes(t) = Target(op)
    BY <1>3, <1>6, TargetOf
  <1>14. buf \in BufType /\ rows \in RowsType
    BY <1>0 DEF TypeOK, BufType, RowsType
  <1>15. outcome = "ok" =>
           /\ buf' \in BufType /\ rows' \in RowsType
           /\ \A o \in Owners : o # Writes(t) => buf'[o] = buf[o]
           /\ \A o \in Caches : \A n \in 0 .. Config.C - 1 :
                  o # Writes(t) \/ n < t.a => rows'[o][n] = rows[o][n]
           /\ Writes(t) \in Owners /\ t.op # "residual" =>
                  buf'[Writes(t)] = Tag(t)
           /\ Writes(t) \in Owners /\ t.op = "residual" =>
                  buf'[Writes(t)] = <<t.ordinal, t.a, t.layer + 1>>
           /\ Writes(t) \in Caches =>
                  \A n \in Span(t) \cap (0 .. Config.C - 1) :
                      rows'[Writes(t)][n] = t.ordinal
    <2>1. t.op \in LayerOps => t.layer \in Layers
      BY <1>2, <1>12
    <2> QED
      BY <1>3, <1>7, <1>10, <1>14, <2>1, ProduceEffect
  <1>16. buf' \in BufType /\ rows' \in RowsType /\ Frame(Target(op))
    BY <1>11, <1>12, <1>13, <1>14, <1>15 DEF Frame
  <1>17. /\ \A o \in LayerOps : o # op /\ Made(o) => Made(o)'
         /\ Holds(LayerInput(fwd.layer), fwd.layer)'
         /\ \A o \in Caches : RowsWritten(o, IF o[2] < fwd.layer
                                             THEN fwd.a + fwd.R ELSE fwd.a)'
    BY <1>1, <1>6, <1>16, MemberFrame
  <1>18. outcome = "ok" => Made(op)'
    <2>0. SUFFICES ASSUME outcome = "ok" PROVE Made(op)'
      OBVIOUS
    <2>1. /\ op \notin {"append_k", "append_v"} => Target(op) \in Owners
          /\ op \in {"append_k", "append_v"} => Target(op) \in Caches
      BY <1>2, <1>6, TargetTable, TargetsDiffer, OwnerKinds
    <2>2. op \in {"append_k", "append_v"} =>
             \A n \in fwd.a .. fwd.a + fwd.R - 1 :
                 rows'[Target(op)][n] = request.ordinal
      <3>1. \A n \in fwd.a .. fwd.a + fwd.R - 1 :
               n \in Span(t) \cap (0 .. Config.C - 1)
        BY <1>2, <1>12, ConfigFacts DEF Span
      <3> QED
        BY <1>12, <1>13, <1>15, <2>0, <2>1, <3>1
    <2>3. op = "residual" =>
              buf'[Target(op)] = <<request.ordinal, fwd.a, fwd.layer + 1>>
      BY <1>12, <1>13, <1>15, <2>0, <2>1
    <2>4. op \in InnerOps =>
              buf'[Target(op)] = <<request.ordinal, fwd.a, fwd.layer>>
      <3>1. op \in InnerOps => op # "residual" /\ op \notin {"append_k", "append_v"}
        BY DEF InnerOps
      <3> QED
        BY <1>12, <1>13, <1>15, <2>0, <2>1, <3>1 DEF Tag
    <2>5. \A o \in LayerOps : o = op => Made(o)'
      BY <1>1, <1>16, <2>2, <2>3, <2>4, MemberMakes
    <2>6. op' = op
      BY DEF op
    <2> QED
      BY <1>6, <2>5, <2>6
  <1>19. PlanAccepted'
    BY <1>0, <1>1 DEF PlanKept, PlanAccepted, Published, Forward
  <1>20. \A j \in DOMAIN group :
            /\ OfForward(group[j], LayerSteps[fwd.step][j], fwd.layer)'
            /\ group'[j].op = group[j].op
            /\ group[j].op = LayerSteps[fwd.step][j]
    <2>1. \A j \in DOMAIN group : j # i =>
            /\ OfForward(group'[j], LayerSteps[fwd.step][j], fwd.layer)
            /\ group'[j].op = group[j].op
      BY <1>2, <1>9
    <2>2. OfForward(u, op, fwd.layer) /\ u.op = t.op
      BY <1>3, <1>8 DEF OfForward
    <2>3. \A j \in DOMAIN group :
            /\ OfForward(group'[j], LayerSteps[fwd.step][j], fwd.layer)
            /\ group'[j].op = group[j].op
      BY <1>9, <2>1, <2>2 DEF op, t
    <2> QED
      BY <1>2, <2>3 DEF OfForward
  <1>c1. TypeOK'
    BY <1>0, <1>1, <1>9, <1>16 DEF TypeOK, Pcs, Published, Forward, BufType,
       RowsType
  <1>c2. PoisonStops'
    BY <1>0, <1>1 DEF PoisonStops
  <1>c3. LedgerSettled'
    BY <1>0, <1>1 DEF LedgerSettled, Awaited, PoisonStops
  <1>c4. LastIsAwaited'
    BY <1>0, <1>1 DEF LastIsAwaited, Awaited, OfForward
  <1>c5. GroupSettled'
    BY <1>0, <1>1 DEF GroupSettled
  <1>c6. GroupOfStep'
    BY <1>0, <1>1, <1>2, <1>9, <1>20 DEF GroupOfStep
  <1>c7. FirstFailureKept'
    BY <1>0, <1>1 DEF FirstFailureKept
  <1>c8. PlaceInForward'
    BY <1>0, <1>1 DEF PlaceInForward, Published, Forward
  <1>c9. PrefixesInStep'
    BY <1>0, <1>1 DEF PrefixesInStep, Published, Forward
  <1>c10. HistoryCounted'
    BY <1>0, <1>1 DEF HistoryCounted, Published, Forward
  <1>c11. InputsHeld'
    BY <1>0, <1>1, <1>17 DEF InputsHeld
  <1>c12. StepsMade'
    <2>1. ASSUME NEW o \in LayerOps, StepOf(o) < fwd.step
          PROVE  Made(o)'
      <3>1. o # op
        BY <1>2, <1>6, <2>1
      <3> QED
        BY <1>0, <1>1, <1>17, <2>1, <3>1 DEF StepsMade
    <2>2. ASSUME NEW j \in DOMAIN group', group'[j].st = "ok"
          PROVE  Made(group[j].op)'
      <3> DEFINE o == LayerSteps[fwd.step][j]
      <3>1. /\ j \in DOMAIN group /\ o \in LayerOps /\ group'[j].op = o
            /\ group[j].op = o
        BY <1>4, <1>9, <1>20
      <3>2. o' = o
        OBVIOUS
      <3>3. CASE j = i
        <4>1. outcome = "ok" /\ o = op
          BY <1>8, <1>9, <2>2, <3>3 DEF op
        <4>2. op' = op
          BY DEF op
        <4> HIDE DEF o
        <4> QED
          BY <1>18, <3>1, <3>2, <4>1, <4>2
      <3>4. CASE j # i
        <4>1. group[j].st = "ok" /\ o # op
          BY <1>5, <1>9, <2>2, <3>1, <3>4
        <4>2. Made(o)
          BY <1>0, <1>1, <3>1, <4>1 DEF StepsMade
        <4> HIDE DEF o
        <4>3. Made(o)'
          BY <1>17, <3>1, <3>2, <4>1, <4>2
        <4> QED
          BY <3>1, <3>2, <4>3
      <3> QED
        BY <3>3, <3>4
    <2> QED
      BY <1>1, <2>1, <2>2 DEF StepsMade
  <1>c13. OutputsHeld'
    BY <1>0, <1>1 DEF OutputsHeld
  <1>c14. CachesWritten'
    BY <1>0, <1>1, <1>17 DEF CachesWritten, Forward
  <1>c15. PlanKept'
    BY <1>0, <1>1, <1>19 DEF PlanKept, Published, Forward
  <1>c16. CallPlaced'
    BY <1>0, <1>1 DEF CallPlaced, InRequest, InSetup, NoCall, Published,
       Forward
  <1>c17. AttemptPlaced'
    BY <1>0, <1>1 DEF AttemptPlaced, InRequest, InSetup, Published, Forward
  <1>c18. Counted'
    BY <1>0, <1>1 DEF Counted, Published, Forward
  <1>c19. RatesEarned'
    BY <1>0, <1>1 DEF RatesEarned
  <1>c20. RowsPaired'
    BY <1>0, <1>1 DEF RowsPaired, Published, Forward
  <1>c21. RowsTruthful'
    BY <1>0, <1>1 DEF RowsTruthful
  <1> QED
    BY <1>c1, <1>c2, <1>c3, <1>c4, <1>c5, <1>c6, <1>c7, <1>c8, <1>c9, <1>c10,
       <1>c11, <1>c12, <1>c13, <1>c14, <1>c15, <1>c16, <1>c17, <1>c18, <1>c19,
       <1>c20, <1>c21 DEF IInv

(* The queue ends the oldest operation it holds, well or with a failure. *)
LEMMA QueueFinishesKeeps ==
    ASSUME IInv, QueueFinishes
    PROVE  IInv'
  <1>1. UNCHANGED <<pc, call, need, request, fwd, prefix, poisoned, err,
                    drainAt, drained, ret, calls, metrics>>
    BY DEF QueueFinishes
  <1>2. ASSUME NEW outcome \in {"ok", "failed"}, NEW i \in DOMAIN ledger,
               Finishes(ledger, i), ledger' = [ledger EXCEPT ![i].st = outcome],
               IF outcome = "ok" THEN Produce(ledger[i])
               ELSE UNCHANGED <<buf, rows>>,
               UNCHANGED group
        PROVE  IInv'
    BY <1>1, <1>2, LedgerFinishKeeps DEF Finishes
  <1>3. ASSUME NEW outcome \in {"ok", "failed"}, NEW i \in DOMAIN group,
               Finishes(group, i), group' = [group EXCEPT ![i].st = outcome],
               IF outcome = "ok" THEN Produce(group[i])
               ELSE UNCHANGED <<buf, rows>>,
               UNCHANGED ledger
        PROVE  IInv'
    BY <1>1, <1>3, GroupFinishKeeps DEF Finishes
  <1> QED
    BY <1>2, <1>3 DEF QueueFinishes

--------------------------------------------------------------------------------
(* A step that changes nothing keeps the invariant. *)
LEMMA Stutters ==
    ASSUME IInv, UNCHANGED vars
    PROVE  IInv'
  <1>0. /\ TypeOK /\ PoisonStops /\ LedgerSettled /\ LastIsAwaited
        /\ GroupSettled /\ GroupOfStep /\ FirstFailureKept /\ PlaceInForward
        /\ PrefixesInStep /\ HistoryCounted /\ InputsHeld /\ StepsMade
        /\ OutputsHeld /\ CachesWritten /\ PlanKept /\ CallPlaced
        /\ AttemptPlaced /\ Counted /\ RatesEarned /\ RowsPaired /\ RowsTruthful
    BY DEF IInv
  <1>1. UNCHANGED <<pc, call, need, request, ledger, group, fwd, buf, rows, prefix,
                    poisoned, err, drainAt, drained, ret, calls, metrics>>
    BY DEF vars
  <1>c1. TypeOK'
    BY <1>0, <1>1 DEF TypeOK
  <1>c2. PoisonStops'
    BY <1>0, <1>1 DEF PoisonStops
  <1>c3. LedgerSettled'
    BY <1>0, <1>1 DEF LedgerSettled, Awaited
  <1>c4. LastIsAwaited'
    BY <1>0, <1>1 DEF LastIsAwaited, Awaited, OfForward
  <1>c5. GroupSettled'
    BY <1>0, <1>1 DEF GroupSettled
  <1>c6. GroupOfStep'
    BY <1>0, <1>1 DEF GroupOfStep, OfForward
  <1>c7. FirstFailureKept'
    BY <1>0, <1>1 DEF FirstFailureKept, Broken
  <1>c8. PlaceInForward'
    BY <1>0, <1>1 DEF PlaceInForward
  <1>c9. PrefixesInStep'
    BY <1>0, <1>1 DEF PrefixesInStep
  <1>c10. HistoryCounted'
    BY <1>0, <1>1 DEF HistoryCounted
  <1>c11. InputsHeld'
    BY <1>0, <1>1 DEF InputsHeld, Holds, Value, LastDone
  <1>c12. StepsMade'
    <2>1. \A op \in LayerOps : Made(op)' = Made(op)
      BY <1>1 DEF Made, Holds, Value, RowsWritten
    <2>2. pc = "step" => \A i \in DOMAIN group : group[i].op \in LayerOps
      BY InStep DEF OfForward
    <2> QED
      BY <1>0, <1>1, <2>1, <2>2 DEF StepsMade
  <1>c13. OutputsHeld'
    BY <1>0, <1>1 DEF OutputsHeld, Holds, Value, LastDone
  <1>c14. CachesWritten'
    BY <1>0, <1>1 DEF CachesWritten, RowsWritten
  <1>c15. PlanKept'
    BY <1>0, <1>1 DEF PlanKept, PlanAccepted
  <1>c16. CallPlaced'
    BY <1>0, <1>1 DEF CallPlaced, InRequest, InSetup
  <1>c17. AttemptPlaced'
    BY <1>0, <1>1 DEF AttemptPlaced, InRequest, InSetup
  <1>c18. Counted'
    BY <1>0, <1>1 DEF Counted
  <1>c19. RatesEarned'
    BY <1>0, <1>1 DEF RatesEarned
  <1>c20. RowsPaired'
    BY <1>0, <1>1 DEF RowsPaired
  <1>c21. RowsTruthful'
    BY <1>0, <1>1 DEF RowsTruthful
  <1> QED
    BY <1>c1, <1>c2, <1>c3, <1>c4, <1>c5, <1>c6, <1>c7, <1>c8, <1>c9, <1>c10,
       <1>c11, <1>c12, <1>c13, <1>c14, <1>c15, <1>c16, <1>c17, <1>c18, <1>c19,
       <1>c20, <1>c21 DEF IInv

(* A session that is not loaded yet satisfies the invariant. *)
LEMMA Starts ==
    ASSUME Init
    PROVE  IInv
  <1>1. /\ pc = "unloaded" /\ call = NoCall /\ need \in Needs
        /\ request = NoRequest /\ ledger = <<>> /\ group = <<>>
        /\ fwd = NoForward /\ prefix = [l \in Layers |-> 0]
        /\ poisoned = FALSE /\ err = None /\ drainAt = 1 /\ drained = None
        /\ ret = NoReturn /\ calls = 0 /\ metrics = NewRecorder
    BY DEF Init
  <1>2. metrics \in Recorders
    <2>1. NoScalars \in Scalars
      BY DEF NoScalars, Scalars, Phases, Reasons, Failures
    <2>2. [ordinal |-> 0, outcome |-> "none", prompt |-> 0] \in Attempts
      BY DEF Attempts, Outcomes
    <2>3. <<>> \in Seq(Rows)
      OBVIOUS
    <2> QED
      BY <1>1, <2>1, <2>2, <2>3 DEF NewRecorder, Recorders, Phases
  <1>3. buf \in [Owners -> Nat \X Nat \X Nat]
    BY DEF Init, Junk
  <1>4. rows \in [Caches -> [0 .. Config.C - 1 -> Nat]]
    BY DEF Init
  <1>5. call \in Calls /\ request \in Requests /\ ret.ok \in BOOLEAN
    BY <1>1 DEF NoCall, Calls, NoRequest, Requests, NoReturn
  <1>6. fwd \in Forwards
    BY <1>1, ConfigFacts DEF NoForward, Forwards, Banks
  <1>7. ret \in [ok : BOOLEAN, tokens : Nat, reason : Reasons \cup Failures]
    BY <1>1 DEF NoReturn, Reasons, None
  <1>c1. TypeOK
    <2>1. ledger \in Seq(Accepted) /\ group \in Seq(Members)
      BY <1>1
    <2>2. prefix \in [Layers -> Nat]
      BY <1>1
    <2>3. /\ pc \in Pcs /\ err \in Failures /\ drained \in Failures
          /\ poisoned \in BOOLEAN /\ need \in Needs
      BY <1>1 DEF Pcs, Failures, None
    <2>4. drainAt \in Nat \ {0} /\ calls \in Nat
      BY <1>1
    <2> QED
      BY <1>2, <1>3, <1>4, <1>5, <1>6, <1>7, <2>1, <2>2, <2>3, <2>4 DEF TypeOK
  <1>c2. PoisonStops
    BY <1>1 DEF PoisonStops, Published, Forward
  <1>c3. LedgerSettled
    BY <1>1 DEF LedgerSettled, Awaited, Published, Forward
  <1>c4. LastIsAwaited
    BY <1>1 DEF LastIsAwaited, Awaited, Published, Forward
  <1>c5. GroupSettled
    BY <1>1 DEF GroupSettled, Published, Forward
  <1>c6. GroupOfStep
    BY <1>1 DEF GroupOfStep, Published, Forward
  <1>c7. FirstFailureKept
    BY <1>1 DEF FirstFailureKept, Published, Forward
  <1>c8. PlaceInForward
    BY <1>1 DEF PlaceInForward, Published, Forward
  <1>c9. PrefixesInStep
    BY <1>1 DEF PrefixesInStep, Published, Forward
  <1>c10. HistoryCounted
    BY <1>1 DEF HistoryCounted, Published, Forward
  <1>c11. InputsHeld
    BY <1>1 DEF InputsHeld, Published, Forward
  <1>c12. StepsMade
    BY <1>1 DEF StepsMade, Published, Forward
  <1>c13. OutputsHeld
    BY <1>1 DEF OutputsHeld, Published, Forward
  <1>c14. CachesWritten
    BY <1>1 DEF CachesWritten, Published, Forward
  <1>c15. PlanKept
    BY <1>1 DEF PlanKept, Published, Forward
  <1>c16. CallPlaced
    BY <1>1 DEF CallPlaced, InRequest, InSetup, Published, Forward
  <1>c17. AttemptPlaced
    BY <1>1 DEF AttemptPlaced, NewRecorder, NoRequest, InRequest, InSetup,
       Published, Forward
  <1>c18. Counted
    BY <1>1 DEF Counted, NewRecorder, NoScalars, NoRequest, Published, Forward
  <1>c19. RatesEarned
    BY <1>1 DEF RatesEarned, NewRecorder, NoScalars, None, Published, Forward
  <1>c20. RowsPaired
    BY <1>1 DEF RowsPaired, NewRecorder, NoRequest, Published, Forward
  <1>c21. RowsTruthful
    BY <1>1 DEF RowsTruthful, NewRecorder, Published, Forward
  <1> QED
    BY <1>c1, <1>c2, <1>c3, <1>c4, <1>c5, <1>c6, <1>c7, <1>c8, <1>c9, <1>c10,
       <1>c11, <1>c12, <1>c13, <1>c14, <1>c15, <1>c16, <1>c17, <1>c18, <1>c19,
       <1>c20, <1>c21 DEF IInv

(* Every step of the caller and of the queue keeps the invariant. *)
LEMMA Inductive ==
    ASSUME IInv, [Next]_vars
    PROVE  IInv'
  <1>1. CASE Throws
    BY <1>1, ThrowsKeeps
  <1>2. CASE DrainWait
    BY <1>2, DrainWaitKeeps
  <1>3. CASE DrainReturns
    BY <1>3, DrainReturnsKeeps
  <1>4. CASE load_tinyllama_session
    BY <1>4, LoadKeeps
  <1>5. CASE BuildFails
    BY <1>5, BuildFailsKeeps
  <1>6. CASE Publish
    BY <1>6, PublishKeeps
  <1>7. CASE StartDecode
    BY <1>7, StartDecodeKeeps
  <1>8. CASE Upload
    BY <1>8, UploadKeeps
  <1>9. CASE Embedding \/ FinalNorm \/ LmHead
    BY <1>9, SubmitKeeps
  <1>10. CASE AwaitNorm
    BY <1>10, AwaitNormKeeps
  <1>11. CASE EnterLayer
    BY <1>11, EnterLayerKeeps
  <1>12. CASE SubmitMember
    BY <1>12, SubmitMemberKeeps
  <1>13. CASE StepFails
    BY <1>13, StepFailsKeeps
  <1>14. CASE StepSucceeds
    BY <1>14, StepSucceedsKeeps
  <1>15. CASE PrefillReady
    BY <1>15, PrefillReadyKeeps
  <1>16. CASE DecodeReady
    BY <1>16, DecodeReadyKeeps
  <1>17. CASE SelectFails
    BY <1>17, SelectFailsKeeps
  <1>18. CASE Select
    BY <1>18, SelectKeeps
  <1>19. CASE QueueFinishes
    BY <1>19, QueueFinishesKeeps
  <1>20. CASE prepare_operation_trace
    BY <1>20, TraceKeeps
  <1>21. CASE preprocessing_fails
    BY <1>21, PreprocessingKeeps
  <1>22. CASE destroy
    BY <1>22, DestroyKeeps
  <1>23. CASE \E n \in Prompts, max \in Limits :
                 generate_tokens(n, max) \/ generate_text(n, max)
    BY <1>23, CallKeeps, CallsValid
  <1>24. ASSUME NEW n \in Prompts, prepare_request(n)
        PROVE  IInv'
    <2>1. 0 \in Nat
      OBVIOUS
    <2> QED
      BY <1>24, <2>1, CallKeeps
  <1>25. CASE UNCHANGED vars
    BY <1>25, Stutters
  <1> QED
    BY <1>1, <1>2, <1>3, <1>4, <1>5, <1>6, <1>7, <1>8, <1>9, <1>10, <1>11,
       <1>12, <1>13, <1>14, <1>15, <1>16, <1>17, <1>18, <1>19, <1>20, <1>21,
       <1>22, <1>23, <1>24, <1>25 DEF Next, Step

(***************************************************************************)
(* The inductive invariant holds in every state: at each place of the      *)
(* caller thread the queue holds what the code expects it to hold and the  *)
(* tensors, the caches and the recorder agree with the request.            *)
(***************************************************************************)
THEOREM Invariance == Spec => []IInv
  <1>1. Init => IInv
    BY Starts
  <1>2. IInv /\ [Next]_vars => IInv'
    BY Inductive
  <1> QED
    BY <1>1, <1>2, PTL DEF Spec

(* Every variable keeps its type: no count is negative, no tensor is missing, *)
(* the recorder's record keeps its shape.                                     *)
THEOREM TypeCorrect == Spec => []TypeOK
  <1>1. IInv => TypeOK
    BY DEF IInv
  <1> QED
    BY <1>1, Invariance, PTL

(* Nothing is in flight at the places the callers of the session can see. *)
LEMMA Quiet ==
    ASSUME IInv
    PROVE  QuietAtBoundaries
  <1> SUFFICES ASSUME pc \in {"idle", "throw", "build", "dead"}
               PROVE  /\ InFlight = {}
                      /\ ~poisoned =>
                            /\ \A i \in DOMAIN ledger : ledger[i].st = "ok"
                            /\ \A k, l \in Layers : prefix[k] = prefix[l]
    BY DEF QuietAtBoundaries
  <1>1. ~Awaited
    BY DEF Awaited
  <1>2. Pending(ledger) = {}
    BY <1>1 DEF IInv, LedgerSettled, Pending
  <1>3. Pending(group) = {}
    BY DEF IInv, GroupSettled, Pending
  <1>4. ~poisoned => \A i \in DOMAIN ledger : ledger[i].st = "ok"
    BY <1>1 DEF IInv, LedgerSettled
  <1>5. ~poisoned => \A k, l \in Layers : prefix[k] = prefix[l]
    BY DEF IInv, PrefixesInStep, Forward
  <1> QED
    BY <1>2, <1>3, <1>4, <1>5 DEF InFlight

(***************************************************************************)
(* When a call returns or throws, when the request is replaced and when    *)
(* the session dies, nothing it submitted is still in the queue; a session *)
(* that is not poisoned has seen none of its tokens fail and has the same  *)
(* prefix in every layer.                                                  *)
(***************************************************************************)
THEOREM QuietBoundaries == Spec => []QuietAtBoundaries
  <1>1. IInv => QuietAtBoundaries
    BY Quiet
  <1> QED
    BY <1>1, Invariance, PTL

(***************************************************************************)
(* A step of the QKV, cache and attention stages throws the failure of its *)
(* first broken member: neither the drain that runs in between nor the     *)
(* tokens it waits for replace it.                                         *)
(***************************************************************************)
THEOREM FirstFailure == Spec => []FirstFailureThrown
  <1>1. IInv => FirstFailureThrown
    BY DEF IInv, FirstFailureKept, FirstFailureThrown
  <1> QED
    BY <1>1, Invariance, PTL

(* What the recorder says of the admitted request follows from the parts. *)
LEMMA Told ==
    ASSUME IInv
    PROVE  MetricsTellTheRequest
  <1>1. metrics.ordinal = request.ordinal
    BY DEF IInv, AttemptPlaced
  <1>2. /\ metrics.scalars.generated = request.results
        /\ metrics.scalars.decodeTokens =
               IF request.results = 0 THEN 0 ELSE request.results - 1
        /\ metrics.scalars.decodeForwards \in
               {metrics.scalars.decodeTokens, metrics.scalars.decodeTokens + 1}
    BY DEF IInv, Counted
  <1>3. metrics.scalars.rate => metrics.scalars.decodeTokens > 0
    BY DEF IInv, RatesEarned
  <1>4. metrics.scalars.failure # None =>
            ~metrics.scalars.rate /\ metrics.scalars.stop = None
    BY DEF IInv, RatesEarned
  <1>5. /\ metrics.dropped = 0
        /\ metrics.tracing /\ ledger # <<>> => Len(metrics.rows) = Len(ledger)
    BY DEF IInv, RowsPaired
  <1>6. \A i \in DOMAIN metrics.rows \cap DOMAIN ledger :
            metrics.rows[i].wait = "failed" => ledger[i].st = "failed"
    BY DEF IInv, RowsTruthful
  <1> QED
    BY <1>1, <1>2, <1>3, <1>4, <1>5, <1>6 DEF MetricsTellTheRequest

(***************************************************************************)
(* The recorder's admitted request is the session's published one, with    *)
(* the counts of what that request did: no token, forward or wait is       *)
(* booked on another request, dropped or booked twice.                     *)
(***************************************************************************)
THEOREM MetricsTold == Spec => []MetricsTellTheRequest
  <1>1. IInv => MetricsTellTheRequest
    BY Told
  <1> QED
    BY <1>1, Invariance, PTL

(* What the selected logits were computed from follows from the parts. *)
LEMMA FromHistory ==
    ASSUME IInv
    PROVE  LogitsFromHistory
  <1> SUFFICES ASSUME pc = "select"
               PROVE  /\ buf[Logits] = <<request.ordinal,
                                         IF request.results = 0 THEN 0
                                         ELSE request.history - 1, Config.L>>
                      /\ \A l \in Layers : prefix[l] = request.history
                      /\ \A o \in Caches : \A i \in 0 .. request.history - 1 :
                             rows[o][i] = request.ordinal
    BY DEF LogitsFromHistory
  <1>1. /\ request.history = fwd.a + fwd.R
        /\ request.results = 0 => fwd.a = 0
        /\ request.results > 0 => fwd.R = 1
    BY DEF IInv, HistoryCounted
  <1>2. fwd.a \in Nat /\ fwd.R \in Nat /\ request.results \in Nat
    BY DEF IInv, TypeOK, Forwards, Requests
  <1>3. fwd.a = IF request.results = 0 THEN 0 ELSE request.history - 1
    BY <1>1, <1>2
  <1>4. buf[Logits] = <<request.ordinal, fwd.a, Config.L>>
    BY DEF IInv, OutputsHeld, Value
  <1>5. \A l \in Layers : prefix[l] = request.history
    BY <1>1 DEF IInv, PrefixesInStep
  <1>6. \A o \in Caches : \A i \in 0 .. request.history - 1 :
            rows[o][i] = request.ordinal
    BY <1>1 DEF IInv, CachesWritten, RowsWritten
  <1> QED
    BY <1>3, <1>4, <1>5, <1>6

(***************************************************************************)
(* The logits a token is selected from were computed from exactly this     *)
(* request's history, whatever the queue did and however many layers,      *)
(* tokens and earlier requests there were.                                 *)
(***************************************************************************)
THEOREM SelectsFromHistory == Spec => []LogitsFromHistory
  <1>1. IInv => LogitsFromHistory
    BY FromHistory
  <1> QED
    BY <1>1, Invariance, PTL

--------------------------------------------------------------------------------
(* Where a poisoned session can be, only these steps are possible. *)
LEMMA PoisonedSteps ==
    ASSUME IInv, Next, poisoned
    PROVE  \/ Throws \/ DrainWait \/ DrainReturns \/ QueueFinishes
           \/ prepare_operation_trace \/ preprocessing_fails \/ destroy
           \/ \E kind, n, max : Enter(kind, n, max)
  <1>1. pc \in {"idle", "throw", "drain_throw", "drain_destroy", "dead"}
    BY DEF IInv, PoisonStops
  <1>2. ~load_tinyllama_session /\ ~BuildFails /\ ~Publish /\ ~StartDecode
    BY <1>1 DEF load_tinyllama_session, BuildFails, Publish, StartDecode
  <1>3. ~Upload /\ ~Embedding /\ ~FinalNorm /\ ~LmHead
    BY <1>1 DEF Upload, Embedding, FinalNorm, LmHead
  <1>4. ~AwaitNorm /\ ~EnterLayer /\ ~SubmitMember /\ ~StepFails
    BY <1>1 DEF AwaitNorm, EnterLayer, SubmitMember, StepFails, StepWaited
  <1>5. ~StepSucceeds /\ ~PrefillReady /\ ~DecodeReady
    BY <1>1 DEF StepSucceeds, StepWaited, PrefillReady, DecodeReady
  <1>6. ~SelectFails /\ ~Select
    BY <1>1 DEF SelectFails, Select
  <1>7. ASSUME NEW n, NEW max,
               \/ generate_tokens(n, max) \/ generate_text(n, max)
               \/ prepare_request(n)
        PROVE  \E kind, k, m : Enter(kind, k, m)
    BY <1>7 DEF generate_tokens, generate_text, prepare_request
  <1> QED
    BY <1>2, <1>3, <1>4, <1>5, <1>6, <1>7 DEF Next, Step

(* A step of a poisoned session adds nothing to what the queue holds. *)
LEMMA PoisonedStep ==
    ASSUME IInv, Next, poisoned
    PROVE  /\ poisoned' /\ Len(ledger') <= Len(ledger)
           /\ Pending(group') \subseteq Pending(group)
  <1>1. pc # "step" /\ ledger \in Seq(Accepted) /\ Len(ledger) \in Nat
    BY DEF IInv, PoisonStops, TypeOK
  <1>2. ASSUME UNCHANGED <<poisoned, ledger, group>>
        PROVE  /\ poisoned' /\ Len(ledger') <= Len(ledger)
               /\ Pending(group') \subseteq Pending(group)
    BY <1>1, <1>2
  <1>3. CASE Throws
    <2>1. UNCHANGED <<poisoned, ledger>> /\ group' = <<>>
      BY <1>3 DEF Throws
    <2>2. Pending(group') = {}
      BY <2>1 DEF Pending
    <2> QED
      BY <1>1, <2>1, <2>2
  <1>4. CASE DrainWait
    <2>1. UNCHANGED <<ledger, group>> /\ poisoned'
      BY <1>4 DEF DrainWait
    <2> QED
      BY <1>1, <2>1
  <1>5. CASE DrainReturns
    <2>1. UNCHANGED <<poisoned, ledger, group>>
      BY <1>5 DEF DrainReturns
    <2> QED
      BY <1>2, <2>1
  <1>6. CASE QueueFinishes
    <2>1. UNCHANGED poisoned
      BY <1>6 DEF QueueFinishes
    <2>2. \A i \in DOMAIN group : group[i].st # "pending"
      BY <1>1 DEF IInv, GroupSettled
    <2>3. /\ UNCHANGED group
          /\ \E i \in DOMAIN ledger, outcome \in {"ok", "failed"} :
                 ledger' = [ledger EXCEPT ![i].st = outcome]
      BY <1>6, <2>2 DEF QueueFinishes, Finishes
    <2>4. Len(ledger') = Len(ledger)
      BY <1>1, <2>3
    <2> QED
      BY <1>1, <2>1, <2>3, <2>4
  <1>7. CASE prepare_operation_trace \/ preprocessing_fails \/ destroy
    BY <1>2, <1>7 DEF prepare_operation_trace, preprocessing_fails, destroy,
       Steady
  <1>8. CASE \E kind, n, max : Enter(kind, n, max)
    BY <1>2, <1>8 DEF Enter
  <1> QED
    BY <1>3, <1>4, <1>5, <1>6, <1>7, <1>8, PoisonedSteps

(***************************************************************************)
(* Once poisoned, a session hands the queue nothing more and stays so,     *)
(* whatever is called on it afterwards.                                    *)
(***************************************************************************)
THEOREM PoisonStays == Spec => PoisonedSubmitsNothing
  <1>1. IInv /\ [Next]_vars =>
            [poisoned => /\ poisoned' /\ Len(ledger') <= Len(ledger)
                         /\ Pending(group') \subseteq Pending(group)]_vars
    BY PoisonedStep
  <1> QED
    BY <1>1, Invariance, PTL DEF Spec, PoisonedSubmitsNothing

--------------------------------------------------------------------------------
(* What is booked by a step is booked on the published attempt. *)
BookedWhole ==
    metrics'.scalars # metrics.scalars =>
        \/ metrics'.attempt.ordinal = metrics'.ordinal
        \/ pc = "drain_build" /\ metrics.attempt.ordinal # metrics.ordinal

(* ... because the recorder is not touched, or the request goes on, *)
LEMMA BookedInRequest ==
    ASSUME IInv', pc' \in Published \cup {"drain_throw"}
    PROVE  BookedWhole
  BY DEF IInv, AttemptPlaced, InRequest, BookedWhole

(* ... or the call that ends is the published one, *)
LEMMA BookedAtReturn ==
    ASSUME NEW m \in Recorders, NEW r \in Reasons, NEW n \in Nat,
           finish(r, n, m), m.attempt.ordinal = m.ordinal
    PROVE  BookedWhole
  <1>1. SameAttempt(m, metrics')
    BY FinishBooks
  <1> QED
    BY <1>1 DEF SameAttempt, BookedWhole

(* ... or a wait of a drain is, which takes only a rate away. *)
LEMMA BookedByDrain ==
    ASSUME IInv, DrainWait
    PROVE  BookedWhole
  <1>0. /\ metrics \in Recorders /\ ledger \in Seq(Accepted)
        /\ drainAt \in DOMAIN ledger /\ metrics' = ObserveWait(metrics, drainAt)
    BY DEF IInv, TypeOK, DrainWait
  <1>1. /\ SameAttempt(metrics, metrics')
        /\ ~metrics.scalars.rate => metrics'.scalars = metrics.scalars
        /\ ledger[drainAt].st # "failed" => metrics'.scalars = metrics.scalars
    BY <1>0, ObserveEffect DEF Observed
  <1>2. pc \in {"drain_build", "drain_throw", "drain_destroy"}
    BY DEF DrainWait, Draining
  <1>3. CASE pc = "drain_build"
    BY <1>1, <1>3 DEF SameAttempt, BookedWhole
  <1>4. CASE pc = "drain_throw"
    <2>1. metrics.attempt.ordinal = metrics.ordinal
      BY <1>4 DEF IInv, AttemptPlaced, InRequest
    <2> QED
      BY <1>1, <2>1 DEF SameAttempt, BookedWhole
  <1>5. CASE pc = "drain_destroy"
    <2>1. poisoned => ~metrics.scalars.rate
      BY DEF IInv, RatesEarned
    <2>2. ~poisoned => ledger[drainAt].st # "failed"
      BY <1>0, <1>5 DEF IInv, LedgerSettled, Awaited
    <2> QED
      BY <1>1, <2>1, <2>2 DEF BookedWhole
  <1> QED
    BY <1>2, <1>3, <1>4, <1>5

(* Publishing makes the attempt the admitted request. *)
LEMMA BookedAtPublish ==
    ASSUME IInv, Publish
    PROVE  BookedWhole
  <1> DEFINE m == publish_generation(metrics)
  <1>1. m \in Recorders /\ m.attempt.ordinal = m.ordinal
    BY PublishEffect DEF IInv, TypeOK
  <1>2. metrics' = m \/ finish("max_new_tokens", 0, m)
    BY DEF Publish
  <1> HIDE DEF m
  <1>3. "max_new_tokens" \in Reasons /\ 0 \in Nat
    BY DEF Reasons
  <1>4. CASE metrics' = m
    BY <1>1, <1>4 DEF BookedWhole
  <1>5. CASE finish("max_new_tokens", 0, m)
    BY <1>1, <1>3, <1>5, BookedAtReturn
  <1> QED
    BY <1>2, <1>4, <1>5

(* The prompt is behind, and there is no room or the wait failed. *)
LEMMA BookedAtPrefill ==
    ASSUME IInv, IInv', PrefillReady
    PROVE  BookedWhole
  <1> DEFINE s == ObserveWait(metrics, Len(ledger))
             m == record_prefill(s, "succeeded")
  <1>0. pc = "ready" /\ Awaited
    BY DEF PrefillReady, Awaited
  <1>1. CASE ledger[Len(ledger)].st = "failed"
    <2>1. pc' = "drain_throw"
      BY <1>1 DEF PrefillReady, Unwind
    <2> QED
      BY <2>1, BookedInRequest
  <1>2. CASE ledger[Len(ledger)].st # "failed"
    <2>1. ledger[Len(ledger)].st = "ok"
      BY <1>0, <1>2, AwaitedToken DEF PrefillReady
    <2>2. s \in Recorders /\ writes_admitted_request(s)
      BY <1>0, <2>1, SeenReady
    <2>3. IF call.prompt = Config.C THEN finish("context_capacity", 0, m)
          ELSE pc' = "select"
      BY <1>2 DEF PrefillReady
    <2> HIDE DEF s
    <2>4. m \in Recorders /\ SameAttempt(s, m)
      BY <2>2, PhaseEffect DEF Phases
    <2>5. m.attempt.ordinal = m.ordinal
      BY <2>2, <2>4 DEF SameAttempt, writes_admitted_request
    <2>6. "context_capacity" \in Reasons /\ 0 \in Nat
      BY DEF Reasons
    <2> HIDE DEF m
    <2>7. CASE pc' = "select"
      BY <2>7, BookedInRequest DEF Published
    <2>8. CASE finish("context_capacity", 0, m)
      BY <2>4, <2>5, <2>6, <2>8, BookedAtReturn
    <2> QED
      BY <2>3, <2>7, <2>8
  <1> QED
    BY <1>1, <1>2

(* A token is selected, and the call ends or goes on. *)
LEMMA BookedAtSelect ==
    ASSUME IInv, IInv', Select
    PROVE  BookedWhole
  <1> DEFINE m == commit_token(metrics, call.fromDecode)
             results == request.results + 1
  <1>1. /\ metrics \in Recorders /\ call.fromDecode \in BOOLEAN /\ results \in Nat
    <2>1. metrics \in Recorders /\ call \in Calls /\ request \in Requests
      BY DEF IInv, TypeOK
    <2>2. call.fromDecode \in BOOLEAN
      BY <2>1, Zenon DEF Calls
    <2>3. request.results + 1 \in Nat
      BY <2>1 DEF Requests
    <2> QED
      BY <2>1, <2>2, <2>3
  <1>2. metrics.attempt.ordinal = metrics.ordinal
    BY DEF IInv, AttemptPlaced, InRequest, Published, Select
  <1>3. m \in Recorders /\ SameAttempt(metrics, m)
    BY <1>1, CommitEffect
  <1>4. pc' = "decode" \/ \E r \in Reasons : finish(r, results, m)
    BY DEF Select, Reasons
  <1> HIDE DEF m, results
  <1>5. m.attempt.ordinal = m.ordinal
    BY <1>2, <1>3 DEF SameAttempt
  <1>6. CASE pc' = "decode"
    BY <1>6, BookedInRequest DEF Published
  <1>7. CASE \E r \in Reasons : finish(r, results, m)
    BY <1>1, <1>3, <1>5, <1>7, BookedAtReturn
  <1> QED
    BY <1>4, <1>6, <1>7

(* A call that fails before it reaches the session books nothing. *)
LEMMA BookedBefore ==
    ASSUME IInv, preprocessing_fails
    PROVE  metrics'.scalars = metrics.scalars
  <1> DEFINE m == begin_generation(metrics, 0)
  <1>0. metrics \in Recorders /\ 0 \in Nat
    BY DEF IInv, TypeOK
  <1>1. /\ m \in Recorders /\ m.scalars = metrics.scalars
        /\ m.ordinal = metrics.ordinal /\ m.attempt.ordinal = m.ordinal + 1
    BY <1>0, BeginEffect
  <1>2. PICK k \in {m, record_tokenization(m, "failed")} :
            metrics' = record_preprocessing_failure(k, "preprocessing")
    BY DEF preprocessing_fails
  <1> HIDE DEF m
  <1>3. ~writes_admitted_request(m)
    BY <1>1 DEF writes_admitted_request, Recorders
  <1>4. k \in Recorders /\ SameAttempt(m, k) /\ k.scalars = m.scalars
    <2>1. CASE k = m
      BY <1>1, <2>1 DEF SameAttempt
    <2>2. CASE k = record_tokenization(m, "failed")
      BY <1>1, <1>3, <2>2, PhaseEffect DEF Guarded, Phases
    <2> QED
      BY <2>1, <2>2
  <1>5. ~writes_admitted_request(k)
    BY <1>3, <1>4 DEF writes_admitted_request, SameAttempt
  <1>6. "preprocessing" \in Failures
    BY DEF Failures
  <1>7. metrics'.scalars = k.scalars
    BY <1>2, <1>4, <1>5, <1>6, FailedEffect DEF Guarded
  <1> QED
    BY <1>1, <1>4, <1>7

(* Entering a call stages an attempt and books nothing. *)
LEMMA BookedAtEntry ==
    ASSUME IInv, NEW n \in Prompts, NEW max,
           \/ generate_tokens(n, max) \/ generate_text(n, max)
           \/ prepare_request(n)
    PROVE  metrics'.scalars = metrics.scalars
  <1>0. metrics \in Recorders /\ n \in Nat /\ 0 \in Nat
    BY CallsValid DEF IInv, TypeOK
  <1>1. CASE generate_tokens(n, max)
    BY <1>0, <1>1, BeginEffect DEF generate_tokens
  <1>2. CASE generate_text(n, max)
    <2> DEFINE m == begin_generation(metrics, 0)
    <2>1. m \in Recorders /\ m.scalars = metrics.scalars
      BY <1>0, BeginEffect
    <2>2. metrics' = begin_generation(m, n)
      BY <1>2 DEF generate_text
    <2> HIDE DEF m
    <2> QED
      BY <1>0, <2>1, <2>2, BeginEffect
  <1>3. CASE prepare_request(n)
    BY <1>3 DEF prepare_request
  <1> QED
    BY <1>1, <1>2, <1>3

(* Every step books on the published attempt only. *)
LEMMA BookedSteps ==
    ASSUME IInv, IInv', Next
    PROVE  BookedWhole
  <1>0. metrics \in Recorders
    BY DEF IInv, TypeOK
  <1>1. ASSUME metrics'.scalars = metrics.scalars
        PROVE  BookedWhole
    BY <1>1 DEF BookedWhole
  <1>2. CASE Throws
    <2>1. SameAttempt(metrics, metrics') /\ Guarded(metrics, metrics')
      BY <1>2, ThrowsBooks
    <2> QED
      BY <2>1 DEF SameAttempt, Guarded, writes_admitted_request, BookedWhole
  <1>3. CASE DrainReturns \/ BuildFails \/ Upload \/ EnterLayer \/ SubmitMember
    BY <1>1, <1>3 DEF DrainReturns, BuildFails, Upload, EnterLayer, SubmitMember
  <1>4. CASE StepFails \/ StepSucceeds \/ SelectFails \/ QueueFinishes \/ destroy
    BY <1>1, <1>4 DEF StepFails, StepSucceeds, SelectFails, QueueFinishes,
       destroy
  <1>5. CASE load_tinyllama_session
    BY <1>0, <1>1, <1>5 DEF load_tinyllama_session, record_load, Recorders
  <1>6. CASE prepare_operation_trace
    BY <1>0, <1>1, <1>6 DEF prepare_operation_trace, prepare_trace, Recorders
  <1>7. CASE StartDecode
    <2>1. metrics' = record_decode_interval(metrics)
      BY <1>7 DEF StartDecode
    <2> QED
      BY <1>0, <1>1, <2>1, IntervalEffect
  <1>8. CASE Embedding \/ FinalNorm \/ LmHead
    <2>1. pc' \in {"layer", "await_norm", "ready", "drain_throw"}
      BY <1>8 DEF Embedding, FinalNorm, LmHead, Submit, Unwind
    <2> QED
      BY <2>1, BookedInRequest DEF Published, Forward
  <1>9. CASE AwaitNorm
    <2>1. pc' \in {"lm_head", "drain_throw"}
      BY <1>9 DEF AwaitNorm, WaitLast, Unwind
    <2> QED
      BY <2>1, BookedInRequest DEF Published, Forward
  <1>10. CASE DecodeReady
    <2>1. pc' \in {"select", "drain_throw"}
      BY <1>10 DEF DecodeReady, Unwind
    <2> QED
      BY <2>1, BookedInRequest DEF Published
  <1>11. CASE DrainWait \/ Publish \/ PrefillReady \/ Select
    BY <1>11, BookedByDrain, BookedAtPublish, BookedAtPrefill, BookedAtSelect
  <1>12. CASE preprocessing_fails
    BY <1>1, <1>12, BookedBefore
  <1>13. CASE \E n \in Prompts, max \in Limits :
                 generate_tokens(n, max) \/ generate_text(n, max)
    BY <1>1, <1>13, BookedAtEntry
  <1>14. CASE \E n \in Prompts : prepare_request(n)
    BY <1>1, <1>14, BookedAtEntry
  <1> QED
    BY <1>2, <1>3, <1>4, <1>5, <1>6, <1>7, <1>8, <1>9, <1>10, <1>11, <1>12,
       <1>13, <1>14 DEF Next, Step

(***************************************************************************)
(* An attempt that was never published leaves the admitted request's       *)
(* observations as they were; only the drain that looks at the old         *)
(* request's own tokens may still take its rate away.                      *)
(***************************************************************************)
THEOREM UnpublishedBooksNothing == Spec => UnpublishedLeavesAdmitted
  <1>1. IInv /\ IInv' /\ [Next]_vars => [BookedWhole]_vars
    BY BookedSteps
  <1>2. Spec => [][BookedWhole]_vars
    BY <1>1, Invariance, PTL DEF Spec
  <1> QED
    BY <1>2 DEF UnpublishedLeavesAdmitted, BookedWhole

--------------------------------------------------------------------------------
(***************************************************************************)
(* The workspace layout: a slice begins where the one before it ends.      *)
(***************************************************************************)
NeedType == [Banks -> [Operations -> [bytes : Nat, alignment : Nat]]]

(* A bounded set of naturals that is not empty has a greatest element. *)
LEMMA HasGreatest ==
    ASSUME NEW S, S \subseteq Nat, S # {}, NEW b \in Nat, \A y \in S : y <= b
    PROVE  \E x \in S : \A y \in S : x >= y
  <1> DEFINE T == {n \in Nat : \A y \in S : y <= n}
  <1>1. T \subseteq Nat /\ T # {}
    OBVIOUS
  <1>2. \E x \in T : \A y \in T : ~(<<y, x>> \in OpToRel(<, Nat))
    BY <1>1, NatLessThanWellFounded, WFMin
  <1>3. PICK x \in T : \A y \in T : ~(y < x)
    BY <1>2 DEF OpToRel
  <1>4. x \in S
    <2>1. SUFFICES ASSUME x \notin S PROVE FALSE
      OBVIOUS
    <2>2. \A y \in S : y < x
      BY <2>1
    <2>3. x > 0
      <3>1. PICK y \in S : TRUE
        OBVIOUS
      <3> QED
        BY <2>2, <3>1
    <2>4. x - 1 \in T
      BY <2>2, <2>3
    <2> QED
      BY <1>3, <2>4
  <1> QED
    BY <1>4

(* ... which is what Max gives. *)
LEMMA Greatest ==
    ASSUME NEW S, S \subseteq Nat, S # {}, NEW b \in Nat, \A y \in S : y <= b
    PROVE  Max(S) \in S /\ Max(S) \in Nat /\ \A y \in S : Max(S) >= y
  BY HasGreatest DEF Max

(* align_up gives a natural number that is not smaller. *)
LEMMA AlignUp ==
    ASSUME NEW n \in Nat, NEW a \in Nat \ {0}
    PROVE  align_up(n, a) \in Nat /\ align_up(n, a) >= n
  <1> DEFINE m == n + a - 1
             d == m \div a
             r == m % a
  <1>1. m \in Nat /\ d \in Int /\ r \in Int
    OBVIOUS
  <1>2. m = a * d + r /\ 0 <= r /\ r < a
    OBVIOUS
  <1>3. align_up(n, a) = d * a
    BY DEF align_up
  <1> HIDE DEF d, r
  <1>4. a * d >= n /\ d * a = a * d
    BY <1>1, <1>2
  <1>5. a * d \in Int
    BY <1>1
  <1> QED
    BY <1>3, <1>4, <1>5

(* The widest requirement is as wide as each. *)
LEMMA WidestKind ==
    ASSUME NEW n \in NeedType, NEW a \in Operations, NEW b \in Operations,
           NEW c \in Operations, NEW d \in Operations, NEW e \in Operations,
           NEW ops, ops = {a, b, c, d, e}
    PROVE  /\ Widest(n, ops).bytes \in Nat /\ Widest(n, ops).alignment \in Nat
           /\ \A bank \in Banks, op \in ops : n[bank][op].bytes <= Widest(n, ops).bytes
  <1> DEFINE all == {n[bank][op] : bank \in DOMAIN n, op \in ops}
             some == {r \in all : r.bytes # 0}
  <1>1. DOMAIN n = Banks
    BY DEF NeedType
  <1>2. PICK s \in Nat : \A bank \in Banks, op \in ops :
            n[bank][op].bytes <= s /\ n[bank][op].alignment <= s
    <2> DEFINE Sum(op) == n["prefill"][op].bytes + n["prefill"][op].alignment
                          + n["decode"][op].bytes + n["decode"][op].alignment
    <2>1. \A bank \in Banks, op \in Operations :
             n[bank][op].bytes \in Nat /\ n[bank][op].alignment \in Nat
      BY DEF NeedType
    <2>2. \A op \in Operations :
             /\ Sum(op) \in Nat
             /\ \A bank \in Banks : /\ n[bank][op].bytes <= Sum(op)
                                    /\ n[bank][op].alignment <= Sum(op)
      BY <2>1 DEF Banks
    <2> HIDE DEF Sum
    <2> DEFINE s == Sum(a) + Sum(b) + Sum(c) + Sum(d) + Sum(e)
    <2>3. s \in Nat /\ \A op \in ops : op \in Operations /\ Sum(op) <= s
      BY <2>2
    <2> HIDE DEF s
    <2>4. \A bank \in Banks, op \in ops :
             n[bank][op].bytes <= s /\ n[bank][op].alignment <= s
      BY <2>1, <2>2, <2>3
    <2> QED
      BY <2>3, <2>4
  <1>3. \A bank \in Banks, op \in ops :
           n[bank][op].bytes \in Nat /\ n[bank][op].alignment \in Nat
    BY DEF NeedType
  <1>4. \A r \in some : /\ r.bytes \in Nat /\ r.alignment \in Nat
                        /\ r.bytes <= s /\ r.alignment <= s
    BY <1>1, <1>2, <1>3
  <1>5. \A bank \in Banks, op \in ops : n[bank][op].bytes # 0 => n[bank][op] \in some
    BY <1>1
  <1>6. Widest(n, ops) = IF some = {} THEN NoBytes
                         ELSE [bytes |-> Max({r.bytes : r \in some}),
                               alignment |-> Max({r.alignment : r \in some})]
    BY DEF Widest
  <1> HIDE DEF some
  <1>7. CASE some = {}
    <2>1. Widest(n, ops) = NoBytes
      BY <1>6, <1>7, Zenon
    <2>2. \A bank \in Banks, op \in ops : n[bank][op].bytes = 0
      BY <1>5, <1>7
    <2>3. Widest(n, ops).bytes = 0 /\ Widest(n, ops).alignment = 1
      BY <2>1 DEF NoBytes
    <2>4. \A bank \in Banks, op \in ops : n[bank][op].bytes <= 0
      BY <2>2
    <2>5. 0 \in Nat /\ 1 \in Nat
      OBVIOUS
    <2> QED
      BY <2>3, <2>4, <2>5, Zenon
  <1>8. CASE some # {}
    <2> DEFINE B == {r.bytes : r \in some}
               A == {r.alignment : r \in some}
    <2>1. /\ B \subseteq Nat /\ B # {} /\ \A y \in B : y <= s
          /\ A \subseteq Nat /\ A # {} /\ \A y \in A : y <= s
      BY <1>4, <1>8
    <2>2. Widest(n, ops) = [bytes |-> Max(B), alignment |-> Max(A)]
      BY <1>6, <1>8, Zenon
    <2>3. \A bank \in Banks, op \in ops :
             n[bank][op].bytes # 0 => n[bank][op].bytes \in B
      BY <1>5
    <2> HIDE DEF A, B
    <2>4. Max(A) \in Nat /\ Max(B) \in Nat /\ \A y \in B : Max(B) >= y
      BY <2>1, Greatest
    <2>5. Widest(n, ops).bytes = Max(B) /\ Widest(n, ops).alignment = Max(A)
      BY <2>2
    <2>6. \A bank \in Banks, op \in ops : n[bank][op].bytes <= Max(B)
      <3> TAKE bank \in Banks, op \in ops
      <3>1. n[bank][op].bytes = 0 \/ n[bank][op].bytes \in B
        BY <2>3
      <3> QED
        BY <1>3, <2>4, <3>1
    <2> QED
      BY <2>4, <2>5, <2>6
  <1> QED
    BY <1>7, <1>8

(* A slice is reserved behind what is reserved already. *)
LEMMA ReserveEffect ==
    ASSUME NEW cursor \in Nat, NEW r, r.bytes \in Nat, r.alignment \in Nat
    PROVE  LET s == reserve_slice(cursor, r) IN
           /\ s.offset \in Nat /\ s.cursor \in Nat /\ s.cursor >= cursor
           /\ r.bytes # 0 => s.offset >= cursor /\ s.cursor = s.offset + r.bytes
  <1> DEFINE S == {Base, r.alignment}
             m == Max(S)
             o == align_up(cursor, m)
  <1>1. S \subseteq Nat /\ S # {} /\ Base + r.alignment \in Nat
        /\ \A y \in S : y <= Base + r.alignment
    BY DEF Base
  <1> HIDE DEF S
  <1>2. m \in Nat /\ \A y \in S : m >= y
    BY <1>1, Greatest
  <1>3. m \in Nat \ {0}
    BY <1>2 DEF S, Base
  <1> HIDE DEF m
  <1>4. o \in Nat /\ o >= cursor
    BY <1>3, AlignUp
  <1>5. reserve_slice(cursor, r) =
            IF r.bytes = 0 THEN [cursor |-> cursor, offset |-> 0]
            ELSE [cursor |-> o + r.bytes, offset |-> o]
    BY DEF reserve_slice, m, S
  <1> HIDE DEF o
  <1> QED
    BY <1>4, <1>5

(* The up projection's range begins behind the one the gate shares. *)
LEMMA MlpKind ==
    ASSUME NEW n \in NeedType
    PROVE  /\ mlp_up_offset(n) \in Nat
           /\ mlp_up_offset(n) >= Widest(n, {"gate"}).bytes
           /\ mlp_total(n).bytes \in Nat /\ mlp_total(n).alignment \in Nat
  <1> DEFINE W(op) == Widest(n, {op})
  <1>1. MlpOps \subseteq Operations
    BY DEF Operations
  <1>2. \A op \in MlpOps : W(op).bytes \in Nat /\ W(op).alignment \in Nat
    BY <1>1, WidestKind
  <1> HIDE DEF W
  <1> DEFINE B == {W(op).bytes : op \in MlpOps \ {"up"}}
             A == {Base} \cup {W(op).alignment : op \in MlpOps}
             b == W("gate").bytes + W("mul").bytes + W("down").bytes
                  + W("residual").bytes
             a == Base + W("gate").alignment + W("up").alignment
                  + W("mul").alignment + W("down").alignment
                  + W("residual").alignment
  <1>3. B \subseteq Nat /\ W("gate").bytes \in B /\ b \in Nat /\ \A y \in B : y <= b
    BY <1>2 DEF MlpOps
  <1>4. A \subseteq Nat /\ Base \in A /\ a \in Nat /\ \A y \in A : y <= a
    BY <1>2 DEF MlpOps, Base
  <1>5. mlp_up_offset(n) = align_up(Max(B), Base)
    BY DEF mlp_up_offset, W
  <1>6. mlp_total(n) =
            LET bytes == mlp_up_offset(n) + align_up(W("up").bytes, Base)
            IN  IF bytes = 0 THEN NoBytes ELSE [bytes |-> bytes, alignment |-> Max(A)]
    BY DEF mlp_total, W
  <1> HIDE DEF A, B, a, b
  <1>7. Max(B) \in Nat /\ Max(B) >= W("gate").bytes
    BY <1>3, Greatest
  <1>8. Max(A) \in Nat
    BY <1>4, Greatest
  <1>9. mlp_up_offset(n) \in Nat /\ mlp_up_offset(n) >= Max(B)
    <2>1. Base \in Nat \ {0}
      BY DEF Base
    <2> QED
      BY <1>5, <1>7, <2>1, AlignUp
  <1>10. align_up(W("up").bytes, Base) \in Nat
    <2>1. Base \in Nat \ {0} /\ W("up").bytes \in Nat
      BY <1>2 DEF Base, MlpOps
    <2> QED
      BY <2>1, AlignUp
  <1>11. mlp_total(n).bytes \in Nat /\ mlp_total(n).alignment \in Nat
    BY <1>6, <1>8, <1>9, <1>10 DEF NoBytes
  <1>12. mlp_up_offset(n) >= W("gate").bytes
    BY <1>2, <1>7, <1>9 DEF MlpOps
  <1> QED
    BY <1>9, <1>11, <1>12 DEF W

(* The slices that are in use together do not overlap. *)
LEMMA LayoutOrder ==
    ASSUME NEW n \in NeedType
    PROVE  LET L == WorkspaceLayout(n)
               S == SliceNeeds(n)
           IN  /\ L.q \in Nat /\ L.k \in Nat /\ L.v \in Nat /\ L.mlp \in Nat
               /\ S.q.bytes \in Nat /\ S.k.bytes \in Nat /\ S.v.bytes \in Nat
               /\ S.q.bytes # 0 /\ S.k.bytes # 0 => L.q + S.q.bytes <= L.k
               /\ S.q.bytes # 0 /\ S.v.bytes # 0 => L.q + S.q.bytes <= L.v
               /\ S.k.bytes # 0 /\ S.v.bytes # 0 => L.k + S.k.bytes <= L.v
  <1> DEFINE r == SliceNeeds(n)
             q == reserve_slice(0, r.q)
             k == reserve_slice(q.cursor, r.k)
             v == reserve_slice(k.cursor, r.v)
             attention == reserve_slice(v.cursor, r.attention)
             mlp == reserve_slice(attention.cursor, r.mlp)
             L == WorkspaceLayout(n)
  <1>1. /\ r.q = Widest(n, {"q"}) /\ r.k = Widest(n, {"k"})
        /\ r.v = Widest(n, {"v"}) /\ r.attention = Widest(n, AttentionOps)
        /\ r.mlp = mlp_total(n)
    BY DEF SliceNeeds
  <1>2. /\ L.q = q.offset /\ L.k = k.offset /\ L.v = v.offset /\ L.mlp = mlp.offset
    BY DEF WorkspaceLayout
  <1>3. {"q", "k", "v"} \cup AttentionOps \subseteq Operations
    BY DEF Operations
  <1> HIDE DEF r
  <1>4. /\ r.q.bytes \in Nat /\ r.q.alignment \in Nat
        /\ r.k.bytes \in Nat /\ r.k.alignment \in Nat
        /\ r.v.bytes \in Nat /\ r.v.alignment \in Nat
    <2>1. \A op \in {"q", "k", "v"} : /\ Widest(n, {op}).bytes \in Nat
                                     /\ Widest(n, {op}).alignment \in Nat
      <3> TAKE op \in {"q", "k", "v"}
      <3>1. op \in Operations /\ {op} = {op, op, op, op, op}
        BY <1>3
      <3> QED
        BY <3>1, WidestKind
    <2> QED
      BY <1>1, <2>1
  <1>5. r.attention.bytes \in Nat /\ r.attention.alignment \in Nat
    <2>1. AttentionOps = {"sdpa", "projection", "first_residual",
                          "first_residual", "first_residual"}
      BY DEF AttentionOps
    <2> QED
      BY <1>1, <1>3, <2>1, WidestKind
  <1>6. r.mlp.bytes \in Nat /\ r.mlp.alignment \in Nat
    BY <1>1, MlpKind
  <1>7. /\ q.offset \in Nat /\ q.cursor \in Nat
        /\ r.q.bytes # 0 => q.cursor = q.offset + r.q.bytes
    <2>1. 0 \in Nat
      OBVIOUS
    <2> QED
      BY <1>4, <2>1, ReserveEffect
  <1> HIDE DEF q
  <1>8. /\ k.offset \in Nat /\ k.cursor \in Nat /\ k.cursor >= q.cursor
        /\ r.k.bytes # 0 => /\ k.offset >= q.cursor
                            /\ k.cursor = k.offset + r.k.bytes
    BY <1>4, <1>7, ReserveEffect
  <1> HIDE DEF k
  <1>9. /\ v.offset \in Nat /\ v.cursor \in Nat
        /\ r.v.bytes # 0 => v.offset >= k.cursor
    BY <1>4, <1>8, ReserveEffect
  <1> HIDE DEF v
  <1>10. attention.cursor \in Nat
    BY <1>5, <1>9, ReserveEffect
  <1> HIDE DEF attention
  <1>11. mlp.offset \in Nat
    BY <1>6, <1>10, ReserveEffect
  <1> HIDE DEF mlp, L
  <1> DEFINE QO == q.offset QC == q.cursor KO == k.offset KC == k.cursor
             VO == v.offset QB == r.q.bytes KB == r.k.bytes VB == r.v.bytes
  <1>12. /\ QO \in Nat /\ QC \in Nat /\ KO \in Nat /\ KC \in Nat /\ VO \in Nat
         /\ QB \in Nat /\ KB \in Nat /\ VB \in Nat
         /\ QB # 0 => QC = QO + QB
         /\ KC >= QC /\ (KB # 0 => KO >= QC /\ KC = KO + KB)
         /\ VB # 0 => VO >= KC
    BY <1>4, <1>7, <1>8, <1>9
  <1> HIDE DEF QO, QC, KO, KC, VO, QB, KB, VB
  <1>13. /\ QB # 0 /\ KB # 0 => QO + QB <= KO
         /\ QB # 0 /\ VB # 0 => QO + QB <= VO
         /\ KB # 0 /\ VB # 0 => KO + KB <= VO
    BY <1>12
  <1> QED
    BY <1>2, <1>11, <1>12, <1>13 DEF r, L, QO, KO, VO, QB, KB, VB

(* Members of a step that are handed workspace have ranges of their own. *)
LEMMA RangesApart ==
    ASSUME NEW n \in NeedType, NEW bank \in Banks,
           NEW o, NEW p, o # p,
           (o \in {"q", "k", "v"} /\ p \in {"q", "k", "v"})
               \/ (o \in {"gate", "up"} /\ p \in {"gate", "up"})
    PROVE  Disjoint(WorkspaceRange(n, bank, o), WorkspaceRange(n, bank, p))
  <1> DEFINE L == WorkspaceLayout(n)
             S == SliceNeeds(n)
             Need(op) == n[bank][op].bytes
             From(op) == WorkspaceRange(n, bank, op)[1]
             To(op) == WorkspaceRange(n, bank, op)[2]
  <1>1. /\ L.q \in Nat /\ L.k \in Nat /\ L.v \in Nat /\ L.mlp \in Nat
        /\ S.q.bytes \in Nat /\ S.k.bytes \in Nat /\ S.v.bytes \in Nat
        /\ S.q.bytes # 0 /\ S.k.bytes # 0 => L.q + S.q.bytes <= L.k
        /\ S.q.bytes # 0 /\ S.v.bytes # 0 => L.q + S.q.bytes <= L.v
        /\ S.k.bytes # 0 /\ S.v.bytes # 0 => L.k + S.k.bytes <= L.v
    BY LayoutOrder
  <1>2. /\ S.q = Widest(n, {"q"}) /\ S.k = Widest(n, {"k"}) /\ S.v = Widest(n, {"v"})
    BY DEF SliceNeeds
  <1>3. {"q", "k", "v", "gate", "up"} \subseteq Operations
    BY DEF Operations, MlpOps
  <1>4. \A op \in {"q", "k", "v", "gate", "up"} :
           /\ Need(op) \in Nat /\ Widest(n, {op}).bytes \in Nat
           /\ Need(op) <= Widest(n, {op}).bytes
    <2> TAKE op \in {"q", "k", "v", "gate", "up"}
    <2>1. op \in Operations
      BY <1>3
    <2>2. n[bank][op].bytes \in Nat
      BY <2>1 DEF NeedType
    <2>3. {op} = {op, op, op, op, op}
      OBVIOUS
    <2> QED
      BY <2>1, <2>2, <2>3, WidestKind
  <1>5. /\ Need("q") # 0 => S.q.bytes # 0
        /\ Need("k") # 0 => S.k.bytes # 0
        /\ Need("v") # 0 => S.v.bytes # 0
    BY <1>2, <1>4
  <1>6. \A op \in {"q", "k", "v", "gate", "up"} : Need(op) = 0 => From(op) = To(op)
    BY DEF WorkspaceRange
  <1>7. /\ Need("q") # 0 => From("q") = L.q /\ To("q") = L.q + S.q.bytes
        /\ Need("k") # 0 => From("k") = L.k /\ To("k") = L.k + S.k.bytes
        /\ Need("v") # 0 => From("v") = L.v
    BY <1>1 DEF WorkspaceRange, SliceOf, MlpOps, AttentionOps
  <1>8. /\ Need("gate") # 0 => To("gate") = L.mlp + Widest(n, {"gate"}).bytes
        /\ Need("up") # 0 => From("up") = L.mlp + mlp_up_offset(n)
    BY <1>1 DEF WorkspaceRange, SliceOf, MlpOps, AttentionOps
  <1>9. mlp_up_offset(n) \in Nat /\ mlp_up_offset(n) >= Widest(n, {"gate"}).bytes
    BY MlpKind
  <1>10. Disjoint(WorkspaceRange(n, bank, o), WorkspaceRange(n, bank, p))
         <=> \/ From(o) = To(o) \/ From(p) = To(p)
             \/ To(o) <= From(p) \/ To(p) <= From(o)
    BY DEF Disjoint
  <1> HIDE DEF L, S, Need, From, To
  <1>11. /\ Need("q") # 0 /\ Need("k") # 0 => To("q") <= From("k")
         /\ Need("q") # 0 /\ Need("v") # 0 => To("q") <= From("v")
         /\ Need("k") # 0 /\ Need("v") # 0 => To("k") <= From("v")
    BY <1>1, <1>5, <1>7
  <1>12. Need("gate") # 0 /\ Need("up") # 0 => To("gate") <= From("up")
    BY <1>1, <1>4, <1>8, <1>9
  <1> QED
    BY <1>6, <1>10, <1>11, <1>12

(* The operations submitted together: three projections, or two that share  *)
(* nothing but what they read.                                              *)
LEMMA StepPairs ==
    ASSUME NEW o \in LayerOps, NEW p \in LayerOps, o # p, StepOf(o) = StepOf(p)
    PROVE  \/ o \in {"q", "k", "v"} /\ p \in {"q", "k", "v"}
           \/ o \in {"rope_q", "rope_k"} /\ p \in {"rope_q", "rope_k"}
           \/ o \in {"append_k", "append_v"} /\ p \in {"append_k", "append_v"}
           \/ o \in {"gate", "up"} /\ p \in {"gate", "up"}
  BY DEF LayerOps, StepOf

(* Two members of a running step do not get in each other's way. *)
LEMMA MembersApart ==
    ASSUME need \in NeedType, fwd \in Forwards,
           NEW s, NEW t, NEW o \in LayerOps, NEW p \in LayerOps,
           OfForward(s, o, fwd.layer), OfForward(t, p, fwd.layer),
           o # p, StepOf(o) = StepOf(p)
    PROVE  /\ Disjoint(Lease(s), Lease(t))
           /\ Writes(s) # Writes(t) /\ Writes(s) \notin Reads(t)
  <1>1. /\ s.op = o /\ t.op = p /\ s.bank = fwd.bank /\ t.bank = fwd.bank
        /\ s.layer = fwd.layer /\ t.layer = fwd.layer /\ fwd.bank \in Banks
    BY DEF OfForward, Forwards
  <1>2. Writes(s) # Writes(t)
    BY TargetOf, TargetsDiffer
  <1>3. CASE o \in {"q", "k", "v"} /\ p \in {"q", "k", "v"}
    <2>1. /\ Lease(s) = WorkspaceRange(need, fwd.bank, o)
          /\ Lease(t) = WorkspaceRange(need, fwd.bank, p)
      BY <1>1, <1>3 DEF Lease, Unaided, Query
    <2>2. Disjoint(Lease(s), Lease(t))
      BY <1>1, <1>3, <2>1, RangesApart
    <2>3. /\ Writes(s) \in {<<s.bank, "q">>, <<s.bank, "k">>, <<s.bank, "v">>}
          /\ Reads(t) = {<<t.bank, "attention_norm">>}
      BY <1>1, <1>3, OperandTable
    <2> QED
      BY <1>2, <2>2, <2>3
  <1>4. CASE o \in {"rope_q", "rope_k"} /\ p \in {"rope_q", "rope_k"}
    <2>1. Lease(s) = <<0, 0>>
      BY <1>1, <1>4 DEF Lease, Unaided
    <2>2. /\ Writes(s) \in {<<s.bank, "rotated_q">>, <<s.bank, "rotated_k">>}
          /\ Reads(t) \in {{<<t.bank, "q">>}, {<<t.bank, "k">>}}
      BY <1>1, <1>4, OperandTable
    <2> QED
      BY <1>2, <2>1, <2>2 DEF Disjoint
  <1>5. CASE o \in {"append_k", "append_v"} /\ p \in {"append_k", "append_v"}
    <2>1. Lease(s) = <<0, 0>>
      BY <1>1, <1>5 DEF Lease, Unaided
    <2>2. /\ Writes(s) \in {<<"key", s.layer>>, <<"value", s.layer>>}
          /\ Reads(t) \in {{<<t.bank, "rotated_k">>}, {<<t.bank, "v">>}}
      BY <1>1, <1>5, OperandTable
    <2>3. t.bank # "key" /\ t.bank # "value"
      BY <1>1 DEF Banks
    <2> QED
      BY <1>2, <2>1, <2>2, <2>3 DEF Disjoint
  <1>6. CASE o \in {"gate", "up"} /\ p \in {"gate", "up"}
    <2>1. /\ Lease(s) = WorkspaceRange(need, fwd.bank, o)
          /\ Lease(t) = WorkspaceRange(need, fwd.bank, p)
      BY <1>1, <1>6 DEF Lease, Unaided, Query
    <2>2. Disjoint(Lease(s), Lease(t))
      BY <1>1, <1>6, <2>1, RangesApart
    <2>3. /\ Writes(s) \in {<<s.bank, "gate">>, <<s.bank, "up">>}
          /\ Reads(t) = {<<t.bank, "mlp_norm">>}
      BY <1>1, <1>6, OperandTable
    <2> QED
      BY <1>2, <2>2, <2>3
  <1> QED
    BY <1>3, <1>4, <1>5, <1>6, StepPairs

(* Tokens in flight together are members of the running step. *)
LEMMA FlightOfStep ==
    ASSUME IInv, NEW s \in InFlight, NEW t \in InFlight, s # t
    PROVE  /\ pc = "step"
           /\ \E i, j \in DOMAIN group : s = group[i] /\ t = group[j] /\ i # j
  <1>1. ledger \in Seq(Accepted)
    BY DEF IInv, TypeOK
  <1>2. \A x \in Pending(ledger) : x = ledger[Len(ledger)]
    BY DEF IInv, LedgerSettled, Pending
  <1>3. pc = "step"
    <2>1. pc # "step" => Pending(group) = {}
      BY DEF IInv, GroupSettled, Pending
    <2> QED
      BY <1>2, <2>1 DEF InFlight
  <1>4. Pending(ledger) = {}
    BY <1>3, InStep DEF Pending
  <1>5. s \in Pending(group) /\ t \in Pending(group)
    BY <1>4 DEF InFlight
  <1> QED
    BY <1>3, <1>5 DEF Pending

(* Nothing that is in flight conflicts. *)
LEMMA NoConflict ==
    ASSUME IInv
    PROVE  NoConflictInFlight
  <1>1. pc = "upload" => InFlight = {}
    <2>1. pc = "upload" => ~poisoned /\ ~Awaited
      BY DEF IInv, PoisonStops, Awaited
    <2>2. pc = "upload" => Pending(ledger) = {}
      BY <2>1 DEF IInv, LedgerSettled, Pending
    <2>3. pc = "upload" => Pending(group) = {}
      BY DEF IInv, GroupSettled, Pending
    <2> QED
      BY <2>2, <2>3 DEF InFlight
  <1>2. ASSUME NEW s \in InFlight, NEW t \in InFlight, s # t
        PROVE  /\ Disjoint(Lease(s), Lease(t))
               /\ Writes(s) # Writes(t) /\ Writes(s) \notin Reads(t)
    <2>1. pc = "step"
      BY <1>2, FlightOfStep
    <2>2. PICK i, j \in DOMAIN group : s = group[i] /\ t = group[j] /\ i # j
      BY <1>2, FlightOfStep
    <2> DEFINE o == LayerSteps[fwd.step][i]
               p == LayerSteps[fwd.step][j]
    <2>3. /\ i \in 1 .. Len(LayerSteps[fwd.step])
          /\ j \in 1 .. Len(LayerSteps[fwd.step])
          /\ fwd.step \in 1 .. 13 /\ fwd \in Forwards
      BY <2>1, InStep
    <2>4. OfForward(s, o, fwd.layer) /\ OfForward(t, p, fwd.layer)
      BY <2>1, <2>2, InStep
    <2>5. o \in LayerOps /\ p \in LayerOps /\ StepOf(o) = StepOf(p)
      BY <2>1, <2>3, InStep
    <2>6. o # p
      <3>1. \A k, l \in 1 .. Len(LayerSteps[fwd.step]) :
               k # l => LayerSteps[fwd.step][k] # LayerSteps[fwd.step][l]
        BY <2>3, StepMembers, Zenon
      <3> QED
        BY <2>2, <2>3, <3>1
    <2>7. need \in NeedType
      BY NeedsValid DEF IInv, TypeOK, NeedType, Banks
    <2> HIDE DEF o, p
    <2> QED
      BY <2>3, <2>4, <2>5, <2>6, <2>7, MembersApart
  <1> QED
    BY <1>1, <1>2 DEF NoConflictInFlight

(***************************************************************************)
(* Two operations the queue holds at the same time never lease overlapping *)
(* workspace and neither writes what the other reads or writes, and the    *)
(* upload of token ids meets no operation at all: for every requirement a  *)
(* backend may report, not only the one the run checks.                    *)
(***************************************************************************)
THEOREM ConflictFree == Spec => []NoConflictInFlight
  <1>1. IInv => NoConflictInFlight
    BY NoConflict
  <1> QED
    BY <1>1, Invariance, PTL
================================================================================
