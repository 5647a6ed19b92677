-------------------------------- MODULE Session --------------------------------
(***************************************************************************)
(* A TinyLlama session (src/src/session.cpp): one caller thread that       *)
(* prepares a request, runs the prompt and then token after token through  *)
(* the decoder layers, and submits every operation to a queue that         *)
(* finishes them later, in order, each one well or with a failure.         *)
(*                                                                         *)
(* Token values are abstracted to what generation tells apart (the end of  *)
(* sequence, another token, one outside the vocabulary), so the history    *)
(* and the results are their lengths.  A tensor holds the tag of the value *)
(* it should have, <<request, offset, layer>>, or Junk while an operation  *)
(* writes it, after that operation failed, or when an input was wrong.     *)
(***************************************************************************)
EXTENDS ForwardPlan, InferenceMetrics, Integers

CONSTANTS
    Config,         \* the model's configuration, with L layers
    Needs,          \* the workspace requirements of possible backends
    Prompts,        \* lengths of prompts, C + 1 for a refused one
    Limits,         \* values of max_new_tokens
    Tracing,        \* whether the caller prepares the operation trace
    MaxCalls        \* bound: calls on one session

ASSUME ConfigValid ==
    /\ Config \in [{"F", "M", "Hq", "Hkv", "D", "C", "L", "V"} -> Nat \ {0}]
    /\ Config.F = Config.Hq * Config.D /\ Config.D % 2 = 0
    /\ Config.Hq % Config.Hkv = 0

(* What a backend may report, for the tensors of either bank. *)
ASSUME NeedsValid ==
    Needs \subseteq [{"prefill", "decode"} ->
                       [Operations -> [bytes : Nat, alignment : Nat]]]

ASSUME CallsValid ==
    /\ Prompts \subseteq Nat /\ Limits \subseteq Nat
    /\ Tracing \in BOOLEAN /\ MaxCalls \in Nat

VARIABLES
    pc,             \* where the caller thread is
    call,           \* the call it is in
    need,           \* what the backend requires, fixed
    request,        \* the published request, ordinal 0 before the first
    ledger,         \* request->accepted_oids, with what became of each token
    group,          \* the tokens of the stage step being run
    fwd,            \* the forward being run
    buf,            \* what the tensors of the two banks and the logits hold
    rows,           \* which request wrote each row of each cache
    prefix,         \* caches[layer].initialized_length
    poisoned, err,
    drainAt, drained,       \* position and first failure of drain_request
    ret,            \* what the last call returned
    calls, metrics

vars == <<pc, call, need, request, ledger, group, fwd, buf, rows, prefix,
          poisoned, err, drainAt, drained, ret, calls, metrics>>

Junk == <<0, 0, 0>>
None == "none"
Layers == 0 .. Config.L - 1
Roles == {"token_indices", "x", "attention_norm", "q", "k", "v", "rotated_q",
          "rotated_k", "attention_merged", "attention_output",
          "residual_after_attention", "mlp_norm", "gate", "up", "silu",
          "product", "down", "residual_after_mlp", "final_norm"}
Logits == <<"logits", 0>>
Owners == ({"prefill", "decode"} \X Roles) \cup {Logits}
Caches == {"key", "value"} \X Layers

NoRequest == [ordinal |-> 0, run |-> 0, history |-> 0, results |-> 0]
NoCall == [kind |-> "none", prompt |-> 0, max |-> 0, phase |-> "none",
           fromDecode |-> FALSE, decodePending |-> FALSE]
NoForward == [bank |-> "prefill", a |-> 0, R |-> 0, layer |-> 0, step |-> 1]
NoReturn == [ok |-> TRUE, tokens |-> 0, reason |-> None]

(* The checked bound on the accepted tokens of a request, and of the trace. *)
accepted_oid_capacity == Config.C * (Config.L * 24 + 32)

(***************************************************************************)
(* The steps of a decoder layer: the operations of one step are submitted  *)
(* together, then all of them are waited for.                              *)
(***************************************************************************)
QkvSteps == << <<"norm1">>, <<"q", "k", "v">>, <<"rope_q", "rope_k">> >>
AttentionSteps == << <<"append_k", "append_v">>, <<"sdpa">>, <<"projection">>,
                     <<"first_residual">> >>
MlpSteps == << <<"norm2">>, <<"gate", "up">>, <<"silu">>, <<"mul">>, <<"down">>,
               <<"residual">> >>
LayerSteps == QkvSteps \o AttentionSteps \o MlpSteps

Views(t) == make_layer_views(Config, t.bank, t.R, t.layer)

(* The tensors and caches an operation reads, and the one it writes. *)
Reads(t) ==
    LET v == Views(t) IN
    CASE t.op = "embedding" -> {<<t.bank, "token_indices">>}
      [] t.op = "norm1" -> {v.qkv.activation.owner}
      [] t.op \in {"q", "k", "v"} -> {v.qkv.normalized.owner}
      [] t.op = "rope_q" -> {v.qkv.q.owner}
      [] t.op = "rope_k" -> {v.qkv.k.owner}
      [] t.op = "append_k" -> {v.attention.rotated_k.owner}
      [] t.op = "append_v" -> {v.attention.rotated_v.owner}
      [] t.op = "sdpa" -> {v.attention.rotated_q.owner,
                           v.attention.k_cache.owner, v.attention.v_cache.owner}
      [] t.op = "projection" -> {v.attention.merged.owner}
      [] t.op = "first_residual" -> {v.attention.input.owner,
                                     v.attention.projected.owner}
      [] t.op = "norm2" -> {v.mlp.x2.owner}
      [] t.op \in {"gate", "up"} -> {v.mlp.n2.owner}
      [] t.op = "silu" -> {v.mlp.gate.owner}
      [] t.op = "mul" -> {v.mlp.silu.owner, v.mlp.up.owner}
      [] t.op = "down" -> {v.mlp.product.owner}
      [] t.op = "residual" -> {v.mlp.x2.owner, v.mlp.down.owner}
      [] t.op = "final_norm" -> {<<t.bank, final_layer_output(Config.L)>>}
      [] t.op = "lm_head" -> {<<t.bank, "final_norm">>}

Writes(t) ==
    LET v == Views(t) IN
    CASE t.op = "embedding" -> <<t.bank, "x">>
      [] t.op = "norm1" -> v.qkv.normalized.owner
      [] t.op \in {"q", "k", "v"} -> v.qkv[t.op].owner
      [] t.op = "rope_q" -> v.qkv.rotated_q.owner
      [] t.op = "rope_k" -> v.qkv.rotated_k.owner
      [] t.op = "append_k" -> v.attention.k_cache.owner
      [] t.op = "append_v" -> v.attention.v_cache.owner
      [] t.op = "sdpa" -> v.attention.merged.owner
      [] t.op = "projection" -> v.attention.projected.owner
      [] t.op = "first_residual" -> v.attention.output.owner
      [] t.op = "norm2" -> v.mlp.n2.owner
      [] t.op \in {"gate", "up", "silu", "product", "down"} ->
             v.mlp[t.op].owner
      [] t.op = "mul" -> v.mlp.product.owner
      [] t.op = "residual" -> v.mlp.next_x.owner
      [] t.op = "final_norm" -> <<t.bank, "final_norm">>
      [] t.op = "lm_head" -> Logits

(* The requirement an operation is queried under. *)
Query(op) ==
    CASE op \in {"norm1", "norm2", "final_norm"} -> "rmsnorm"
      [] op \in {"rope_q", "rope_k"} -> "rope"
      [] op \in {"append_k", "append_v"} -> "cache_append"
      [] OTHER -> op

(* These are called without workspace, and refused when they need some. *)
Unaided == {"norm1", "rope_q", "rope_k", "append_k", "append_v", "norm2", "silu"}

Lease(t) == IF t.op \in Unaided THEN <<0, 0>>
            ELSE WorkspaceRange(need, t.bank, Query(t.op))

Token(op, layer, st) ==
    [op |-> op, ordinal |-> request.ordinal, bank |-> fwd.bank, a |-> fwd.a,
     R |-> fwd.R, layer |-> layer, st |-> st]

Pending(tokens) == {tokens[i] : i \in {j \in DOMAIN tokens :
                                          tokens[j].st = "pending"}}
InFlight == Pending(ledger) \cup Pending(group)

(***************************************************************************)
(* The queue (external: DeviceOps, here as its caller sees it).  A written *)
(* tensor is undefined until its operation has finished well on inputs     *)
(* that held the right values.                                             *)
(***************************************************************************)
Tag(t) == <<t.ordinal, t.a, t.layer>>
Span(t) == t.a .. t.a + t.R - 1

Spoil(t) ==
    IF Writes(t) \in Owners
    THEN buf' = [buf EXCEPT ![Writes(t)] = Junk] /\ UNCHANGED rows
    ELSE /\ rows' = [rows EXCEPT ![Writes(t)] =
                        [i \in DOMAIN @ |-> IF i \in Span(t) THEN 0 ELSE @[i]]]
         /\ UNCHANGED buf

Sound(t) ==
    \A o \in Reads(t) :
        IF o \in Owners THEN buf[o] = Tag(t)
        ELSE \A i \in 0 .. t.a + t.R - 1 : rows[o][i] = t.ordinal

Produce(t) ==
    IF ~Sound(t) THEN UNCHANGED <<buf, rows>>
    ELSE IF Writes(t) \in Owners
    THEN /\ buf' = [buf EXCEPT ![Writes(t)] =
                       IF t.op = "residual"
                       THEN <<t.ordinal, t.a, t.layer + 1>> ELSE Tag(t)]
         /\ UNCHANGED rows
    ELSE /\ rows' = [rows EXCEPT ![Writes(t)] =
                        [i \in DOMAIN @ |-> IF i \in Span(t) THEN t.ordinal
                                            ELSE @[i]]]
         /\ UNCHANGED buf

(* The oldest token that has not finished. *)
Finishes(tokens, i) ==
    /\ i \in DOMAIN tokens /\ tokens[i].st = "pending"
    /\ \A j \in 1 .. i - 1 : tokens[j].st # "pending"

QueueFinishes ==
    /\ \E outcome \in {"ok", "failed"} :
        \/ \E i \in DOMAIN ledger :
            /\ Finishes(ledger, i)
            /\ ledger' = [ledger EXCEPT ![i].st = outcome]
            /\ IF outcome = "ok" THEN Produce(ledger[i])
               ELSE UNCHANGED <<buf, rows>>
            /\ UNCHANGED group
        \/ \E i \in DOMAIN group :
            /\ Finishes(group, i) /\ Pending(ledger) = {}
            /\ group' = [group EXCEPT ![i].st = outcome]
            /\ IF outcome = "ok" THEN Produce(group[i])
               ELSE UNCHANGED <<buf, rows>>
            /\ UNCHANGED ledger
    /\ UNCHANGED <<pc, call, need, request, fwd, prefix, poisoned, err,
                   drainAt, drained, ret, calls, metrics>>

(***************************************************************************)
(* Errors.  A failure inside a forward, a wait or the selection poisons    *)
(* the session and drains the request before the call throws; a failure    *)
(* while a request is prepared just throws.                                *)
(***************************************************************************)
Unwind(failure) ==
    /\ err' = failure /\ poisoned' = TRUE
    /\ pc' = "drain_throw" /\ drainAt' = 1 /\ drained' = None

Throw(failure) ==
    /\ err' = failure /\ pc' = "throw"
    /\ UNCHANGED <<poisoned, drainAt, drained>>

Steady == UNCHANGED <<poisoned, err, drainAt, drained>>

(* What generate_tokens and its text wrappers record as a call throws. *)
Throws ==
    /\ pc = "throw"
    /\ LET m1 == IF call.phase = "prefill" THEN record_prefill(metrics, "failed")
                 ELSE metrics
           m2 == IF call.decodePending THEN record_decode(m1, "failed") ELSE m1
           m3 == IF call.kind = "setup" THEN m2
                 ELSE end_generation_failure(m2, err)
       IN  metrics' = IF call.kind = "text"
                      THEN record_tokenization(m3, "succeeded") ELSE m3
    /\ ret' = [ok |-> FALSE, tokens |-> 0, reason |-> err]
    /\ pc' = "idle" /\ call' = NoCall /\ group' = <<>> /\ err' = None
    /\ UNCHANGED <<need, request, ledger, fwd, buf, rows, prefix, poisoned,
                   drainAt, drained, calls>>

finish(reason, tokens, m) ==
    LET m1 == end_generation(m, reason) IN
    /\ metrics' = IF call.kind = "text" THEN record_tokenization(m1, "succeeded")
                  ELSE m1
    /\ ret' = [ok |-> TRUE, tokens |-> tokens, reason |-> reason]
    /\ pc' = "idle" /\ call' = NoCall

(***************************************************************************)
(* drain_request: every accepted token is waited for whatever the others   *)
(* did, the first failure is kept, a failure poisons the session.          *)
(***************************************************************************)
Draining == pc \in {"drain_build", "drain_throw", "drain_destroy"}

ObserveWait(m, i) ==
    IF ledger[i].st = "failed" THEN record_wait(m, i, m.ordinal, "failed")
    ELSE IF m.tracing THEN record_wait(m, i, 0, "succeeded")
    ELSE m

(* Mutant: the outcome of the last wait replaces the poison. *)
MutDrainForgets ==
    /\ Draining /\ drainAt \in DOMAIN ledger /\ ledger[drainAt].st # "pending"
    /\ metrics' = ObserveWait(metrics, drainAt)
    /\ drained' = IF ledger[drainAt].st = "failed" /\ drained = None
                  THEN ledger[drainAt].op ELSE drained
    /\ poisoned' = (ledger[drainAt].st = "failed")
    /\ drainAt' = drainAt + 1
    /\ UNCHANGED <<pc, call, need, request, ledger, group, fwd, buf, rows,
                   prefix, err, ret, calls>>

DrainWait ==
    /\ Draining /\ drainAt \in DOMAIN ledger /\ ledger[drainAt].st # "pending"
    /\ metrics' = ObserveWait(metrics, drainAt)
    /\ drained' = IF ledger[drainAt].st = "failed" /\ drained = None
                  THEN ledger[drainAt].op ELSE drained
    /\ poisoned' = (poisoned \/ ledger[drainAt].st = "failed")
    /\ drainAt' = drainAt + 1
    /\ UNCHANGED <<pc, call, need, request, ledger, group, fwd, buf, rows,
                   prefix, err, ret, calls>>

DrainReturns ==
    /\ Draining /\ drainAt \notin DOMAIN ledger
    /\ ledger' = IF drained = None /\ ~poisoned THEN <<>> ELSE ledger
    /\ \/ pc = "drain_build" /\ drained # None /\ pc' = "throw" /\ err' = drained
       \/ pc = "drain_build" /\ drained = None /\ pc' = "build" /\ UNCHANGED err
       \/ pc = "drain_throw" /\ pc' = "throw" /\ UNCHANGED err
       \/ pc = "drain_destroy" /\ pc' = "dead" /\ UNCHANGED err
    /\ UNCHANGED <<call, need, request, group, fwd, buf, rows, prefix, poisoned,
                   drainAt, drained, ret, calls, metrics>>

(***************************************************************************)
(* Calls.                                                                  *)
(***************************************************************************)
Init ==
    /\ pc = "unloaded" /\ call = NoCall /\ need \in Needs
    /\ request = NoRequest /\ ledger = <<>> /\ group = <<>> /\ fwd = NoForward
    /\ buf = [o \in Owners |-> Junk]
    /\ rows = [o \in Caches |-> [i \in 0 .. Config.C - 1 |-> 0]]
    /\ prefix = [l \in Layers |-> 0]
    /\ poisoned = FALSE /\ err = None /\ drainAt = 1 /\ drained = None
    /\ ret = NoReturn /\ calls = 0 /\ metrics = NewRecorder

load_tinyllama_session ==
    /\ pc = "unloaded"
    /\ \/ pc' = "idle" /\ metrics' = record_load(metrics, "succeeded")
       \/ pc' = "dead" /\ metrics' = record_load(metrics, "failed")
    /\ UNCHANGED <<call, need, request, ledger, group, fwd, buf, rows, prefix,
                   ret, calls>>
    /\ Steady

prepare_operation_trace ==
    /\ pc = "idle" /\ request.ordinal = 0 /\ Tracing /\ ~metrics.tracing
    /\ metrics' = prepare_trace(metrics)
    /\ UNCHANGED <<pc, call, need, request, ledger, group, fwd, buf, rows,
                   prefix, ret, calls>>
    /\ Steady

(* A prompt is its length; length C + 1 also stands for a token outside    *)
(* the vocabulary, which is rejected at the same place.                    *)
validate_generation_prompt(n) == n # 0 /\ n <= Config.C

Enter(kind, n, max) ==
    /\ pc = "idle" /\ metrics.tracing = Tracing
    /\ calls < MaxCalls /\ calls' = calls + 1
    /\ call' = [NoCall EXCEPT !.kind = kind, !.prompt = n, !.max = max,
                              !.phase = "setup"]
    /\ drainAt' = 1 /\ drained' = None
    /\ IF ~validate_generation_prompt(n)
       THEN pc' = "throw" /\ err' = "invalid_argument"
       ELSE IF poisoned
       THEN pc' = "throw" /\ err' = "poisoned"
       ELSE pc' = "drain_build" /\ UNCHANGED err
    /\ UNCHANGED <<need, request, ledger, group, fwd, buf, rows, prefix,
                   poisoned, ret>>

generate_tokens(n, max) ==
    Enter("tokens", n, max) /\ metrics' = begin_generation(metrics, n)

(* generate_raw and generate_chat encode first; the attempt is staged twice. *)
generate_text(n, max) ==
    /\ Enter("text", n, max)
    /\ metrics' = begin_generation(begin_generation(metrics, 0), n)

(* The chat formatter or the encoder throws, the latter after it is measured. *)
preprocessing_fails ==
    /\ pc = "idle" /\ calls < MaxCalls /\ calls' = calls + 1
    /\ \E encoding \in BOOLEAN :
        LET m == begin_generation(metrics, 0)
            m1 == IF encoding THEN record_tokenization(m, "failed") ELSE m
        IN  metrics' = record_preprocessing_failure(m1, "preprocessing")
    /\ ret' = [ok |-> FALSE, tokens |-> 0, reason |-> "preprocessing"]
    /\ UNCHANGED <<pc, call, need, request, ledger, group, fwd, buf, rows,
                   prefix>>
    /\ Steady

(* Resource setup alone, without a forward. *)
prepare_request(n) == Enter("setup", n, 0) /\ UNCHANGED metrics

destroy ==
    /\ pc = "idle" /\ pc' = "drain_destroy" /\ drainAt' = 1 /\ drained' = None
    /\ UNCHANGED <<call, need, request, ledger, group, fwd, buf, rows, prefix,
                   poisoned, err, ret, calls, metrics>>

(***************************************************************************)
(* The replacement is built beside the old request, which stays as it is   *)
(* when an allocation, a requirement or the workspace is refused.          *)
(***************************************************************************)
PlanAccepted ==
    /\ \A bank \in DOMAIN need : \A op \in DOMAIN need[bank] :
           RequirementValid(need[bank][op])
    /\ RequirementValid(WorkspaceTotal(need))

BuildFails == pc = "build" /\ Throw("bad_alloc")
    /\ UNCHANGED <<call, need, request, ledger, group, fwd, buf, rows, prefix,
                   ret, calls, metrics>>

Publish ==
    /\ pc = "build" /\ PlanAccepted
    /\ prefix' = [l \in Layers |-> 0]
    /\ request' = [ordinal |-> request.ordinal + 1, run |-> call.prompt,
                   history |-> 0, results |-> 0]
    /\ ledger' = <<>>
    /\ buf' = [o \in Owners |-> IF o[1] = "prefill" THEN Junk ELSE buf[o]]
    /\ LET m == publish_generation(metrics) IN
       CASE call.kind = "setup" ->
                /\ metrics' = m /\ pc' = "idle" /\ call' = NoCall
                /\ ret' = NoReturn
         [] call.kind # "setup" /\ call.max = 0 ->
                finish("max_new_tokens", 0, m)
         [] OTHER ->
                /\ metrics' = m /\ pc' = "upload" /\ UNCHANGED ret
                /\ call' = [call EXCEPT !.phase = "prefill"]
    /\ fwd' = [NoForward EXCEPT !.R = call.prompt]
    /\ UNCHANGED <<need, group, rows, calls>>
    /\ Steady

(***************************************************************************)
(* A forward: upload the token ids, embed them, run the layers, normalise, *)
(* project onto the vocabulary.  forward_decode first checks that every    *)
(* layer's cache has the same prefix and room for one more row.            *)
(***************************************************************************)
DecodeAdmitted ==
    /\ prefix[0] < Config.C
    /\ \A l \in Layers : prefix[l] = prefix[0]

StartDecode ==
    /\ pc = "decode"
    /\ metrics' = record_decode_interval(metrics)
    /\ call' = [call EXCEPT !.phase = "decode", !.decodePending = TRUE,
                            !.fromDecode = TRUE]
    /\ IF DecodeAdmitted
       THEN /\ pc' = "upload"
            /\ fwd' = [NoForward EXCEPT !.bank = "decode", !.a = prefix[0],
                                        !.R = 1]
            /\ Steady
       ELSE Throw("logic_error") /\ UNCHANGED fwd
    /\ UNCHANGED <<need, request, ledger, group, buf, rows, prefix, ret, calls>>

(* copy_from_host blocks until the indices are on the device. *)
Upload ==
    /\ pc = "upload"
    /\ \/ /\ buf' = [buf EXCEPT ![<<fwd.bank, "token_indices">>] =
                           <<request.ordinal, fwd.a, 0>>]
          /\ pc' = "embedding" /\ Steady
       \/ Unwind("device_error") /\ UNCHANGED buf
    /\ UNCHANGED <<call, need, request, ledger, group, fwd, rows, prefix, ret,
                   calls, metrics>>

(***************************************************************************)
(* SessionAccess::submit: the bounds are checked before the facade is      *)
(* called, an accepted token enters the ledger and the trace.              *)
(***************************************************************************)
require_submission ==
    /\ ~poisoned /\ Len(ledger) < accepted_oid_capacity
    /\ metrics.tracing => Len(metrics.rows) < accepted_oid_capacity

Submit(op, layer, next) ==
    /\ \/ /\ require_submission
          /\ LET t == Token(op, layer, "pending")
             IN  ledger' = Append(ledger, t) /\ Spoil(t)
          /\ metrics' = record_enqueue(metrics, accepted_oid_capacity)
          /\ pc' = next /\ Steady
       \/ /\ Unwind(IF require_submission THEN op ELSE "overflow_error")
          /\ UNCHANGED <<ledger, buf, rows, metrics>>
    /\ UNCHANGED <<call, need, request, group, fwd, prefix, ret, calls>>

Embedding == pc = "embedding" /\ Submit("embedding", 0, "layer")
FinalNorm == pc = "final_norm" /\ Submit("final_norm", Config.L, "await_norm")
LmHead == pc = "lm_head" /\ Submit("lm_head", Config.L, "ready")

(* SessionAccess::wait on the last token of the ledger. *)
WaitLast(next) ==
    LET last == Len(ledger) IN
    /\ ledger[last].st # "pending"
    /\ metrics' = ObserveWait(metrics, last)
    /\ IF ledger[last].st = "ok" THEN pc' = next /\ Steady
       ELSE Unwind(ledger[last].op)

AwaitNorm ==
    /\ pc = "await_norm" /\ WaitLast("lm_head")
    /\ UNCHANGED <<call, need, request, ledger, group, fwd, buf, rows, prefix,
                   ret, calls>>

(***************************************************************************)
(* A decoder layer: its views and positions are checked before anything is *)
(* waited for, layer 0 waits for the embedding, and the stages check the   *)
(* rest before their first submission.                                     *)
(***************************************************************************)
StagesAccept(v) ==
    /\ prepare_qkv_rope_stage(v.qkv, fwd.R)
    /\ validate_stage(v.attention, fwd.a, fwd.R, Config.C, prefix[fwd.layer])
    /\ mlp_validate_views(v.mlp, fwd.R, Config.F, Config.M)
    /\ \A op \in {"rmsnorm", "rope"} : need[fwd.bank][op].bytes = 0

EnterLayer ==
    LET v == make_layer_views(Config, fwd.bank, fwd.R, fwd.layer)
        embedding == ledger[Len(ledger)].st
    IN
    /\ pc = "layer"
    /\ IF ~decoder_validate(v, Config, fwd.a, fwd.R, prefix[fwd.layer])
       THEN Unwind("invalid_argument")
       ELSE /\ fwd.layer = 0 => embedding # "pending"
            /\ IF fwd.layer = 0 /\ embedding = "failed"
               THEN Unwind("embedding")
               ELSE IF ~StagesAccept(v)
               THEN Unwind("invalid_argument")
               ELSE pc' = "step" /\ Steady
    /\ UNCHANGED <<call, need, request, ledger, group, fwd, buf, rows, prefix,
                   ret, calls, metrics>>

(* The members of a step go to the queue one after the other; a refused    *)
(* member does not keep the later ones from being submitted.               *)
SubmitMember ==
    /\ pc = "step" /\ Len(group) < Len(LayerSteps[fwd.step])
    /\ \E st \in {"pending", "rejected"} :
        LET t == Token(LayerSteps[fwd.step][Len(group) + 1], fwd.layer, st) IN
        /\ st = "pending" /\ t.op \in Unaided
               => need[t.bank][Query(t.op)].bytes = 0
        /\ group' = Append(group, t)
        /\ IF st = "pending" THEN Spoil(t) ELSE UNCHANGED <<buf, rows>>
    /\ UNCHANGED <<pc, call, need, request, ledger, fwd, prefix, ret, calls,
                   metrics>>
    /\ Steady

(***************************************************************************)
(* Which failure of a step is thrown: the first member's, except that the  *)
(* MLP spool prefers a refusal to a failed wait and keeps the last one.    *)
(***************************************************************************)
Refused == {i \in DOMAIN group : group[i].st = "rejected"}
Broken == {i \in DOMAIN group : group[i].st \in {"rejected", "failed"}}

(* Mutant: a later failure replaces an earlier one. *)
MutLastFailure == group[Max(Broken)].op

GroupFailure ==
    IF LayerSteps[fwd.step] = <<"gate", "up">> /\ Refused # {}
    THEN group[Max(Refused)].op
    ELSE group[Min(Broken)].op

(* Mutant: a step gives up at its first broken member. *)
MutStepGivesUp == /\ pc = "step" /\ Len(group) = Len(LayerSteps[fwd.step])
                  /\ Pending(group) = {} \/ Broken # {}

(* Mutant: a refused member is waited for like an accepted one. *)
MutWaitsRefused == /\ pc = "step" /\ Len(group) = Len(LayerSteps[fwd.step])
                   /\ Pending(group) = {} /\ Refused = {}

StepWaited == /\ pc = "step" /\ Len(group) = Len(LayerSteps[fwd.step])
              /\ Pending(group) = {}

StepFails ==
    /\ StepWaited /\ Broken # {} /\ Unwind(GroupFailure)
    /\ UNCHANGED <<call, need, request, ledger, group, fwd, buf, rows, prefix,
                   ret, calls, metrics>>

StepSucceeds ==
    /\ StepWaited /\ Broken = {} /\ group' = <<>>
    /\ IF fwd.step < Len(LayerSteps)
       THEN /\ fwd' = [fwd EXCEPT !.step = @ + 1]
            /\ UNCHANGED <<pc, prefix>>
       ELSE /\ prefix' = [prefix EXCEPT ![fwd.layer] = fwd.a + fwd.R]
            /\ fwd' = [fwd EXCEPT !.step = 1, !.layer = @ + 1]
            /\ pc' = IF fwd.layer + 1 < Config.L THEN "layer"
                     ELSE "final_norm"
    /\ UNCHANGED <<call, need, request, ledger, buf, rows, ret, calls, metrics>>
    /\ Steady

(***************************************************************************)
(* generate_tokens: the logits are waited for, then a token is selected.   *)
(***************************************************************************)
PrefillReady ==
    /\ pc = "ready" /\ call.phase = "prefill"
    /\ LET last == Len(ledger) IN
       /\ ledger[last].st # "pending"
       /\ IF ledger[last].st = "failed"
          THEN /\ metrics' = ObserveWait(metrics, last)
               /\ Unwind("lm_head") /\ UNCHANGED <<call, request, ret>>
          ELSE LET m == record_prefill(ObserveWait(metrics, last), "succeeded")
               IN  /\ request' = [request EXCEPT !.history = call.prompt]
                   /\ IF call.prompt = Config.C
                      THEN finish("context_capacity", 0, m)
                      ELSE /\ metrics' = m /\ pc' = "select" /\ UNCHANGED ret
                           /\ call' = [call EXCEPT !.phase = "select"]
                   /\ Steady
    /\ UNCHANGED <<need, ledger, group, fwd, buf, rows, prefix, calls>>

DecodeReady ==
    /\ pc = "ready" /\ call.phase = "decode"
    /\ LET last == Len(ledger)
           seen == ObserveWait(metrics, last)
       IN  /\ ledger[last].st # "pending"
           /\ IF ledger[last].st = "failed"
              THEN metrics' = seen /\ Unwind("lm_head") /\ UNCHANGED call
              ELSE /\ metrics' = record_decode_forward(
                                     record_decode(seen, "succeeded"))
                   /\ call' = [call EXCEPT !.decodePending = FALSE,
                                           !.phase = "select"]
                   /\ pc' = "select" /\ Steady
    /\ UNCHANGED <<need, request, ledger, group, fwd, buf, rows, prefix, ret,
                   calls>>

SelectFails ==
    /\ pc = "select"
    /\ \E failure \in {"selector", "invalid_argument"} : Unwind(failure)
    /\ UNCHANGED <<call, need, request, ledger, group, fwd, buf, rows, prefix,
                   ret, calls, metrics>>

(* End of sequence wins over the requested number, which wins over room. *)
Select ==
    /\ pc = "select"
    /\ LET results == request.results + 1
           history == request.history + 1
           m == commit_token(metrics, call.fromDecode)
       IN  /\ request' = [request EXCEPT !.history = history,
                                         !.results = results]
           /\ \/ finish("eos", results, m)
              \/ /\ results >= call.max /\ finish("max_new_tokens", results, m)
              \/ /\ results < call.max /\ history >= Config.C
                 /\ finish("context_capacity", results, m)
              \/ /\ results < call.max /\ history < Config.C
                 /\ pc' = "decode" /\ metrics' = m /\ UNCHANGED <<ret, call>>
    /\ UNCHANGED <<need, ledger, group, fwd, buf, rows, prefix, calls>>
    /\ Steady

Step ==
    \/ Throws \/ DrainWait \/ DrainReturns \/ load_tinyllama_session
    \/ BuildFails \/ Publish \/ StartDecode \/ Upload \/ Embedding
    \/ FinalNorm \/ LmHead \/ AwaitNorm \/ EnterLayer \/ SubmitMember
    \/ StepFails \/ StepSucceeds \/ PrefillReady \/ DecodeReady \/ SelectFails
    \/ Select

Next ==
    \/ Step \/ QueueFinishes \/ prepare_operation_trace
    \/ \E n \in Prompts, max \in Limits :
           generate_tokens(n, max) \/ generate_text(n, max)
    \/ preprocessing_fails \/ (\E n \in Prompts : prepare_request(n))
    \/ destroy

Spec == Init /\ [][Next]_vars

(* The calling thread keeps running and the queue ends what it accepted;    *)
(* nothing forces a call, a fault or the session's end.                     *)
FairSpec == Spec /\ WF_vars(Step \/ QueueFinishes)

--------------------------------------------------------------------------------
(***************************************************************************)
(* Two operations the queue holds at the same time never lease overlapping *)
(* workspace, and neither writes what the other reads or writes; the       *)
(* blocking upload of token ids meets no operation that uses its staging   *)
(* range or reads the ids.                                                 *)
(***************************************************************************)
NoConflictInFlight ==
    LET upload == WorkspaceRange(need, fwd.bank, "copy_from_host")
    IN  /\ \A s, t \in InFlight : s # t =>
               /\ Disjoint(Lease(s), Lease(t))
               /\ Writes(s) # Writes(t) /\ Writes(s) \notin Reads(t)
        /\ pc = "upload" => \A t \in InFlight :
               /\ Disjoint(Lease(t), upload)
               /\ <<fwd.bank, "token_indices">> \notin Reads(t)

(***************************************************************************)
(* The logits a token is selected from were computed from exactly this     *)
(* request's history: the right rows went through every layer once, every  *)
(* cache's published prefix is the history, and each row of it was written *)
(* by this request.                                                        *)
(***************************************************************************)
LogitsFromHistory ==
    pc = "select" =>
        /\ buf[Logits] = <<request.ordinal,
                           IF request.results = 0 THEN 0
                           ELSE request.history - 1, Config.L>>
        /\ \A l \in Layers : prefix[l] = request.history
        /\ \A o \in Caches : \A i \in 0 .. request.history - 1 :
               rows[o][i] = request.ordinal

(***************************************************************************)
(* Nothing the session submitted is still in the queue when a call returns *)
(* or throws, when its request is replaced and when the session dies.  A   *)
(* session that is not poisoned has seen none of its tokens fail and has   *)
(* the same prefix in every layer.                                         *)
(***************************************************************************)
QuietAtBoundaries ==
    pc \in {"idle", "throw", "build", "dead"} =>
        /\ InFlight = {}
        /\ ~poisoned => /\ \A i \in DOMAIN ledger : ledger[i].st = "ok"
                        /\ \A k, l \in Layers : prefix[k] = prefix[l]

(* A step of the QKV, cache and attention stages throws the failure of its *)
(* first broken member, whatever the later ones did.                       *)
FirstFailureThrown ==
    pc = "throw" /\ Broken # {} /\ LayerSteps[fwd.step] # <<"gate", "up">>
        => err = group[Min(Broken)].op

(* Once poisoned, a session hands the queue nothing more and stays so. *)
PoisonedSubmitsNothing ==
    [][poisoned => /\ poisoned' /\ Len(ledger') <= Len(ledger)
                   /\ Pending(group') \subseteq Pending(group)]_vars

(***************************************************************************)
(* The recorder's admitted request is the session's published one, with    *)
(* the counts of what that request did, and an attempt that was never      *)
(* published leaves it as it was.                                          *)
(***************************************************************************)
MetricsTellTheRequest ==
    LET s == metrics.scalars IN
    /\ metrics.ordinal = request.ordinal
    /\ s.generated = request.results
    /\ s.decodeTokens = IF request.results = 0 THEN 0 ELSE request.results - 1
    /\ s.decodeForwards \in {s.decodeTokens, s.decodeTokens + 1}
    /\ s.stop # None /\ s.rate => s.decodeTokens > 0
    /\ s.failure # None => ~s.rate /\ s.stop = None
    /\ metrics.dropped = 0
    /\ metrics.tracing /\ ledger # <<>> => Len(metrics.rows) = Len(ledger)
    /\ \A i \in DOMAIN metrics.rows \cap DOMAIN ledger :
           metrics.rows[i].wait = "failed" => ledger[i].st = "failed"

UnpublishedLeavesAdmitted ==
    [][metrics'.scalars # metrics.scalars =>
          \/ metrics'.attempt.ordinal = metrics'.ordinal
          \/ pc = "drain_build" /\ metrics.attempt.ordinal # metrics.ordinal]_vars

(* Every call comes to its end, however the queue's operations end. *)
CallsReturn == (pc \notin {"idle", "dead"}) ~> (pc \in {"idle", "dead"})
================================================================================
