------------------------------ MODULE ForwardPlan ------------------------------
(***************************************************************************)
(* The plan of one TinyLlama forward (src/src/session.cpp): the tensors of *)
(* a run, the views each decoder layer works on, the caller workspace cut  *)
(* into slices, and the checks the stages make before they submit.  A view *)
(* is its owner and its shape; every tensor is unquantized BF16 (token     *)
(* indices are U32) on the session's device, so those checks are left out. *)
(***************************************************************************)
EXTENDS Naturals, SequencesExt

Base == 32                      \* kBaseWorkspaceAlignment, kMlpSliceAlignment
NoBytes == [bytes |-> 0, alignment |-> 1]

PowerOfTwo(n) == \E k \in 0 .. 20 : n = 2 ^ k

(***************************************************************************)
(* Tensors: c is the model configuration, R the rows of the run.           *)
(***************************************************************************)
BankShape(c, R, role) ==
    CASE role = "token_indices" -> <<1, R>>
      [] role \in {"q", "rotated_q"} -> <<c.Hq, R, c.D>>
      [] role \in {"k", "v", "rotated_k"} -> <<c.Hkv, R, c.D>>
      [] role = "attention_merged" -> <<R, c.Hq * c.D>>
      [] role \in {"gate", "up", "silu", "product"} -> <<R, c.M>>
      [] OTHER -> <<R, c.F>>

BankView(c, bank, R, role) ==
    [owner |-> <<bank, role>>, shape |-> BankShape(c, R, role)]

CacheView(c, which, layer) ==
    [owner |-> <<which, layer>>, shape |-> <<c.Hkv, c.C, c.D>>]

(* The weights a checkpoint provides, in their canonical order. *)
LayerWeightShape(c, role) ==
    CASE role \in {0, 1} -> <<1, c.F>>
      [] role \in {2, 5} -> <<c.F, c.F>>
      [] role \in {3, 4} -> <<c.Hkv * c.D, c.F>>
      [] role \in {6, 7} -> <<c.M, c.F>>
      [] OTHER -> <<c.F, c.M>>

layer_weight_index(layer, role) == 3 + layer * 9 + role

WeightView(c, index) ==
    [owner |-> <<"weight", index>>,
     shape |-> IF index < 3
               THEN IF index = 1 THEN <<1, c.F>> ELSE <<c.V, c.F>>
               ELSE LayerWeightShape(c, (index - 3) % 9)]

(* Even layers read x and write residual_after_mlp, odd layers the reverse. *)
LayerInput(layer) == IF layer % 2 = 0 THEN "x" ELSE "residual_after_mlp"
LayerOutput(layer) == IF layer % 2 = 0 THEN "residual_after_mlp" ELSE "x"
(* Mutant: the last output is looked for where every layer's input is. *)
MutFinalInput(layers) == IF layers % 2 = 0 THEN "residual_after_mlp" ELSE "x"

final_layer_output(layers) ==
    IF layers % 2 = 0 THEN "x" ELSE "residual_after_mlp"

make_layer_views(c, bank, R, layer) ==
    LET b(role) == BankView(c, bank, R, role)
        w(role) == WeightView(c, layer_weight_index(layer, role))
    IN  [qkv |-> [activation |-> b(LayerInput(layer)), scale |-> w(0),
                  wq |-> w(2), wk |-> w(3), wv |-> w(4),
                  normalized |-> b("attention_norm"), q |-> b("q"),
                  k |-> b("k"), v |-> b("v"), rotated_q |-> b("rotated_q"),
                  rotated_k |-> b("rotated_k")],
         attention |-> [rotated_q |-> b("rotated_q"),
                        rotated_k |-> b("rotated_k"), rotated_v |-> b("v"),
                        k_cache |-> CacheView(c, "key", layer),
                        v_cache |-> CacheView(c, "value", layer),
                        input |-> b(LayerInput(layer)), wo |-> w(5),
                        merged |-> b("attention_merged"),
                        projected |-> b("attention_output"),
                        output |-> b("residual_after_attention")],
         mlp |-> [x2 |-> b("residual_after_attention"), scale |-> w(1),
                  wgate |-> w(6), wup |-> w(7), wdown |-> w(8),
                  n2 |-> b("mlp_norm"), gate |-> b("gate"), up |-> b("up"),
                  silu |-> b("silu"), product |-> b("product"),
                  down |-> b("down"), next_x |-> b(LayerOutput(layer))]]

(***************************************************************************)
(* What the stages check of those views.                                   *)
(***************************************************************************)
HasShapes(views, expected) ==
    \A role \in DOMAIN expected : views[role].shape = expected[role]

QkvShapes(R, F, Hq, Hkv, D) ==
    [activation |-> <<R, F>>, scale |-> <<1, F>>, wq |-> <<F, F>>,
     wk |-> <<Hkv * D, F>>, wv |-> <<Hkv * D, F>>, normalized |-> <<R, F>>,
     q |-> <<Hq, R, D>>, k |-> <<Hkv, R, D>>, v |-> <<Hkv, R, D>>,
     rotated_q |-> <<Hq, R, D>>, rotated_k |-> <<Hkv, R, D>>]

AttentionShapes(R, F, Hq, Hkv, D, C) ==
    [rotated_q |-> <<Hq, R, D>>, rotated_k |-> <<Hkv, R, D>>,
     rotated_v |-> <<Hkv, R, D>>, k_cache |-> <<Hkv, C, D>>,
     v_cache |-> <<Hkv, C, D>>, input |-> <<R, F>>, wo |-> <<F, F>>,
     merged |-> <<R, F>>, projected |-> <<R, F>>, output |-> <<R, F>>]

MlpShapes(R, F, M) ==
    [x2 |-> <<R, F>>, scale |-> <<1, F>>, wgate |-> <<M, F>>,
     wup |-> <<M, F>>, wdown |-> <<F, M>>, n2 |-> <<R, F>>, gate |-> <<R, M>>,
     up |-> <<R, M>>, silu |-> <<R, M>>, product |-> <<R, M>>,
     down |-> <<R, F>>, next_x |-> <<R, F>>]

(* Head geometry is read from the views, not from the configuration. *)
prepare_qkv_rope_stage(v, R) ==
    /\ R # 0 /\ Len(v.activation.shape) = 2 /\ Len(v.q.shape) = 3
    /\ Len(v.k.shape) = 3
    /\ LET Hq == v.q.shape[1] Hkv == v.k.shape[1] D == v.q.shape[3]
           F == v.activation.shape[2]
       IN  /\ Hq # 0 /\ Hkv # 0 /\ D # 0 /\ D % 2 = 0
           /\ F = Hq * D /\ Hq % Hkv = 0
           /\ HasShapes(v, QkvShapes(R, F, Hq, Hkv, D))

(* No written view shares its owner with any other view of the stage. *)
require_distinct_stores(v, stores) ==
    \A s \in stores : \A r \in DOMAIN v \ {s} : v[r].owner # v[s].owner

validate_stage(v, a, R, C, initialized) ==
    /\ R # 0 /\ C # 0 /\ a <= C /\ a + R <= C /\ initialized = a
    /\ Len(v.rotated_q.shape) = 3 /\ Len(v.rotated_k.shape) = 3
    /\ LET Hq == v.rotated_q.shape[1] D == v.rotated_q.shape[3]
           Hkv == v.rotated_k.shape[1]
       IN  /\ Hq * D # 0 /\ Hkv # 0 /\ Hq % Hkv = 0
           /\ HasShapes(v, AttentionShapes(R, Hq * D, Hq, Hkv, D, C))
    /\ require_distinct_stores(
           v, {"k_cache", "v_cache", "merged", "projected", "output"})

mlp_validate_views(v, R, F, M) ==
    R # 0 /\ F # 0 /\ M # 0 /\ HasShapes(v, MlpShapes(R, F, M))

(***************************************************************************)
(* The layer's stores are pairwise different and none is another operand,  *)
(* except where a stage hands its result to the next: rotated Q and K, V   *)
(* and the first residual.                                                 *)
(***************************************************************************)
Handed == {<<<<"qkv", "rotated_q">>, <<"attention", "rotated_q">>>>,
           <<<<"qkv", "rotated_k">>, <<"attention", "rotated_k">>>>,
           <<<<"qkv", "v">>, <<"attention", "rotated_v">>>>,
           <<<<"attention", "output">>, <<"mlp", "x2">>>>}

decoder_require_distinct_stores(v) ==
    LET roles == UNION {{<<s, r>> : r \in DOMAIN v[s]} : s \in DOMAIN v}
        stores == ({"qkv"} \X {"normalized", "q", "k", "v", "rotated_q",
                               "rotated_k"})
                  \cup ({"attention"} \X {"k_cache", "v_cache", "merged",
                                          "projected", "output"})
                  \cup ({"mlp"} \X {"n2", "gate", "up", "silu", "product",
                                    "down", "next_x"})
    IN  \A s \in stores, o \in roles :
            s # o /\ <<s, o>> \notin Handed
                => v[s[1]][s[2]].owner # v[o[1]][o[2]].owner

decoder_validate(v, c, a, R, initialized) ==
    /\ R # 0 /\ a <= c.C /\ a + R <= c.C /\ initialized = a
    /\ Len(v.qkv.q.shape) = 3 /\ Len(v.qkv.k.shape) = 3
    /\ LET Hq == v.qkv.q.shape[1] D == v.qkv.q.shape[3]
           Hkv == v.qkv.k.shape[1]
       IN  /\ Hq # 0 /\ Hkv # 0 /\ D # 0 /\ D % 2 = 0 /\ Hq % Hkv = 0
           /\ Hq * D = c.F
           /\ HasShapes(v.qkv, QkvShapes(R, c.F, Hq, Hkv, D))
           /\ HasShapes(v.attention, AttentionShapes(R, c.F, Hq, Hkv, D, c.C))
           /\ HasShapes(v.mlp, MlpShapes(R, c.F, c.M))
    /\ v.qkv.activation.owner = v.attention.input.owner
    /\ \A h \in Handed : v[h[1][1]][h[1][2]].owner = v[h[2][1]][h[2][2]].owner
    /\ decoder_require_distinct_stores(v)

(***************************************************************************)
(* Workspace: need[bank][op] is what the backend reports for the operation *)
(* on the tensors of that bank.                                            *)
(***************************************************************************)
RequirementValid(r) ==
    IF r.bytes = 0 THEN r.alignment = 1
    ELSE r.alignment >= Base /\ PowerOfTwo(r.alignment)

(* The largest requirement of the operations of a slice in both banks. *)
Widest(need, ops) ==
    LET all == {need[bank][op] : bank \in DOMAIN need, op \in ops}
        some == {r \in all : r.bytes # 0}
    IN  IF some = {} THEN NoBytes
        ELSE [bytes |-> Max({r.bytes : r \in some}),
              alignment |-> Max({r.alignment : r \in some})]

align_up(n, alignment) == ((n + alignment - 1) \div alignment) * alignment

SequentialOps == {"copy_from_host", "embedding", "rmsnorm", "rope",
                  "cache_append", "silu", "down", "residual", "lm_head"}
AttentionOps == {"sdpa", "projection", "first_residual"}
MlpOps == {"gate", "up", "mul", "down", "residual"}
Operations == {"q", "k", "v"} \cup SequentialOps \cup AttentionOps \cup MlpOps

(* Mutant: the up projection shares the reused range. *)
MutSharedUp(need) == 0

(* gate, mul, down and residual share the range at 0, up has its own. *)
mlp_up_offset(need) ==
    align_up(Max({Widest(need, {op}).bytes : op \in MlpOps \ {"up"}}), Base)

mlp_total(need) ==
    LET bytes == mlp_up_offset(need)
                 + align_up(Widest(need, {"up"}).bytes, Base)
    IN  IF bytes = 0 THEN NoBytes
        ELSE [bytes |-> bytes,
              alignment |-> Max({Base} \cup {Widest(need, {op}).alignment :
                                                op \in MlpOps})]

(* A slice takes the next aligned bytes; an empty one stays at 0. *)
reserve_slice(cursor, r) ==
    LET offset == align_up(cursor, Max({Base, r.alignment}))
    IN  IF r.bytes = 0 THEN [cursor |-> cursor, offset |-> 0]
        ELSE [cursor |-> offset + r.bytes, offset |-> offset]

SliceNeeds(need) ==
    [q |-> Widest(need, {"q"}), k |-> Widest(need, {"k"}),
     v |-> Widest(need, {"v"}), attention |-> Widest(need, AttentionOps),
     mlp |-> mlp_total(need), sequential |-> Widest(need, SequentialOps)]

(* Where the slices, reserved one after the other, begin and the last ends. *)
WorkspaceLayout(need) ==
    LET r == SliceNeeds(need)
        q == reserve_slice(0, r.q)
        k == reserve_slice(q.cursor, r.k)
        v == reserve_slice(k.cursor, r.v)
        attention == reserve_slice(v.cursor, r.attention)
        mlp == reserve_slice(attention.cursor, r.mlp)
        sequential == reserve_slice(mlp.cursor, r.sequential)
    IN  [q |-> q.offset, k |-> k.offset, v |-> v.offset,
         attention |-> attention.offset, mlp |-> mlp.offset,
         sequential |-> sequential.offset, end |-> sequential.cursor]

WorkspaceTotal(need) ==
    LET bytes == WorkspaceLayout(need).end
        slices == SliceNeeds(need)
    IN  IF bytes = 0 THEN NoBytes
        ELSE [bytes |-> bytes,
              alignment |-> Max({Base} \cup {slices[s].alignment :
                                                s \in DOMAIN slices})]

SliceOf(op) ==
    CASE op \in {"q", "k", "v"} -> op
      [] op \in AttentionOps -> "attention"
      [] op \in MlpOps -> "mlp"
      [] OTHER -> "sequential"

(***************************************************************************)
(* The bytes an operation of the bank leases: none when it needs none,     *)
(* else the whole view it is handed, its slice or its range of the MLP     *)
(* slice.                                                                  *)
(***************************************************************************)
WorkspaceRange(need, bank, op) ==
    LET slice == SliceOf(op)
        first == WorkspaceLayout(need)[slice]
                 + IF op = "up" THEN mlp_up_offset(need) ELSE 0
        bytes == IF op \in MlpOps THEN Widest(need, {op}).bytes
                 ELSE SliceNeeds(need)[slice].bytes
    IN  IF need[bank][op].bytes = 0 THEN <<0, 0>>
        ELSE <<first, first + bytes>>

Disjoint(r, s) == r[1] = r[2] \/ s[1] = s[2] \/ r[2] <= s[1] \/ s[2] <= r[1]
================================================================================
