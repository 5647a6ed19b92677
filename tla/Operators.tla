----------------------------- MODULE Operators -----------------------------
(***************************************************************************)
(* The life of one tensor operation up to its data: a caller derives views *)
(* of live tensors, submits an operation on them to a queue of one of the  *)
(* four backends, admission accepts or refuses it, and the backend runs    *)
(* the threads TiledKernels describes.  The contract of every operation is *)
(* stated independently, in logical coordinates of the views.              *)
(***************************************************************************)
EXTENDS TiledKernels, TLC

CONSTANTS
    Starts,      \* [op, views: role -> owner]: what a caller starts from
    SliceArgs,    \* <<axis, first, count, step>> tried on every view
    ReshapeArgs,  \* leading extents tried by reshape_leading
    Scalars,      \* op -> records of scalar arguments
    Workspaces,   \* [base, bytes] the caller may hand over
    MaxDerive     \* bound: transformations before the submission

VARIABLES
    op,       \* the operation the caller prepares
    views,    \* role -> view
    derived,  \* transformations so far
    request,  \* the submitted request
    backend,  \* the queue it was submitted to
    verdict   \* "none" before the submission, then the outcome of admission

vars == <<op, views, derived, request, backend, verdict>>

Backends == {"cpu", "cuda", "rocm", "sycl"}
NoRequest == [op |-> "none"]

Init ==
    \E c \in Starts :
        /\ op = c.op
        /\ views = [role \in DOMAIN c.views |-> FullView(c.views[role])]
        /\ derived = 0
        /\ request = NoRequest /\ backend = "none" /\ verdict = "none"

-----------------------------------------------------------------------------
(* View transformations; one that throws leaves the caller's view.         *)
Transforms(v) ==
    {slice(v, s[1], s[2], s[3], s[4]) : s \in {t \in SliceArgs : t[1] \in DOMAIN v.strides}}
      \cup {select(v, 1, i) : i \in IF v.strides = << >> THEN {} ELSE {0, 1}}
      \cup {permute(v, Reverse([i \in DOMAIN v.strides |-> i]))}
      \cup {reshape_leading(v, lead) : lead \in ReshapeArgs}

Derive(role) ==
    /\ verdict = "none" /\ derived < MaxDerive
    /\ \E v \in Transforms(views[role]) :
          /\ v # Rejected /\ v # views[role]
          /\ views' = [views EXCEPT ![role] = v]
    /\ derived' = derived + 1
    /\ UNCHANGED <<op, request, backend, verdict>>

-----------------------------------------------------------------------------
(* Submission.                                                             *)
validate(q) ==
    CASE q.op = "copy"         -> validate_copy(q)
      [] q.op = "from_host"    -> validate_copy_from_host(q)
      [] q.op = "to_host"      -> validate_copy_to_host(q)
      [] q.op = "binary"       -> validate_binary(q)
      [] q.op = "embedding"    -> validate_embedding(q)
      [] q.op = "rmsnorm"      -> validate_rmsnorm(q)
      [] q.op = "silu"         -> validate_silu(q)
      [] q.op = "rope"         -> validate_rope(q)
      [] q.op = "cache_append" -> validate_cache_append(q)
      [] q.op = "linear"       -> validate_linear(q)
      [] q.op = "sdpa"         -> validate_sdpa(q)

(* The native matrix paths serve one leaf, half a device word wide.        *)
NativeMatrix(q) == 2 * Bits(q.x) = WordBits

Segments(b, q) ==
    CASE q.op = "sdpa" ->
            (CASE b = "cpu" -> cpu_sdpa_workspace(q) [] b = "cuda" -> sdpa_scratch(q)
              [] b = "rocm" -> rocm_sdpa_layout(q)  [] b = "sycl" -> sdpa_matrix_scratch_layout(q))
      [] q.op = "linear" /\ b = "rocm" /\ NativeMatrix(q) -> linear_bf16_pack_layout(q)
      [] q.op = "linear" /\ b = "sycl" /\ NativeMatrix(q) -> bf16_linear_scratch(q)
      [] q.op = "binary" /\ b = "sycl" -> sycl_binary_staging(q)
      [] OTHER -> << >>

Operands(q) == {q[role] : role \in DOMAIN q \cap {"x", "y", "z", "out"}}

Admission(b, q, ws) ==
    Then(validate(q),
    Then(NoWorkspaceOffered(q, ws),
         validated(ws, ScratchBytes(Segments(b, q)), ScratchAlignment, Operands(q))))

Submit(b) ==
    /\ verdict = "none"
    /\ \E s \in Scalars[op], ws \in Workspaces :
          LET q == [op |-> op] @@ views @@ s
          IN  request' = q /\ verdict' = Admission(b, q, ws)
    /\ backend' = b
    /\ UNCHANGED <<op, views, derived>>

Next ==
    \/ \E role \in DOMAIN views : Derive(role)
    \/ \E b \in Backends : Submit(b)

Spec == Init /\ [][Next]_vars

-----------------------------------------------------------------------------
(* Execution of an admitted request.                                       *)
cpu_steps(q) ==
    CASE q.op = "copy" -> IF identical_window(q.x, q.out) THEN {} ELSE copy_elements(q)
      [] q.op = "from_host" -> cpu_copy_from_host(q)
      [] q.op = "to_host"   -> cpu_copy_to_host(q)
      [] q.op = "binary"    -> cpu_binary(q)
      [] q.op = "embedding" -> cpu_embedding(q)
      [] q.op = "rmsnorm"   -> rmsnorm_elements(q)
      [] q.op = "silu"      -> silu_elements(q)
      [] q.op = "rope"      -> rope_elements(q)
      [] q.op = "cache_append" -> cache_append_elements(q)
      [] q.op = "linear"    -> linear_planes(q)
      [] q.op = "sdpa"      -> cpu_sdpa_plane(q)

gpu_steps(b, q) ==
    CASE q.op = "copy" -> IF identical_window(q.x, q.out) THEN {} ELSE copy_tiled_to_tiled_word(q)
      [] q.op = "from_host" -> launch_scatter(q)
      [] q.op = "to_host"   -> launch_gather(q)
      [] q.op = "binary"    -> gpu_binary(q)
      [] q.op = "embedding" -> embedding_one_word(q)
      [] q.op = "rmsnorm"   -> rmsnorm_tiled_row(q)
      [] q.op = "silu"      -> IF b = "cuda" THEN cuda_silu_kernel(q) ELSE rocm_silu_tiled_packets(q)
      [] q.op = "rope"      -> rope_process_word(q)
      [] q.op = "cache_append" ->
            IF b = "cuda" THEN cuda_cache_append_copy_word(q) ELSE rocm_cache_append_kernel(q)
      [] q.op = "linear" ->
            IF ~NativeMatrix(q) THEN linear_tiled_body(q)
            ELSE IF b = "cuda" THEN cuda_linear_bf16(q) ELSE rocm_linear_bf16(q)
      [] q.op = "sdpa"      -> IF b = "cuda" THEN cuda_launch_sdpa_stages(q) ELSE rocm_launch_sdpa(q)

sycl_steps(q) ==
    CASE q.op = "copy" -> IF identical_window(q.x, q.out) THEN {} ELSE sycl_execute_copy(q)
      [] q.op = "from_host" -> launch_scatter(q)
      [] q.op = "to_host"   -> launch_gather(q)
      [] q.op = "binary"    -> sycl_execute_binary(q)
      [] q.op = "embedding" -> embedding_one_word(q)
      [] q.op = "rmsnorm"   -> sycl_rmsnorm_row(q)
      [] q.op = "silu"      -> sycl_silu_packet(q)
      [] q.op = "rope"      -> sycl_rope_row(q)
      [] q.op = "cache_append" -> sycl_cache_append_one_word(q)
      [] q.op = "linear" -> IF NativeMatrix(q) THEN sycl_linear_bf16(q) ELSE sycl_linear_row(q)
      [] q.op = "sdpa"      -> sycl_launch_sdpa_stages(q)

Steps(b, q) ==
    CASE b = "cpu" -> cpu_steps(q) [] b = "sycl" -> sycl_steps(q) [] OTHER -> gpu_steps(b, q)

-----------------------------------------------------------------------------
(* The contract, in logical coordinates: leading coordinates c, row r and  *)
(* column k of the output.                                                 *)
At(v, c, r, k) == Cell(v, PlaneOf(v, c), r, k)

(* The right-aligned coordinate of an operand that is broadcast.           *)
Broadcasted(v, c, r, k) ==
    LET lead == Lead(v.dims)
        from == Len(c) - Len(lead)
    IN  At(v, [i \in DOMAIN lead |-> IF lead[i] = 1 THEN 0 ELSE c[from + i]],
           IF Rows(v.dims) = 1 THEN 0 ELSE r, IF Cols(v.dims) = 1 THEN 0 ELSE k)

AttentionReads(q, c, r, k) ==
    LET D == Cols(q.x.dims)
        head == k \div D
        group == Heads(q.x.dims) \div Heads(q.y.dims)
        kv == Append(c, head \div group)
        seen == {t \in Below(q.l) : t <= q.a + r}
    IN  {At(q.x, Append(c, head), r, d) : d \in Below(D)}
          \cup {At(q.y, kv, t, d) : t \in seen, d \in Below(D)} \cup {At(q.z, kv, t, k % D) : t \in seen}

ContractReads(q, c, r, k) ==
    LET row(v, lead, n) == {At(v, lead, n, j) : j \in Below(Cols(v.dims))}
    IN  CASE q.op \in {"copy", "silu"} -> {At(q.x, c, r, k)}
          [] q.op = "binary"    -> {Broadcasted(q.x, c, r, k), Broadcasted(q.y, c, r, k)}
          [] q.op = "embedding" -> LET i == At(q.y, c, 0, r)
                                   IN  {i, At(q.x, << >>, q.ids[(i[2] % Len(q.ids)) + 1], k)}
          [] q.op = "rmsnorm"   -> row(q.x, c, r) \cup {At(q.y, << >>, 0, k)}
          [] q.op = "rope"      -> LET half == Cols(q.x.dims) \div 2
                                   IN  {At(q.x, c, r, k)} \cup
                                       (IF q.a + r = 0 THEN {} ELSE {At(q.x, c, r, (k + half) % (2 * half))})
          [] q.op = "cache_append" -> {At(q.x, c, r - q.a, k)}
          [] q.op = "linear"    -> IF q.planar
                                   THEN row(q.x, Front(c), q.s + r) \cup row(q.y, << >>, Last(c) * q.d + k)
                                   ELSE row(q.x, c, q.s + r) \cup row(q.y, << >>, k)
          [] q.op = "sdpa"      -> AttentionReads(q, c, r, k)

(* Row-major position of an element in a packed host buffer.               *)
HostPosition(dims, c, r, k) ==
    FoldLeft(LAMBDA n, i : n * dims[i] + (c \o <<r, k>>)[i], 0, [i \in DOMAIN dims |-> i])

Logical(v, rows) == Coordinates(Lead(v.dims)) \X rows \X Below(Cols(v.dims))

Contract(q) ==
    LET rows == IF q.op = "cache_append" THEN q.a..(q.a + Rows(q.x.dims) - 1) ELSE AllRows(q.out)
        host(v, e) == <<"host", HostPosition(v.dims, e[1], e[2], e[3])>>
    IN  CASE q.op = "to_host" -> {<<host(q.x, e), {At(q.x, e[1], e[2], e[3])}>> : e \in Logical(q.x, AllRows(q.x))}
          [] q.op = "from_host" -> {<<At(q.out, e[1], e[2], e[3]), {host(q.out, e)}>> : e \in Logical(q.out, rows)}
          [] OTHER -> {<<At(q.out, e[1], e[2], e[3]), ContractReads(q, e[1], e[2], e[3])>> : e \in Logical(q.out, rows)}

(* An index outside the vocabulary fails the operation; what a device has  *)
(* stored by then is unspecified.                                          *)
Fails(q) == q.op = "embedding" /\ ~AllInVocabulary(q)

(* A copy of a window onto itself runs no thread.                          *)
NothingToDo(q) == q.op = "copy" /\ identical_window(q.x, q.out)

Admitted == verdict = "ok"
Runs == Admitted /\ ~Fails(request)

-----------------------------------------------------------------------------
(* Where the code leaves its documented contract; each case is the subject *)
(* of a run of its own or of a note in the README.                         *)
OverlappingCopy(q) ==
    q.op = "copy" /\ q.x.owner = q.out.owner /\ CellsOf(q.x) \cap CellsOf(q.out) # {}

MisplacedBinary(b, q) ==
    /\ q.op = "binary" /\ b \in {"cuda", "rocm"}
    /\ q.out.owner \notin {q.x.owner, q.y.owner}
    /\ \E p \in Below(Planes(q.out.dims)) : PlaneIn(q.out, p) # p

MaskedValues(b, q) ==
    q.op = "sdpa" /\ b \in {"cuda", "rocm"} /\ \E r \in AllRows(q.x) : Visible(q, r) < q.l

Diverges(b, q) == OverlappingCopy(q) \/ MisplacedBinary(b, q)

(* An element is computed from what its contract names; on CUDA and ROCm   *)
(* also from masked values, each times the probability 0.                  *)
Agrees(b, q, found, due) ==
    /\ due \subseteq found
    /\ found \ due \subseteq IF MaskedValues(b, q) THEN CellsOf(q.z) ELSE {}

-----------------------------------------------------------------------------
(* Properties                                                              *)

(* slice, select, permute and reshape_leading only ever narrow what a view *)
(* reaches: a derived view reaches no plane its source did not reach, no   *)
(* plane twice, and passes the storage checks of admission, also when the  *)
(* source is strided, permuted or offset (tensor_view.cpp).                *)
DerivedViewsStayInside ==
    [][\A role \in DOMAIN views :
          LET planes(v) == {PlaneOf(v, c) : c \in Coordinates(Lead(v.dims))}
              v == views'[role]
          IN  /\ planes(v) \subseteq planes(views[role])
              /\ Cardinality(planes(v)) = Planes(v.dims)
              /\ Owners[v.owner].device = Device => validate_checked_view(v) = "ok"]_vars

StoresExactly(steps, q, outputs, segments) ==
    LET parts == UNION {t.parts : t \in steps}
        scratch(c) == \E i \in DOMAIN segments : segments[i].name = c[1] /\ c[2] < segments[i].elements
        stored(c) == {f.word : f \in {g \in parts : g.cell = c}}
        inside(c) == \/ c[1] \in DOMAIN Owners
                           /\ bits_to_bytes((c[2] + 1) * LeafBits[Owners[c[1]].leaf])
                                <= tiled_storage_nbytes(Owners[c[1]].dims, Owners[c[1]].leaf)
                     \/ c[1] = "host" \/ scratch(c)
    IN  /\ {f.cell : f \in {g \in parts : ~scratch(g.cell)}} = outputs
        /\ \A c \in outputs :
              stored(c) \in {Whole(c), WordsOf(c, Bits(IF q.op = "to_host" THEN q.x ELSE q.out))}
        /\ \A t \in steps : \A c \in t.loads : inside(c)

(* A kernel stores exactly the logical cells of its output, every word of  *)
(* each, leaves padding, other planes and rows outside a cache window      *)
(* alone, keeps scratch inside its segments and loads only storage that    *)
(* exists; only a copy of a window onto itself has nothing to run.         *)
OutputExact ==
    Runs /\ ~Diverges(backend, request) /\ ~NothingToDo(request) =>
        StoresExactly(Steps(backend, request), request,
                      {e[1] : e \in Contract(request)}, Segments(backend, request))

(* No two threads that nothing orders touch the same word when one of them *)
(* stores it: neighbouring fields of one word, words shared by two planes, *)
(* heads or columns, and outputs that alias an operand.                    *)
RaceFree == Runs /\ ~Diverges(backend, request) => ~Races(Steps(backend, request))

MatchesContract(b, q, flow) ==
    \A e \in Contract(q) : e[1] \in DOMAIN flow /\ Agrees(b, q, flow[e[1]], e[2])

Computes(b, q, steps) ==
    IF Fails(q) THEN (b = "cpu" /\ steps = {}) \/ embedding_status(steps, q)
    ELSE MatchesContract(b, q, Flow(steps))

(* Every backend computes every output element from the input elements the *)
(* contract names, through all its packing, padding and scratch stages,    *)
(* also in place; and an index outside the vocabulary is noticed.          *)
ComputesContract ==
    Admitted /\ ~Diverges(backend, request) /\ ~NothingToDo(request) =>
        Computes(backend, request, Steps(backend, request))

(* "Transformed leading views preserve offsets and strides": the output of *)
(* a binary operation is stored in the planes of the output view           *)
(* (docs/BACKEND_CONTRACT/binary-elementwise-contract.md:21).             *)
BinaryKeepsOutputView ==
    Runs /\ request.op = "binary" =>
        MatchesContract(backend, request, Flow(Steps(backend, request)))

=============================================================================
