------------------------- MODULE OperationAdmission -------------------------
(***************************************************************************)
(* What DeviceOps decides about a request before anything is registered,   *)
(* leased or queued: every operation validates its operands in a fixed     *)
(* order and reports the first failure as a negative OID.  A request is a  *)
(* record with the operand views of the operation and its scalar           *)
(* arguments; a workspace is [base, bytes], [bytes |-> 0] being the empty  *)
(* one.  The verdict is "ok" or the name of the OID error.                 *)
(***************************************************************************)
EXTENDS TensorViews

CONSTANTS
    BinaryLeaves,     \* the numeric leaves ADD, MUL and SUB compute
    IndexLeaves,      \* the integer leaves that may hold embedding indices
    FloatLeaves,      \* the floating leaves of DIV, RMSNORM, ROPE and SILU
    SdpaLeaves,       \* the leaves attention accepts today: BF16 alone
    LinearLeaves,
    RopeMaxPosition   \* the last position binary32 represents exactly

SameLeaf(vs) == \A v, w \in vs : Leaf(v) = Leaf(w)

(* The shared prefix: every spec is structurally valid, then the           *)
(* operation's own shape rule, then every view in operand order.           *)
Invalid(wrong) == IF wrong THEN "InvalidArgument" ELSE "ok"
Unsupported(wrong) == IF wrong THEN "Unsupported" ELSE "ok"
SpecsValid(views) == Invalid(\E i \in DOMAIN views : ~validate_checked_spec(views[i]))
ViewsValid(views) == FirstFailure([i \in DOMAIN views |-> validate_checked_view(views[i])])

(* Run the checks in order; a check is evaluated only when the ones before *)
(* it passed.                                                              *)
Then(first, second) == IF first = "ok" THEN second ELSE first

-----------------------------------------------------------------------------
(* Output storage must not be storage an input reads.                      *)
reject_output_overlap(out, input) ==
    Then(Invalid(out.owner = input.owner \/ Owners[out.owner].base = Owners[input.owner].base),
         checked_backing_range_relation(out.owner, input.owner))

Disjointness(out, inputs) ==
    FirstFailure([i \in DOMAIN inputs |-> reject_output_overlap(out, inputs[i])])

-----------------------------------------------------------------------------
(* copy: no alias rule at all.                                             *)
validate_copy(q) ==
    Invalid(\/ Owners[q.x.owner].device # Device \/ Owners[q.out.owner].device # Device
            \/ q.x.dims # q.out.dims \/ Leaf(q.x) # Leaf(q.out))

(* Host transfers compare the caller's byte count with the packed size.    *)
validate_copy_from_host(q) == Invalid(q.bytes # logical_nbytes(q.out.dims, Leaf(q.out)))
validate_copy_to_host(q) == Invalid(q.bytes # logical_nbytes(q.x.dims, Leaf(q.x)))

identical_window(x, out) ==
    Owners[x.owner].base = Owners[out.owner].base /\ x.offset = out.offset /\ x.strides = out.strides

-----------------------------------------------------------------------------
(* Binary elementwise operations: right-aligned broadcasting.              *)
AxisFromRight(dims, i) == IF i > Len(dims) THEN 1 ELSE dims[Len(dims) - i + 1]

BroadcastRank(x, y) == Max({Len(x), Len(y)})

Broadcastable(x, y) ==
    \A i \in 1..BroadcastRank(x, y) :
        LET a == AxisFromRight(x, i)  b == AxisFromRight(y, i) IN a = b \/ a = 1 \/ b = 1

BroadcastShape(x, y) ==
    LET rank == BroadcastRank(x, y)
    IN  [i \in 1..rank |-> Max({AxisFromRight(x, rank - i + 1), AxisFromRight(y, rank - i + 1)})]

(* snapshot_binary_view: a broadcast leading axis gets stride zero.        *)
logical_plane_strides(v, result) ==
    LET missing == Len(result) - Len(v.dims)
    IN  [i \in 1..(Len(result) - 2) |->
            IF i <= missing \/ (v.dims[i - missing] = 1 /\ result[i] # 1)
            THEN 0 ELSE v.strides[i - missing]]

broadcast_rows(v, result) == Rows(v.dims) = 1 /\ Rows(result) # 1
broadcast_columns(v, result) == Cols(v.dims) = 1 /\ Cols(result) # 1

(* Mutant: the same owner with the same strides, at any offset.            *)
MutAliasAnywhere(v, out) == v.owner = out.owner /\ v.dims = out.dims /\ v.strides = out.strides

exact_alias(v, out) ==
    /\ v.owner = out.owner /\ v.dims = out.dims
    /\ v.offset = out.offset /\ v.strides = out.strides

validate_binary(q) ==
    LET views == <<q.x, q.y, q.out>>
    IN  Then(SpecsValid(views),
        Then(Invalid(~SameLeaf({q.x, q.y, q.out})),
        Then(ViewsValid(views),
        Then(Invalid(~Broadcastable(q.x.dims, q.y.dims)),
        Then(Invalid(q.out.dims # BroadcastShape(q.x.dims, q.y.dims)),
        Then(Invalid(\E v \in {q.x, q.y} : v.owner = q.out.owner /\ ~exact_alias(v, q.out)),
             Unsupported(Leaf(q.x) \notin (IF q.div THEN FloatLeaves ELSE BinaryLeaves))))))))

-----------------------------------------------------------------------------
(* embedding(table, indices, out): table [V,F], indices [...,1,R],         *)
(* out [...,R,F].                                                          *)
validate_embedding(q) ==
    LET views == <<q.x, q.y, q.out>>
    IN  Then(SpecsValid(views),
        Then(Invalid(\/ Len(q.x.dims) # 2 \/ Rows(q.y.dims) # 1
                     \/ q.out.dims # Lead(q.y.dims) \o <<Cols(q.y.dims), Cols(q.x.dims)>>
                     \/ Leaf(q.x) # Leaf(q.out)),
        Then(ViewsValid(views),
        Then(Disjointness(q.out, <<q.x, q.y>>),
             Unsupported(Leaf(q.y) \notin IndexLeaves)))))

(* rmsnorm(x, scale, out): scale [1,F]; owners are compared, the backing   *)
(* ranges are not.                                                         *)
validate_rmsnorm(q) ==
    LET views == <<q.x, q.y, q.out>>
    IN  Then(SpecsValid(views),
        Then(Invalid(q.x.dims # q.out.dims \/ q.y.dims # <<1, Cols(q.x.dims)>>),
        Then(ViewsValid(views),
        Then(Invalid(~SameLeaf({q.x, q.y, q.out}) \/ q.out.owner \in {q.x.owner, q.y.owner}),
             Unsupported(Leaf(q.x) \notin FloatLeaves)))))

validate_silu(q) ==
    Then(SpecsValid(<<q.x, q.out>>),
    Then(Invalid(q.x.dims # q.out.dims \/ ~SameLeaf({q.x, q.out})),
    Then(ViewsValid(<<q.x, q.out>>),
    Then(Disjointness(q.out, <<q.x>>),
         Unsupported(Leaf(q.x) \notin FloatLeaves)))))

(* rope(x, out, a): rank three or more, even width, a..a+R-1 representable.*)
validate_rope(q) ==
    LET last == checked_add(q.a, Rows(q.x.dims) - 1)
    IN  Then(SpecsValid(<<q.x, q.out>>),
        Then(Invalid(Len(q.x.dims) < 3 \/ q.x.dims # q.out.dims \/ Cols(q.x.dims) % 2 # 0),
        Then(ViewsValid(<<q.x, q.out>>),
        Then(IF last < 0 THEN "Overflow" ELSE Invalid(last > RopeMaxPosition),
        Then(Disjointness(q.out, <<q.x>>),
        Then(Invalid(~SameLeaf({q.x, q.out})),
             Unsupported(Leaf(q.x) \notin FloatLeaves)))))))

-----------------------------------------------------------------------------
(* cache_append(source, destination, a): the window [a, a+R) of the        *)
(* destination rows; a <= C is checked before C - a is formed.             *)
Heads(dims) == dims[Len(dims) - 2]

CacheWindow(q) ==
    LET capacity == Rows(q.out.dims) IN q.a <= capacity /\ Rows(q.x.dims) <= capacity - q.a

(* The last row of the window lies in the owner's storage.                 *)
validate_view_arithmetic(v, row) ==
    LET o    == Owners[v.owner]
        slot == standard_plane_slot(v.dims, max_plane(v), row, Cols(v.dims) - 1)
    IN  Invalid(bits_to_bytes((slot + 1) * LeafBits[o.leaf]) > tiled_storage_nbytes(o.dims, o.leaf))

validate_cache_append(q) ==
    LET rows == Rows(q.x.dims)
    IN  Then(SpecsValid(<<q.x, q.out>>),
        Then(Invalid(Len(q.x.dims) < 3 \/ Len(q.out.dims) < 3),
        Then(ViewsValid(<<q.x, q.out>>),
        Then(Invalid(Lead(q.x.dims) # Lead(q.out.dims) \/ Cols(q.x.dims) # Cols(q.out.dims)),
        Then(Invalid(~CacheWindow(q)),
        Then(validate_view_arithmetic(q.x, rows - 1),
        Then(validate_view_arithmetic(q.out, q.a + rows - 1),
        Then(Invalid(~SameLeaf({q.x, q.out})),
             reject_output_overlap(q.out, q.x)))))))))

-----------------------------------------------------------------------------
(* linear(x, w, out, s, R, layout, H, D).                                  *)
LinearHeads(q) ==
    IF q.planar /\ checked_mul(q.h, q.d) < 0 THEN "Overflow" ELSE "ok"

LinearShape(q) ==
    IF q.planar
    THEN q.h * q.d = q.y.dims[1] /\ q.out.dims = Lead(q.x.dims) \o <<q.h, q.rows, q.d>>
    ELSE q.h = 1 /\ q.d = q.y.dims[1] /\ q.out.dims = Lead(q.x.dims) \o <<q.rows, q.y.dims[1]>>

validate_linear(q) ==
    LET views == <<q.x, q.y, q.out>>
    IN  Then(SpecsValid(views),
        Then(Invalid(Len(q.y.dims) # 2 \/ Cols(q.y.dims) # Cols(q.x.dims) \/ q.h = 0 \/ q.d = 0),
        Then(LinearHeads(q),
        Then(Invalid(~LinearShape(q)),
        Then(Invalid(q.rows = 0 \/ q.s > Rows(q.x.dims) \/ q.rows > Rows(q.x.dims) - q.s),
        Then(ViewsValid(views),
        Then(Disjointness(q.out, <<q.x, q.y>>),
             Unsupported(~SameLeaf({q.x, q.y, q.out}) \/ Leaf(q.x) \notin LinearLeaves))))))))

-----------------------------------------------------------------------------
(* sdpa(q, k, v, out, a, L): grouped heads, causal window.                 *)
SdpaShapes(q) ==
    LET rank == Len(q.x.dims)
    IN  /\ rank >= 3 /\ Len(q.y.dims) = rank /\ Len(q.out.dims) + 1 = rank /\ q.y.dims = q.z.dims
        /\ SubSeq(q.x.dims, 1, rank - 3) = SubSeq(q.y.dims, 1, rank - 3)
        /\ SubSeq(q.x.dims, 1, rank - 3) = Lead(q.out.dims)
        /\ Heads(q.x.dims) % Heads(q.y.dims) = 0
        /\ Rows(q.out.dims) = Rows(q.x.dims)
        /\ Cols(q.out.dims) = Heads(q.x.dims) * Cols(q.x.dims)

SdpaWindow(q) ==
    LET capacity == Rows(q.y.dims)
    IN  q.l \in 1..capacity /\ q.a < capacity /\ Rows(q.x.dims) <= capacity - q.a

validate_sdpa(q) ==
    LET views == <<q.x, q.y, q.z, q.out>>
    IN  Then(SpecsValid(views),
        Then(Invalid(~SdpaShapes(q)),
        Then(Invalid(~SdpaWindow(q)),
        Then(ViewsValid(views),
        Then(Invalid(~SameLeaf({q.x, q.y, q.z, q.out})),
        Then(Disjointness(q.out, <<q.x, q.y, q.z>>),
             Unsupported(Leaf(q.x) \notin SdpaLeaves)))))))

-----------------------------------------------------------------------------
(* RMSNORM and ROPE take no workspace, and refuse one that is offered.     *)
NoWorkspaceOffered(q, ws) == Invalid(q.op \in {"rmsnorm", "rope"} /\ ws.bytes # 0)

(* A positive workspace requirement: live, large enough, aligned, and      *)
(* apart from every operand.  A zero requirement looks at nothing.         *)
validated(ws, bytes, alignment, operands) ==
    IF bytes = 0 THEN "ok"
    ELSE IF ws.bytes < bytes \/ ws.base % alignment # 0 THEN "InvalidArgument"
    ELSE IF checked_add(ws.base, ws.bytes) < 0 THEN "Overflow"
    ELSE Invalid(\E v \in operands :
            LET o == Owners[v.owner]
            IN  ws.base < o.base + tiled_storage_nbytes(o.dims, o.leaf) /\ o.base < ws.base + ws.bytes)
=============================================================================
