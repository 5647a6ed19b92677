---------------------------- MODULE TiledKernels ----------------------------
(***************************************************************************)
(* The data movement of every kernel of the CPU, CUDA, ROCm and SYCL       *)
(* backends: which threads run, in which launch, block and phase, which    *)
(* cells each one loads and which words it stores.  The arithmetic is left *)
(* out: an output element is described by the set of cells it is computed  *)
(* from.  A request q is the record OperationAdmission validates.          *)
(*                                                                         *)
(* A cell is <<owner, slot>>; fields narrower than a word share it and a   *)
(* field may cross two words, so a store of a field is one part per word.  *)
(* Work on a "host" buffer and on scratch segments uses the same cells.    *)
(***************************************************************************)
EXTENDS OperationAdmission

Below(n) == 0..(n - 1)
Bits(v) == LeafBits[Leaf(v)]

(* The words a field of a given width occupies.                            *)
WordsOf(cell, bits) ==
    {<<cell[1], w>> : w \in ((cell[2] * bits) \div WordBits)
                            ..(((cell[2] + 1) * bits - 1) \div WordBits)}

(* A cell stored by an access of its own size, which no neighbour shares.  *)
Whole(cell) == {<<cell[1], cell[2], "whole">>}

(* One thread: at = <<launch, block, phase, thread>>; fetch is the words   *)
(* behind the cells it loads.                                              *)
Thread(at, loads, fetch, parts) ==
    [at |-> at, loads |-> loads, fetch |-> fetch, parts |-> parts]

(* The words behind the cells of tensors; host buffers are read-only here. *)
Fetched(cells) ==
    UNION {WordsOf(c, LeafBits[Owners[c[1]].leaf]) : c \in {d \in cells : d[1] \in DOMAIN Owners}}

PartsOf(cell, words, reads) == {[cell |-> cell, word |-> w, reads |-> reads] : w \in words}

-----------------------------------------------------------------------------
(* Plane and slot decoding.                                                *)
Planes(dims) == checked_product(Lead(dims))

(* Coordinates of a logical plane number, last axis fastest.               *)
decode(p, lead) ==
    [i \in DOMAIN lead |-> (p \div checked_product(SubSeq(lead, i + 1, Len(lead)))) % lead[i]]

PlaneIn(v, p) == PlaneOf(v, decode(p, Lead(v.dims)))

ElementAt(v, p, r, k) == Cell(v, PlaneIn(v, p), r, k)

(* The inverse of standard_plane_slot inside one plane.                    *)
physical_coordinate(dims, slot) ==
    LET tile == slot \div (Tile * Tile)  inside == slot % (Tile * Tile)
    IN  [row    |-> (tile \div Tiles(Cols(dims))) * Tile + (inside \div Tile),
         column |-> (tile % Tiles(Cols(dims))) * Tile + (inside % Tile)]

words_per_plane(v) == (Tiles(Rows(v.dims)) * Tiles(Cols(v.dims)) * Tile * Tile * Bits(v)) \div WordBits

-----------------------------------------------------------------------------
(* Shapes of kernels.                                                      *)

(* Groups of `width` columns of the rows of every plane; each group is the *)
(* work of one thread, placed by At.  Width one is the CPU element loop,   *)
(* Tile the 16-column chunk, all columns the row kernels.                  *)
ColumnGroups(out, rows, width, At(_, _, _), Reads(_, _, _)) ==
    {LET columns == {k \in (g * width)..((g + 1) * width - 1) : k < Cols(out.dims)}
         reads   == UNION {Reads(p, r, k) : k \in columns}
         parts   == UNION {PartsOf(ElementAt(out, p, r, k), WordsOf(ElementAt(out, p, r, k), Bits(out)),
                                   Reads(p, r, k)) : k \in columns}
     IN  Thread(At(p, r, g), reads, Fetched(reads), parts)
       : p \in Below(Planes(out.dims)), r \in rows, g \in Below((Cols(out.dims) + width - 1) \div width)}

AllRows(v) == Below(Rows(v.dims))

ElementNumber(v, p, r, k) == (p * Rows(v.dims) + r) * Cols(v.dims) + k

(* The worker of the CPU queue: one element after the other.               *)
InOrder(out, rows, Reads(_, _, _)) ==
    ColumnGroups(out, rows, 1, LAMBDA p, r, k : <<ElementNumber(out, p, r, k), 0, 0, 0>>, Reads)

(* One launch, one thread per group of columns.                            *)
AtOnce(out, width, Reads(_, _, _)) ==
    ColumnGroups(out, AllRows(out), width, LAMBDA p, r, g : <<0, 0, 0, ElementNumber(out, p, r, g)>>, Reads)

(* One thread per `packet` physical words of every plane of the output.    *)
(* The thread merges the logical fields that intersect its words and       *)
(* leaves padding and the rows outside `rows` alone.  Target is the plane  *)
(* of the output storage that the words of logical plane p belong to.      *)
WordKernel(launch, out, rows, packet, Target(_), Reads(_, _, _)) ==
    {LET base   == Target(p) * words_per_plane(out)
         words  == (n * packet)..((n + 1) * packet - 1)
         slots  == ((n * packet * WordBits) \div Bits(out))
                     ..(((n + 1) * packet * WordBits - 1) \div Bits(out))
         fields == {f \in {physical_coordinate(out.dims, s) : s \in slots} :
                        f.row \in rows /\ f.column < Cols(out.dims)}
         reads  == UNION {Reads(p, f.row, f.column) : f \in fields}
         cell(f) == Cell(out, Target(p), f.row, f.column)
     IN  Thread(<<launch, 0, 0, <<p, n>> >>, reads, Fetched(reads),
                UNION {PartsOf(cell(f),
                               WordsOf(cell(f), Bits(out)) \cap {<<out.owner, base + w>> : w \in words},
                               Reads(p, f.row, f.column)) : f \in fields})
       : p \in Below(Planes(out.dims)), n \in Below(words_per_plane(out) \div packet)}

(* A stage of a multi-launch operation: every item is stored on its own.   *)
Stage(launch, items, CellOf(_), Reads(_), Unit(_)) ==
    {Thread(<<launch, 0, 0, i>>, Reads(i), UNION {Whole(c) : c \in Reads(i)},
            PartsOf(CellOf(i), Unit(CellOf(i)), Reads(i))) : i \in items}

-----------------------------------------------------------------------------
(* copy                                                                    *)
copy_elements(q) == InOrder(q.out, AllRows(q.out), LAMBDA p, r, k : {ElementAt(q.x, p, r, k)})

copy_tiled_to_tiled_word(q) ==
    WordKernel(0, q.out, AllRows(q.out), 1, LAMBDA p : PlaneIn(q.out, p),
               LAMBDA p, r, k : {ElementAt(q.x, p, r, k)})

(* The SYCL queue launches the shared word kernel over all planes.         *)
sycl_execute_copy(q) == copy_tiled_to_tiled_word(q)

-----------------------------------------------------------------------------
(* Host transfers: the host side is packed without padding.                *)
HostCell(v, p, r, k) == <<"host", ElementNumber(v, p, r, k)>>

HostCells(v) == {<<"host", n>> : n \in Below(element_count(v.dims))}

cpu_copy_from_host(q) == InOrder(q.out, AllRows(q.out), LAMBDA p, r, k : {HostCell(q.out, p, r, k)})

(* One launch per plane; the kernel reads the staging buffer.              *)
launch_scatter(q) ==
    {[t EXCEPT !.at = <<t.at[4][1], 0, 0, t.at[4][2]>>] :
        t \in WordKernel(0, q.out, AllRows(q.out), 1, LAMBDA p : PlaneIn(q.out, p),
                         LAMBDA p, r, k : {HostCell(q.out, p, r, k)})}

HostParts(v, p, r, k, words) ==
    PartsOf(HostCell(v, p, r, k), WordsOf(HostCell(v, p, r, k), Bits(v)) \cap words, {ElementAt(v, p, r, k)})

cpu_copy_to_host(q) ==
    {Thread(<<ElementNumber(q.x, p, r, k), 0, 0, 0>>, {ElementAt(q.x, p, r, k)}, {},
            HostParts(q.x, p, r, k, WordsOf(HostCell(q.x, p, r, k), Bits(q.x))))
       : p \in Below(Planes(q.x.dims)), r \in AllRows(q.x), k \in Below(Cols(q.x.dims))}

(* The words of the staging buffer that the logical run of plane p touches;*)
(* the first and the last may be shared with the neighbouring planes.      *)
launch_gather(q) ==
    LET elements == Rows(q.x.dims) * Cols(q.x.dims)
        words(p) == ((p * elements * Bits(q.x)) \div WordBits)
                      ..(((p + 1) * elements * Bits(q.x) - 1) \div WordBits)
        thread(p, w) ==
            LET fields == {f \in AllRows(q.x) \X Below(Cols(q.x.dims)) :
                               <<"host", w>> \in WordsOf(HostCell(q.x, p, f[1], f[2]), Bits(q.x))}
            IN  Thread(<<p, 0, 0, w>>, {ElementAt(q.x, p, f[1], f[2]) : f \in fields}, {},
                       UNION {HostParts(q.x, p, f[1], f[2], {<<"host", w>>}) : f \in fields})
    IN  UNION {{thread(p, w) : w \in words(p)} : p \in Below(Planes(q.x.dims))}

-----------------------------------------------------------------------------
(* Binary elementwise operations.                                          *)
Operand(v, q, p, r, k) ==
    Cell(v, PlaneAt(v.offset, logical_plane_strides(v, q.out.dims), decode(p, Lead(q.out.dims))),
         IF broadcast_rows(v, q.out.dims) THEN 0 ELSE r,
         IF broadcast_columns(v, q.out.dims) THEN 0 ELSE k)

BinaryReads(q, p, r, k) == {Operand(q.x, q, p, r, k), Operand(q.y, q, p, r, k)}

cpu_binary(q) == InOrder(q.out, AllRows(q.out), LAMBDA p, r, k : BinaryReads(q, p, r, k))

(* The grid-stride kernel decodes the output plane and then addresses the  *)
(* output by the logical word number alone.                                *)
binary_body(q) ==
    WordKernel(0, q.out, AllRows(q.out), 1, LAMBDA p : p, LAMBDA p, r, k : BinaryReads(q, p, r, k))

(* The phase after the barrier in which the tile's words are stored.       *)
SnapshotPhase == 0
StorePhase == 1

(* Mutant: no barrier between the snapshot and the stores.                 *)
MutNoBarrier(q) ==
    LET steps == WordKernel(0, q.out, AllRows(q.out), 1, LAMBDA p : PlaneIn(q.out, p),
                            LAMBDA p, r, k : BinaryReads(q, p, r, k))
    IN  {[t EXCEPT !.at = <<0, 0, SnapshotPhase, t.at[4]>>] : t \in steps}

(* Exact alias: a block per tile; its threads snapshot the operand fields  *)
(* of the tile, then, after a barrier, store the tile's words.             *)
alias_safe_binary_kernel(q) ==
    LET tileWords == (Tile * Tile * Bits(q.out)) \div WordBits
        block(n)  == <<n[1], n[2] \div tileWords>>
        steps     == WordKernel(0, q.out, AllRows(q.out), 1, LAMBDA p : PlaneIn(q.out, p),
                                LAMBDA p, r, k : BinaryReads(q, p, r, k))
    IN  {Thread(<<0, block(t.at[4]), SnapshotPhase, t.at[4]>>, t.loads, t.fetch, {}) : t \in steps}
          \cup {Thread(<<0, block(t.at[4]), StorePhase, t.at[4]>>, {}, {}, t.parts) : t \in steps}

gpu_binary(q) ==
    IF q.out.owner \in {q.x.owner, q.y.owner} THEN alias_safe_binary_kernel(q) ELSE binary_body(q)

(* SYCL stages whole extents: the operands and the output are copied to    *)
(* the host, combined there, and the output extent is copied back byte by  *)
(* byte.  Bytes that hold no element go back as they came.                 *)
sycl_execute_binary(q) ==
    {Thread(<<0, 0, 0, <<0, 0>> >>, CellsOf(q.x) \cup CellsOf(q.y),
            Fetched(CellsOf(q.x) \cup CellsOf(q.y)), {})}
      \cup {Thread(<<1, 0, 0, t.at[4]>>, {}, {}, t.parts) :
              t \in WordKernel(1, q.out, AllRows(q.out), 1, LAMBDA p : PlaneIn(q.out, p),
                               LAMBDA p, r, k : BinaryReads(q, p, r, k))}

(* The three staging regions of that path: everything up to the last plane *)
(* the view reaches.                                                       *)
binary_view_staging_bytes(v) ==
    checked_mul(checked_add(max_plane(v), 1), (words_per_plane(v) * WordBits) \div 8)

-----------------------------------------------------------------------------
(* embedding: the values of the index cells are q.ids, by slot.            *)
IndexCell(q, p, r) == ElementAt(q.y, p, 0, r)
IndexValue(q, p, r) == q.ids[(IndexCell(q, p, r)[2] % Len(q.ids)) + 1]
InVocabulary(q, p, r) == IndexValue(q, p, r) \in Below(Rows(q.x.dims))

EmbeddingReads(q, p, r, k) ==
    {IndexCell(q, p, r)} \cup
        (IF InVocabulary(q, p, r) THEN {Cell(q.x, q.x.offset, IndexValue(q, p, r), k)} ELSE {})

AllInVocabulary(q) == \A p \in Below(Planes(q.out.dims)), r \in AllRows(q.out) : InVocabulary(q, p, r)

(* The CPU checks every index before it gathers the first row.             *)
cpu_embedding(q) ==
    IF AllInVocabulary(q)
    THEN InOrder(q.out, AllRows(q.out), LAMBDA p, r, k : EmbeddingReads(q, p, r, k)) ELSE {}

(* A device thread raises the status word and skips the field.             *)
embedding_one_word(q) ==
    {[t EXCEPT !.parts = {f \in @ : Cardinality(f.reads) = 2}] :
        t \in WordKernel(0, q.out, AllRows(q.out), 1, LAMBDA p : PlaneIn(q.out, p),
                         LAMBDA p, r, k : EmbeddingReads(q, p, r, k))}

embedding_status(steps, q) ==
    \E t \in steps : \E p \in Below(Planes(q.out.dims)), r \in AllRows(q.out) :
        IndexCell(q, p, r) \in t.loads /\ ~InVocabulary(q, p, r)

-----------------------------------------------------------------------------
(* rmsnorm                                                                 *)
RmsnormReads(q, p, r, k) ==
    {ElementAt(q.x, p, r, j) : j \in Below(Cols(q.x.dims))} \cup {Cell(q.y, q.y.offset, 0, k)}

rmsnorm_elements(q) == InOrder(q.out, AllRows(q.out), LAMBDA p, r, k : RmsnormReads(q, p, r, k))

(* A block per row: the threads sum the squares of their chunks, reduce    *)
(* behind barriers, then store their chunks.                               *)
rmsnorm_tiled_row(q) ==
    LET chunks == ColumnGroups(q.out, AllRows(q.out), Tile, LAMBDA p, r, g : <<0, <<p, r>>, StorePhase, g>>,
                               LAMBDA p, r, k : RmsnormReads(q, p, r, k))
    IN  {Thread(<<t.at[1], t.at[2], SnapshotPhase, t.at[4]>>, t.loads, t.fetch, {}) : t \in chunks} \cup chunks

sycl_rmsnorm_row(q) == AtOnce(q.out, Cols(q.out.dims), LAMBDA p, r, k : RmsnormReads(q, p, r, k))

-----------------------------------------------------------------------------
(* silu                                                                    *)
silu_elements(q) == InOrder(q.out, AllRows(q.out), LAMBDA p, r, k : {ElementAt(q.x, p, r, k)})

cuda_silu_kernel(q) == AtOnce(q.out, Tile, LAMBDA p, r, k : {ElementAt(q.x, p, r, k)})

rocm_silu_tiled_packets(q) == AtOnce(q.out, Tile, LAMBDA p, r, k : {ElementAt(q.x, p, r, k)})

(* A field of six bits crosses words, so its packet is three words.        *)
silu_packet_words(v) == IF WordBits % Bits(v) = 0 \/ Bits(v) % WordBits = 0 THEN 1 ELSE 3

sycl_silu_packet(q) ==
    WordKernel(0, q.out, AllRows(q.out), silu_packet_words(q.out), LAMBDA p : PlaneIn(q.out, p),
               LAMBDA p, r, k : {ElementAt(q.x, p, r, k)})

-----------------------------------------------------------------------------
(* rope: position zero keeps its payload, every other position combines    *)
(* the two halves of the row.                                              *)
RopeReads(q, p, r, k) ==
    LET half == Cols(q.x.dims) \div 2
    IN  IF q.a + r = 0 THEN {ElementAt(q.x, p, r, k)}
        ELSE {ElementAt(q.x, p, r, k), ElementAt(q.x, p, r, (k + half) % (2 * half))}

rope_elements(q) == InOrder(q.out, AllRows(q.out), LAMBDA p, r, k : RopeReads(q, p, r, k))

rope_process_word(q) ==
    WordKernel(0, q.out, AllRows(q.out), 1, LAMBDA p : PlaneIn(q.out, p),
               LAMBDA p, r, k : RopeReads(q, p, r, k))

sycl_rope_row(q) == AtOnce(q.out, Cols(q.out.dims), LAMBDA p, r, k : RopeReads(q, p, r, k))

-----------------------------------------------------------------------------
(* cache_append: rows a .. a + R - 1 of the destination.                   *)
CacheRows(q) == q.a..(q.a + Rows(q.x.dims) - 1)
CacheReads(q, p, r, k) == {ElementAt(q.x, p, r - q.a, k)}

cache_append_elements(q) == InOrder(q.out, CacheRows(q), LAMBDA p, r, k : CacheReads(q, p, r, k))

(* Mutant: the word kernel also rewrites the row below the window.         *)
MutWindowBelow(q) ==
    WordKernel(0, q.out, CacheRows(q) \cup {q.a - 1}, 1, LAMBDA p : PlaneIn(q.out, p),
               LAMBDA p, r, k : {ElementAt(q.x, p, 0, k)})

cuda_cache_append_copy_word(q) ==
    WordKernel(0, q.out, CacheRows(q), 1, LAMBDA p : PlaneIn(q.out, p),
               LAMBDA p, r, k : CacheReads(q, p, r, k))

rocm_cache_append_kernel(q) ==
    WordKernel(0, q.out, CacheRows(q), 1, LAMBDA p : PlaneIn(q.out, p),
               LAMBDA p, r, k : CacheReads(q, p, r, k))

sycl_cache_append_one_word(q) ==
    WordKernel(0, q.out, CacheRows(q), 1, LAMBDA p : PlaneIn(q.out, p),
               LAMBDA p, r, k : CacheReads(q, p, r, k))

-----------------------------------------------------------------------------
(* linear.  The inserted head axis of the head-planar layout is the last   *)
(* leading axis of the output and selects a group of weight rows.          *)
Groups(q) == IF q.planar THEN q.h ELSE 1
SourcePlane(q, p) == p \div Groups(q)
WeightRow(q, p, k) == (p % Groups(q)) * q.d + k

XRow(q, p, r) == {ElementAt(q.x, p, q.s + r, i) : i \in Below(Cols(q.x.dims))}
WRow(q, o) == {Cell(q.y, q.y.offset, o, i) : i \in Below(Cols(q.x.dims))}

LinearReads(q, p, r, k) == XRow(q, SourcePlane(q, p), r) \cup WRow(q, WeightRow(q, p, k))

(* Mutant: the columns are spread over threads for every leaf.             *)
MutParallelAlways(q) == TRUE

(* The columns of a row run in parallel unless two of them share a byte.   *)
linear_columns_parallel(q) == Bits(q.x) >= WordBits

linear_planes(q) ==
    LET row(p, r) == (SourcePlane(q, p) * q.rows + r) * Groups(q) + (p % Groups(q))
    IN  ColumnGroups(q.out, AllRows(q.out), 1,
                     LAMBDA p, r, k : IF linear_columns_parallel(q) THEN <<row(p, r), 0, 0, k>>
                                      ELSE <<row(p, r) * q.d + k, 0, 0, 0>>,
                     LAMBDA p, r, k : LinearReads(q, p, r, k))

linear_tiled_body(q) == AtOnce(q.out, Tile, LAMBDA p, r, k : LinearReads(q, p, r, k))

sycl_linear_row(q) == AtOnce(q.out, Cols(q.out.dims), LAMBDA p, r, k : LinearReads(q, p, r, k))

(* The CUDA matrix kernel: a lane stores the word of a pair of columns.    *)
cuda_linear_bf16(q) == AtOnce(q.out, 2, LAMBDA p, r, k : LinearReads(q, p, r, k))

(* Matrix paths: logical planes of the input, padded rows and columns.     *)
Pad(n) == Tiles(n) * Tile
Outer(q) == Rows(q.y.dims)
Grid(planes, rows, columns) == Below(planes) \X Below(rows) \X Below(columns)
Packed(name, planes, rows, columns, i) ==
    <<name, standard_plane_slot(<<rows, columns>>, i[1], i[2], i[3])>>

Scattered(q, launch, From(_, _, _)) ==
    {[t EXCEPT !.fetch = {}] :
        t \in ColumnGroups(q.out, AllRows(q.out), Tile,
                           LAMBDA p, r, g : <<launch, 0, 0, ElementNumber(q.out, p, r, g)>>,
                           LAMBDA p, r, k : {From(SourcePlane(q, p), r, WeightRow(q, p, k))})}

(* ROCm packs the input window into tiles, multiplies tile by tile and     *)
(* scatters the packed product.                                            *)
x_pack(q, i) == Packed("x_pack", Planes(q.x.dims), q.rows, Cols(q.x.dims), i)
y_pack(q, i) == Packed("y_pack", Planes(q.x.dims), q.rows, Outer(q), i)

linear_pack_kernel(q) ==
    Stage(1, Grid(Planes(q.x.dims), Pad(q.rows), Pad(Cols(q.x.dims))), LAMBDA i : x_pack(q, i),
          LAMBDA i : IF i[2] < q.rows /\ i[3] < Cols(q.x.dims)
                     THEN {ElementAt(q.x, i[1], q.s + i[2], i[3])} ELSE {}, Whole)

linear_wmma_kernel(q) ==
    Stage(2, Grid(Planes(q.x.dims), Pad(q.rows), Pad(Outer(q))), LAMBDA i : y_pack(q, i),
          LAMBDA i : {x_pack(q, <<i[1], i[2], j>>) : j \in Below(Pad(Cols(q.x.dims)))}
                       \cup (IF i[3] < Outer(q) THEN WRow(q, i[3]) ELSE {}), Whole)

linear_scatter_kernel(q) == Scattered(q, 3, LAMBDA p, r, o : y_pack(q, <<p, r, o>>))

rocm_linear_bf16(q) == linear_pack_kernel(q) \cup linear_wmma_kernel(q) \cup linear_scatter_kernel(q)

(* SYCL accumulates into a padded row-major product: one launch for the    *)
(* full row blocks and one for the tail, of a single row when one is left. *)
SyclRows(q, tail) ==
    LET full == (q.rows \div Tile) * Tile
    IN  IF ~tail THEN Below(full)
        ELSE IF q.rows - full = 1 THEN {full} ELSE full..(Pad(q.rows) - 1)

product_cell(q, i) == <<"product", (i[1] * Pad(q.rows) + i[2]) * Pad(Outer(q)) + i[3]>>

sycl_mad_body(q, launch, tail) ==
    IF q.rows % Tile = 0 /\ tail THEN {}
    ELSE Stage(launch, Below(Planes(q.x.dims)) \X SyclRows(q, tail) \X Below(Pad(Outer(q))),
               LAMBDA i : product_cell(q, i),
               LAMBDA i : (IF i[2] < q.rows THEN XRow(q, i[1], i[2]) ELSE {})
                            \cup (IF i[3] < Outer(q) THEN WRow(q, i[3]) ELSE {}), Whole)

sycl_pack_body(q) == Scattered(q, 3, LAMBDA p, r, o : product_cell(q, <<p, r, o>>))

sycl_linear_bf16(q) == sycl_mad_body(q, 1, FALSE) \cup sycl_mad_body(q, 2, TRUE) \cup sycl_pack_body(q)

-----------------------------------------------------------------------------
(* sdpa.  An item is a (plane, query head) pair numbered as the head-planar*)
(* planes of q; row r sees the tokens below Visible.                       *)
Queries(q) == Heads(q.x.dims)
HeadDim(q) == Cols(q.x.dims)
Items(q) == Below(Planes(q.x.dims))
Visible(q, r) == Min({q.l, q.a + r + 1})

KvPlane(q, i) ==
    LET grouping == Queries(q) \div Heads(q.y.dims)
    IN  (i \div Queries(q)) * Heads(q.y.dims) + ((i % Queries(q)) \div grouping)

QRow(q, i, r) == {ElementAt(q.x, i, r, d) : d \in Below(HeadDim(q))}
KRow(q, i, t) == {ElementAt(q.y, KvPlane(q, i), t, d) : d \in Below(HeadDim(q))}
VCell(q, i, t, d) == ElementAt(q.z, KvPlane(q, i), t, d)

(* Output element (i, r, d): head columns side by side.                    *)
MergedCell(q, j) ==
    ElementAt(q.out, j[1] \div Queries(q), j[2], (j[1] % Queries(q)) * HeadDim(q) + j[3])

ScoreGrid(q, rows, tokens) == Items(q) \X Below(rows) \X Below(tokens)
HeadGrid(q) == Items(q) \X Below(Rows(q.x.dims)) \X Below(HeadDim(q))

(* A scratch matrix per item with padded rows.                             *)
Scratch(name, rows, columns, j) == <<name, (j[1] * rows + j[2]) * columns + j[3]>>

(* The tokens of row r of an item that a scratch matrix holds.             *)
Seen(q, name, rows, columns, j) ==
    {Scratch(name, rows, columns, <<j[1], j[2], t>>) : t \in Below(Visible(q, j[2]))}
Causal(q) == {j \in ScoreGrid(q, Rows(q.x.dims), q.l) : j[3] < Visible(q, j[2])}

(* The CPU computes a plane in three loops over its visible tokens.        *)
cpu_sdpa_scores(q) ==
    Stage(1, Causal(q), LAMBDA j : Scratch("scores", Rows(q.x.dims), q.l, j),
          LAMBDA j : QRow(q, j[1], j[2]) \cup KRow(q, j[1], j[3]), Whole)

cpu_sdpa_softmax(q) ==
    Stage(2, Causal(q), LAMBDA j : Scratch("probabilities", Rows(q.x.dims), q.l, j),
          LAMBDA j : Seen(q, "scores", Rows(q.x.dims), q.l, j), Whole)

cpu_sdpa_values(q) ==
    Stage(3, HeadGrid(q), LAMBDA j : MergedCell(q, j),
          LAMBDA j : Seen(q, "probabilities", Rows(q.x.dims), q.l, j)
                       \cup {VCell(q, j[1], t, j[3]) : t \in Below(Visible(q, j[2]))}, Whole)

cpu_sdpa_plane(q) == cpu_sdpa_scores(q) \cup cpu_sdpa_softmax(q) \cup cpu_sdpa_values(q)

(* Mutant: the halfword is merged into its word without the exchange loop. *)
MutPlainMerge(cell) == WordsOf(cell, LeafBits[Owners[cell[1]].leaf])

(* A halfword stored by compare-and-swap on its word.                      *)
matrix_store_bf16(cell) == Whole(cell)

(* The device scratch pads rows and tokens to whole tiles.                 *)
Padded(q, name, j) == Scratch(name, Pad(Rows(q.x.dims)), Pad(q.l), j)
PaddedSeen(q, name, j) == Seen(q, name, Pad(Rows(q.x.dims)), Pad(q.l), j)

cuda_qk_body(q) ==
    Stage(1, ScoreGrid(q, Rows(q.x.dims), q.l), LAMBDA j : Padded(q, "scores", j),
          LAMBDA j : QRow(q, j[1], j[2]) \cup KRow(q, j[1], j[3]), Whole)

cuda_scale_mask(q) ==
    Stage(2, Causal(q), LAMBDA j : Padded(q, "scores", j), LAMBDA j : {Padded(q, "scores", j)}, Whole)

cuda_softmax(q) ==
    Stage(3, ScoreGrid(q, Rows(q.x.dims), q.l), LAMBDA j : Padded(q, "probabilities", j),
          LAMBDA j : IF j[3] < Visible(q, j[2]) THEN PaddedSeen(q, "scores", j) ELSE {}, Whole)

(* The probabilities of masked tokens are zero; PV multiplies them all.    *)
cuda_pv_body(q) ==
    Stage(4, HeadGrid(q), LAMBDA j : MergedCell(q, j),
          LAMBDA j : UNION {{Padded(q, "probabilities", <<j[1], j[2], t>>), VCell(q, j[1], t, j[3])}
                               : t \in Below(q.l)}, matrix_store_bf16)

cuda_canonicalize(q) ==
    Stage(5, HeadGrid(q), LAMBDA j : MergedCell(q, j), LAMBDA j : {MergedCell(q, j)}, Whole)

cuda_launch_sdpa_stages(q) ==
    cuda_qk_body(q) \cup cuda_scale_mask(q) \cup cuda_softmax(q) \cup cuda_pv_body(q) \cup cuda_canonicalize(q)

(* Mutant: V is packed before QK has used the shared segment.              *)
MutEarlyV == 3

(* The stream position of the V pack, which reuses the K segment.          *)
VPackLaunch == 5

PaddedHead(q, name, j) == Scratch(name, Pad(Rows(q.x.dims)), Pad(HeadDim(q)), j)
PackedCache(q, j) == Scratch("kv_pack", Pad(q.l), Pad(HeadDim(q)), j)
PaddedHeadGrid(q) == Items(q) \X Below(Pad(Rows(q.x.dims))) \X Below(Pad(HeadDim(q)))

rocm_q_pack(q) ==
    Stage(1, PaddedHeadGrid(q), LAMBDA j : PaddedHead(q, "q_pack", j),
          LAMBDA j : IF j[2] < Rows(q.x.dims) /\ j[3] < HeadDim(q)
                     THEN {ElementAt(q.x, j[1], j[2], j[3])} ELSE {}, Whole)

kv_pack(q, launch, v) ==
    Stage(launch, Below(Planes(v.dims)) \X Below(Pad(q.l)) \X Below(Pad(HeadDim(q))),
          LAMBDA j : PackedCache(q, j),
          LAMBDA j : IF j[2] < q.l /\ j[3] < HeadDim(q) THEN {ElementAt(v, j[1], j[2], j[3])} ELSE {}, Whole)
rocm_k_pack(q) == kv_pack(q, 2, q.y)
rocm_v_pack(q) == kv_pack(q, VPackLaunch, q.z)

rocm_qk_wmma(q) ==
    Stage(3, ScoreGrid(q, Pad(Rows(q.x.dims)), Pad(q.l)), LAMBDA j : Padded(q, "scores", j),
          LAMBDA j : UNION {{PaddedHead(q, "q_pack", <<j[1], j[2], d>>),
                             PackedCache(q, <<KvPlane(q, j[1]), j[3], d>>)} : d \in Below(Pad(HeadDim(q)))},
          Whole)

rocm_softmax(q) ==
    Stage(4, ScoreGrid(q, Pad(Rows(q.x.dims)), Pad(q.l)), LAMBDA j : Padded(q, "p_bf16", j),
          LAMBDA j : IF j[2] < Rows(q.x.dims) /\ j[3] < Visible(q, j[2])
                     THEN PaddedSeen(q, "scores", j) ELSE {}, Whole)

rocm_pv_wmma(q) ==
    Stage(6, PaddedHeadGrid(q), LAMBDA j : PaddedHead(q, "pv_bf16", j),
          LAMBDA j : UNION {{Padded(q, "p_bf16", <<j[1], j[2], t>>),
                             PackedCache(q, <<KvPlane(q, j[1]), t, j[3]>>)} : t \in Below(q.l)}, Whole)

(* Packed head by head, then merged without padding, then stored.          *)
rocm_merged(q, j) ==
    <<"merged", ((j[1] \div Queries(q)) * Rows(q.x.dims) + j[2]) * (Queries(q) * HeadDim(q))
                   + (j[1] % Queries(q)) * HeadDim(q) + j[3]>>
rocm_merge(q) ==
    Stage(7, HeadGrid(q), LAMBDA j : rocm_merged(q, j), LAMBDA j : {PaddedHead(q, "pv_bf16", j)}, Whole)
rocm_store(q) == Stage(8, HeadGrid(q), LAMBDA j : MergedCell(q, j), LAMBDA j : {rocm_merged(q, j)}, Whole)

rocm_launch_sdpa(q) ==
    rocm_q_pack(q) \cup rocm_k_pack(q) \cup rocm_qk_wmma(q) \cup rocm_softmax(q) \cup rocm_v_pack(q)
      \cup rocm_pv_wmma(q) \cup rocm_merge(q) \cup rocm_store(q)

(* SYCL runs one row per group so that both products stop at Visible.      *)
sycl_qk_body(q) ==
    Stage(1, ScoreGrid(q, Rows(q.x.dims), Pad(q.l)), LAMBDA j : Padded(q, "scores", j),
          LAMBDA j : QRow(q, j[1], j[2]) \cup (IF j[3] < Visible(q, j[2]) THEN KRow(q, j[1], j[3]) ELSE {}),
          Whole)

sycl_scale_softmax_row(q) ==
    Stage(2, ScoreGrid(q, Rows(q.x.dims), q.l), LAMBDA j : Padded(q, "probabilities", j),
          LAMBDA j : IF j[3] < Visible(q, j[2]) THEN PaddedSeen(q, "scores", j) ELSE {}, Whole)

sycl_pv_body(q) ==
    Stage(3, Items(q) \X Below(Rows(q.x.dims)) \X Below(Pad(HeadDim(q))), LAMBDA j : PaddedHead(q, "pv", j),
          LAMBDA j : PaddedSeen(q, "probabilities", j)
                       \cup (IF j[3] < HeadDim(q)
                             THEN {VCell(q, j[1], t, j[3]) : t \in Below(Visible(q, j[2]))} ELSE {}), Whole)

sycl_convert(q) ==
    Stage(4, HeadGrid(q), LAMBDA j : PaddedHead(q, "head", j), LAMBDA j : {PaddedHead(q, "pv", j)}, Whole)
sycl_merge_heads(q) ==
    Stage(5, HeadGrid(q), LAMBDA j : MergedCell(q, j), LAMBDA j : {PaddedHead(q, "head", j)}, Whole)

sycl_launch_sdpa_stages(q) ==
    sycl_qk_body(q) \cup sycl_scale_softmax_row(q) \cup sycl_pv_body(q) \cup sycl_convert(q) \cup sycl_merge_heads(q)

-----------------------------------------------------------------------------
(* Scratch segments in workspace order: [name, elements, bytes].           *)
Segment(name, extents, bytes) == [name |-> name, elements |-> checked_product(extents), bytes |-> bytes]

cpu_sdpa_workspace(q) ==
    LET extents == <<Planes(q.x.dims), Rows(q.x.dims), q.l>>
    IN  <<Segment("scores", extents, 4), Segment("probabilities", extents, 2)>>

sdpa_scratch(q) ==
    LET extents == <<Planes(q.x.dims), Pad(Rows(q.x.dims)), Pad(q.l)>>
    IN  <<Segment("scores", extents, 4), Segment("probabilities", extents, 2)>>

rocm_sdpa_layout(q) ==
    LET items == Planes(q.x.dims)   R == Rows(q.x.dims)   D == Pad(HeadDim(q))
    IN  <<Segment("q_pack", <<items, Pad(R), D>>, 2),
          Segment("kv_pack", <<Planes(q.y.dims), Pad(q.l), D>>, 2),
          Segment("scores", <<items, Pad(R), Pad(q.l)>>, 4),
          Segment("p_bf16", <<items, Pad(R), Pad(q.l)>>, 2),
          Segment("pv_bf16", <<items, Pad(R), D>>, 2),
          Segment("merged", <<Planes(q.out.dims), R, Cols(q.out.dims)>>, 2)>>

sdpa_matrix_scratch_layout(q) ==
    LET items == Planes(q.x.dims)   R == Pad(Rows(q.x.dims))   D == Pad(HeadDim(q))
    IN  <<Segment("scores", <<items, R, Pad(q.l)>>, 4), Segment("probabilities", <<items, R, Pad(q.l)>>, 2),
          Segment("pv", <<items, R, D>>, 4), Segment("head", <<items, R, D>>, 2)>>

linear_bf16_pack_layout(q) ==
    LET extents(columns) == <<Planes(q.x.dims), Pad(q.rows), Pad(columns)>>
    IN  <<Segment("x_pack", extents(Cols(q.x.dims)), 2), Segment("y_pack", extents(Outer(q)), 2)>>

bf16_linear_scratch(q) == <<Segment("product", <<Planes(q.x.dims), Pad(q.rows), Pad(Outer(q))>>, 4)>>

sycl_binary_staging(q) ==
    <<Segment("lhs", <<binary_view_staging_bytes(q.x)>>, 1), Segment("rhs", <<binary_view_staging_bytes(q.y)>>, 1),
      Segment("out", <<binary_view_staging_bytes(q.out)>>, 1)>>

ScratchAlignment == 32
Align32(n) == checked_mul(checked_add(n, ScratchAlignment - 1) \div ScratchAlignment, ScratchAlignment)

(* Every segment starts aligned behind the one before it.                  *)
ScratchBytes(segments) ==
    FoldSeq(LAMBDA g, sum : checked_add(sum, Align32(checked_mul(g.elements, g.bytes))), 0, segments)

-----------------------------------------------------------------------------
(* What a run of threads leaves behind: for every cell stored, the cells   *)
(* of the inputs its value was computed from.  The launches follow each    *)
(* other; the loads of a launch see what the launches before it stored.    *)
Resolve(env, cells) == UNION {IF c \in DOMAIN env THEN env[c] ELSE {c} : c \in cells}

AfterLaunch(env, threads) ==
    LET parts   == UNION {t.parts : t \in threads}
        stored  == {f.cell : f \in parts}
        from(c) == UNION {f.reads : f \in {g \in parts : g.cell = c}}
    IN  [c \in DOMAIN env \cup stored |-> IF c \in stored THEN Resolve(env, from(c)) ELSE env[c]]

Flow(steps) ==
    LET launches == 1..(Max({0} \cup {t.at[1] : t \in steps}) + 1)
    IN  FoldLeft(LAMBDA env, n : AfterLaunch(env, {t \in steps : t.at[1] = n - 1}), << >>,
                 [n \in launches |-> n])

(* Two places nothing orders: the same launch, and not separated by a      *)
(* barrier of one block.                                                   *)
Concurrent(a, b) == a # b /\ a[1] = b[1] /\ (a[2] # b[2] \/ a[3] = b[3])

Stores(steps) == UNION {{<<f.word, t.at>> : f \in t.parts} : t \in steps}
Fetches(steps, words) == UNION {{<<w, t.at>> : w \in t.fetch \cap words} : t \in steps}

Races(steps) ==
    LET stores == Stores(steps)
        words  == {s[1] : s \in stores}
    IN  \/ Cardinality(words) # Cardinality(stores)
              /\ \E s, u \in stores : s[1] = u[1] /\ Concurrent(s[2], u[2])
        \/ \E u \in Fetches(steps, words), s \in stores : s[1] = u[1] /\ Concurrent(s[2], u[2])
=============================================================================
