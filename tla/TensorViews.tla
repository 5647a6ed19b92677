---------------------------- MODULE TensorViews ----------------------------
(***************************************************************************)
(* Tensor shapes, the standard tiled layout and the leading-axis views of  *)
(* an owner.  A shape is the sequence of its extents; the last two axes    *)
(* form the tiled matrix, the ones before select a plane.  A view names    *)
(* its owner and maps its leading coordinates to planes of the owner by an *)
(* offset and one stride per leading axis.                                 *)
(*                                                                         *)
(* size_t is modelled by its width: SizeMax is the largest value and every *)
(* checked operation yields Overflow beyond it.  Coordinates and planes    *)
(* count from 0 as in the code, axes from 1 as TLA+ sequences do.          *)
(***************************************************************************)
EXTENDS Integers, Sequences, FiniteSets, SequencesExt, FiniteSetsExt

CONSTANTS
    Tile,       \* TensorSpec::TILE
    WordBits,   \* the unit of exclusive ownership: a byte of the CPU kernels,
                \* a 32-bit word of the device kernels
    SizeMax,    \* the largest size_t
    LeafBits,   \* leaf encoding -> its width
    Owners,     \* owner -> [dims, leaf, device, base]: live tensors
    Device      \* the device of the queue under test

MaxRank == 8

(* The layout is packed so that a tile row holds whole words for every     *)
(* leaf: 16 slots of 2, 4, 6, 8, 16, 32 or 64 bits in the code.            *)
ASSUME TileRowsAreWords ==
    \A leaf \in DOMAIN LeafBits : (Tile * LeafBits[leaf]) % WordBits = 0

-----------------------------------------------------------------------------
(* Checked size_t arithmetic; Overflow propagates.                         *)
Overflow == -1

checked_add(a, b) == IF a < 0 \/ b < 0 \/ a + b > SizeMax THEN Overflow ELSE a + b

checked_mul(a, b) ==
    IF a < 0 \/ b < 0 \/ (b > 0 /\ a > SizeMax \div b) THEN Overflow ELSE a * b

checked_product(s) ==
    LET product[n \in 0..Len(s)] == IF n = 0 THEN 1 ELSE checked_mul(product[n - 1], s[n])
    IN  product[Len(s)]

padded_extent(n) == IF n % Tile = 0 THEN n ELSE checked_add(n, Tile - (n % Tile))

bits_to_bytes(n) == LET m == checked_add(n, 7) IN IF m < 0 THEN Overflow ELSE m \div 8

Tiles(n) == (n + Tile - 1) \div Tile

-----------------------------------------------------------------------------
(* Shapes.                                                                 *)
ShapeValid(dims) == Len(dims) \in 2..MaxRank /\ \A i \in DOMAIN dims : dims[i] > 0

Lead(dims) == SubSeq(dims, 1, Len(dims) - 2)
Rows(dims) == dims[Len(dims) - 1]
Cols(dims) == dims[Len(dims)]
WithLead(dims, lead) == lead \o <<Rows(dims), Cols(dims)>>

element_count(dims) == checked_product(dims)

logical_nbytes(dims, leaf) == bits_to_bytes(checked_mul(element_count(dims), LeafBits[leaf]))

standard_padded_shape(dims) == Lead(dims) \o <<padded_extent(Rows(dims)), padded_extent(Cols(dims))>>

tiled_storage_nbytes(dims, leaf) ==
    bits_to_bytes(checked_mul(checked_product(standard_padded_shape(dims)), LeafBits[leaf]))

(* Slot of element (row, column) of a plane: tiles in row-major order,     *)
(* elements in row-major order inside a tile.                              *)
standard_plane_slot(dims, plane, row, column) ==
    LET tile_index == plane * Tiles(Rows(dims)) * Tiles(Cols(dims))
                        + (row \div Tile) * Tiles(Cols(dims)) + (column \div Tile)
    IN  tile_index * Tile * Tile + (row % Tile) * Tile + (column % Tile)

-----------------------------------------------------------------------------
(* Views.                                                                  *)
dense_plane_strides(lead) ==
    [i \in DOMAIN lead |-> checked_product(SubSeq(lead, i + 1, Len(lead)))]

FullView(o) == [owner |-> o, dims |-> Owners[o].dims, offset |-> 0,
                strides |-> dense_plane_strides(Lead(Owners[o].dims))]

Leaf(v) == Owners[v.owner].leaf

(* What the four transformations throw; the view they were called on is    *)
(* unchanged.                                                              *)
Rejected == [owner |-> "rejected"]

slice(v, dim, first, count, step) ==
    LET last   == checked_add(first, checked_mul(count - 1, step))
        stride == checked_mul(v.strides[dim], step)
        offset == checked_add(v.offset, checked_mul(first, v.strides[dim]))
    IN  IF \/ dim > Len(v.dims) - 2 \/ count = 0 \/ step = 0
           \/ last < 0 \/ last >= v.dims[dim] \/ stride < 0 \/ offset < 0
        THEN Rejected
        ELSE [v EXCEPT !.dims[dim] = count, !.strides[dim] = stride, !.offset = offset]

select(v, dim, index) ==
    LET offset == checked_add(v.offset, checked_mul(index, v.strides[dim]))
    IN  IF dim > Len(v.dims) - 2 \/ index >= v.dims[dim] \/ offset < 0
        THEN Rejected
        ELSE [v EXCEPT !.dims = RemoveAt(v.dims, dim),
                       !.strides = RemoveAt(v.strides, dim), !.offset = offset]

permute(v, order) ==
    IF Len(order) # Len(v.dims) - 2 \/ {order[i] : i \in DOMAIN order} # DOMAIN v.strides
    THEN Rejected
    ELSE [v EXCEPT !.dims = WithLead(v.dims, [i \in DOMAIN order |-> v.dims[order[i]]]),
                   !.strides = [i \in DOMAIN order |-> v.strides[order[i]]]]

(* Mutant: contiguity without comparing the strides.                       *)
MutAnyStride(v) == \A i \in DOMAIN v.strides : v.strides[i] > 0

(* Contiguous: every axis longer than one has the dense stride of the axes *)
(* after it; an axis of extent one may keep any stride.                    *)
Contiguous(v) ==
    LET lead == Lead(v.dims)
    IN  \A i \in DOMAIN lead : lead[i] > 1 => v.strides[i] = dense_plane_strides(lead)[i]

reshape_leading(v, lead) ==
    IF \/ Len(lead) + 2 > MaxRank \/ \E i \in DOMAIN lead : lead[i] = 0
       \/ checked_product(lead) # checked_product(Lead(v.dims)) \/ ~Contiguous(v)
    THEN Rejected
    ELSE [v EXCEPT !.dims = WithLead(v.dims, lead), !.strides = dense_plane_strides(lead)]

-----------------------------------------------------------------------------
(* The elements of a view.                                                 *)
Coordinates(lead) ==
    {c \in [DOMAIN lead -> 0..(Max({1} \cup ToSet(lead)) - 1)] :
        \A i \in DOMAIN lead : c[i] < lead[i]}

(* The plane a traversal reaches by adding coordinate * stride per axis.   *)
PlaneAt(offset, strides, c) ==
    LET reach[n \in 0..Len(strides)] == IF n = 0 THEN offset ELSE reach[n - 1] + c[n] * strides[n]
    IN  reach[Len(strides)]

PlaneOf(v, c) == PlaneAt(v.offset, v.strides, c)

Cell(v, plane, row, column) == <<v.owner, standard_plane_slot(v.dims, plane, row, column)>>

CellsOf(v) ==
    {Cell(v, PlaneOf(v, c), r, k) :
        c \in Coordinates(Lead(v.dims)), r \in 0..(Rows(v.dims) - 1), k \in 0..(Cols(v.dims) - 1)}

-----------------------------------------------------------------------------
(* Operand admission shared by all operations.                             *)
validate_checked_spec(v) == ShapeValid(v.dims)

max_plane(v) ==
    LET reach[n \in 0..Len(v.strides)] ==
            IF n = 0 THEN v.offset ELSE checked_add(reach[n - 1], checked_mul(v.dims[n] - 1, v.strides[n]))
    IN  reach[Len(v.strides)]

validate_checked_view(v) ==
    LET o      == Owners[v.owner]
        top    == max_plane(v)
        last   == standard_plane_slot(v.dims, top, Rows(v.dims) - 1, Cols(v.dims) - 1)
        used   == bits_to_bytes(checked_mul(checked_add(last, 1), LeafBits[o.leaf]))
        stored == tiled_storage_nbytes(o.dims, o.leaf)
    IN  IF \/ o.device # Device
           \/ Rows(v.dims) # Rows(o.dims) \/ Cols(v.dims) # Cols(o.dims)
           \/ Len(v.strides) # Len(v.dims) - 2 \/ \E i \in DOMAIN v.strides : v.strides[i] = 0
        THEN "InvalidArgument"
        ELSE IF top < 0 THEN "Overflow"
        ELSE IF top >= checked_product(Lead(o.dims)) THEN "InvalidArgument"
        ELSE IF used < 0 \/ stored < 0 THEN "Overflow"
        ELSE IF used > stored THEN "InvalidArgument"
        ELSE IF logical_nbytes(v.dims, o.leaf) < 0 THEN "Overflow" ELSE "ok"

(* The first verdict that is not "ok".                                     *)
FirstFailure(verdicts) ==
    LET bad == {i \in DOMAIN verdicts : verdicts[i] # "ok"}
    IN  IF bad = {} THEN "ok" ELSE verdicts[Min(bad)]

(* Complete backing ranges of two owners: the address ends may overflow.   *)
checked_backing_range_relation(o, p) ==
    LET end(q) == checked_add(Owners[q].base, tiled_storage_nbytes(Owners[q].dims, Owners[q].leaf))
    IN  IF end(o) < 0 \/ end(p) < 0 THEN "Overflow"
        ELSE IF Owners[o].base < end(p) /\ Owners[p].base < end(o) THEN "InvalidArgument" ELSE "ok"

=============================================================================
