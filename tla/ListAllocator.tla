----------------------------- MODULE ListAllocator -----------------------------
(***************************************************************************)
(* The best-fit free-list allocator that owns the data arena of a CUDA or  *)
(* ROCm device (src/src/alloc.cpp, src/include/iom/alloc.hpp).             *)
(*                                                                         *)
(* Addresses are offsets from begin_, which the constructor aligns; one    *)
(* unit stands for any number of bytes.  Calls that throw change nothing   *)
(* and are not steps.                                                      *)
(***************************************************************************)
EXTENDS Integers, SequencesExt

CONSTANTS
    Capacity,   \* capacity(): raw_end_ - begin_
    Alignment,  \* align_, a power of two
    Sizes       \* the sizes callers ask for

VARIABLES
    free,       \* free_: blocks sorted by offset
    allocated   \* allocated_: address -> size, as a set of blocks

vars == <<free, allocated>>

Block(offset, size) == [offset |-> offset, size |-> size]
NonEmpty(b) == IF b.size = 0 THEN <<>> ELSE <<b>>

(* reset() *)
Initial == NonEmpty(Block(0, Capacity))

Init == free = Initial /\ allocated = {}

--------------------------------------------------------------------------------
AlignUp(a) == ((a + Alignment - 1) \div Alignment) * Alignment

Padding(b) == AlignUp(b.offset) - b.offset
Fits(b, sz) == Padding(b) + sz <= b.size
Waste(b, sz) == b.size - (Padding(b) + sz)

(* The first of the blocks that waste least; none: bad_alloc. *)
BestFit(sz) ==
    LET fitting == {i \in DOMAIN free : Fits(free[i], sz)}
    IN  {i \in fitting :
            \A j \in fitting :
                \/ Waste(free[i], sz) < Waste(free[j], sz)
                \/ Waste(free[i], sz) = Waste(free[j], sz) /\ i <= j}

(* Seeded fault: the units skipped for alignment are dropped. *)
AllocDropsPadding(sz) ==
    \E i \in BestFit(sz) :
        LET chosen == free[i]
            end == AlignUp(chosen.offset) + sz
        IN  /\ free' = SubSeq(free, 1, i - 1)
                       \o NonEmpty(Block(end, chosen.offset + chosen.size - end))
                       \o SubSeq(free, i + 1, Len(free))
            /\ allocated' = allocated \cup {Block(AlignUp(chosen.offset), sz)}

(* The chosen block is replaced by what is left before and after. *)
Alloc(sz) ==
    \E i \in BestFit(sz) :
        LET chosen == free[i]
            addr == AlignUp(chosen.offset)
            end == addr + sz
        IN  /\ free' = SubSeq(free, 1, i - 1)
                       \o NonEmpty(Block(chosen.offset, addr - chosen.offset))
                       \o NonEmpty(Block(end, chosen.offset + chosen.size - end))
                       \o SubSeq(free, i + 1, Len(free))
            /\ allocated' = allocated \cup {Block(addr, sz)}

--------------------------------------------------------------------------------
(* The first block that does not begin before the offset. *)
lower_bound(blocks, offset) ==
    CHOOSE i \in 1 .. Len(blocks) + 1 :
        /\ \A j \in 1 .. i - 1 : blocks[j].offset < offset
        /\ \A j \in i .. Len(blocks) : blocks[j].offset >= offset

InsertFreeBlock(blocks, b) == InsertAt(blocks, lower_bound(blocks, b.offset), b)

(* Seeded fault: freed blocks are not merged. *)
CoalesceNothing(blocks) == blocks

(* Neighbours that touch become one block. *)
Merge(out, b) ==
    IF out # <<>> /\ Last(out).offset + Last(out).size = b.offset
    THEN Append(Front(out), Block(Last(out).offset, Last(out).size + b.size))
    ELSE Append(out, b)

Coalesce(blocks) ==
    LET merged[i \in 0 .. Len(blocks)] ==
            IF i = 0 THEN <<>> ELSE Merge(merged[i - 1], blocks[i])
    IN  merged[Len(blocks)]

Free(b) ==
    /\ b \in allocated
    /\ free' = Coalesce(InsertFreeBlock(free, b))
    /\ allocated' = allocated \ {b}

Reset ==
    /\ free' = Initial
    /\ allocated' = {}

Next ==
    \/ \E sz \in Sizes : Alloc(sz)
    \/ \E b \in allocated : Free(b)
    \/ Reset

Spec == Init /\ [][Next]_vars

--------------------------------------------------------------------------------
(* Properties. *)
Arena == 0 .. Capacity - 1
Cells(b) == b.offset .. b.offset + b.size - 1

(* Every cell of the arena belongs to exactly one allocation or free block  *)
(* after any history of calls: nothing overlaps, nothing is lost.           *)
EveryCellOnce ==
    \A c \in Arena :
        Cardinality({b \in allocated : c \in Cells(b)})
          + Cardinality({i \in DOMAIN free : c \in Cells(free[i])}) = 1

(* alloc() throws bad_alloc only if no aligned gap between the allocations  *)
(* is long enough: padding and splits never hide memory from later calls.   *)
ExhaustionIsReal ==
    \A sz \in Sizes :
        BestFit(sz) = {} <=>
            ~ \E a \in Arena :
                /\ a % Alignment = 0 /\ a + sz <= Capacity
                /\ \A b \in allocated : Cells(b) \cap (a .. a + sz - 1) = {}

(* Allocations are aligned and every block is a part of the arena.          *)
AllocatorTypeOK ==
    /\ \A b \in allocated : b.offset % Alignment = 0
    /\ \A b \in allocated \cup ToSet(free) :
            b.size > 0 /\ Cells(b) \subseteq Arena
================================================================================
