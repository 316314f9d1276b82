------------------------------ MODULE MemMapper ------------------------------
(***************************************************************************)
(* The distribution of a collective allocation over the ranks:             *)
(* mem_mapper::block, cyclic and block_adws (include/ityr/ori/             *)
(* mem_mapper.hpp), the physical memory that coll_mem (coll_mem.hpp) sets  *)
(* up for it, and the walk over a request, segment by segment and block by *)
(* block, that every checkout of core makes (for_each_mem_segment,         *)
(* for_each_seg_blk).  Addresses are offsets in the allocation, whose      *)
(* virtual address is aligned to the block size.                           *)
(***************************************************************************)
EXTENDS Integers, FiniteSets

CONSTANTS
  BlockSize,
  IntWidth      \* bits of an int; a size_t has twice as many

ASSUME MapperAssumption == BlockSize \in Nat \ {0} /\ IntWidth \in Nat \ {0}

\* An allocation c is a record: its kind, size, number n of ranks, and seg, the
\* seg_size_ of cyclic.
Ranks(c) == 0..(c.n - 1)
CeilDiv(x, y) == (x + y - 1) \div y
NBlk(c) == CeilDiv(c.size, BlockSize)

\* get_seg_range of block and of block_adws.
SegRange(c, id) ==
  IF c.kind = "block"
  THEN [b |-> CeilDiv(id * NBlk(c), c.n), e |-> CeilDiv((id + 1) * NBlk(c), c.n)]
  ELSE [b |-> (id * NBlk(c)) \div c.n, e |-> ((id + 1) * NBlk(c)) \div c.n]

\* local_size_impl of cyclic.
CyclicLocalSize(c) == CeilDiv(CeilDiv(c.size, c.seg), c.n) * c.seg

\* The segment of block and block_adws that a rank owns, and conversely.
SegIdOf(c, rank) == IF c.kind = "block" THEN rank ELSE c.n - rank - 1

\* local_size: at least one block, even for a rank that owns nothing.
LocalSize(c, rank) ==
  IF c.kind = "cyclic" THEN CyclicLocalSize(c)
  ELSE LET r == SegRange(c, SegIdOf(c, rank)) IN
       (IF r.e - r.b > 1 THEN r.e - r.b ELSE 1) * BlockSize

EffectiveSize(c) ==
  IF c.kind = "cyclic" THEN CyclicLocalSize(c) * c.n ELSE NBlk(c) * BlockSize

Segment(owner, b, e, pm) == [owner |-> owner, b |-> b, e |-> e, pm |-> pm]

\* seg_id of get_segment in block and block_adws.
SegIdAt(c, blk) ==
  IF c.kind = "block" THEN (blk * c.n) \div NBlk(c)
  ELSE CeilDiv((blk + 1) * c.n, NBlk(c)) - 1

\* get_segment.
GetSegment(c, o) ==
  IF c.kind = "cyclic"
  THEN LET g == o \div c.seg IN
       Segment(g % c.n, g * c.seg, (g + 1) * c.seg, (g \div c.n) * c.seg)
  ELSE LET id == SegIdAt(c, o \div BlockSize)
           r  == SegRange(c, id) IN
       Segment(SegIdOf(c, id), r.b * BlockSize, r.e * BlockSize, 0)

\* The conversions size_t -> int -> size_t of target_local_size.
ToInt(x) ==
  LET y == x % (2 ^ IntWidth) IN IF y < 2 ^ (IntWidth - 1) THEN y ELSE y - 2 ^ IntWidth
ToSizeT(x) == x % (2 ^ (2 * IntWidth))

\* init_intra_home_pms: the size with which rank q of a node opens the home
\* memory of rank p of the same node; its own it creates with local_size.
OpenedSize(c, q, p) ==
  IF p = q THEN LocalSize(c, p) ELSE ToSizeT(ToInt(LocalSize(c, p)))

\* The user's half of the address space.
AddressSpace == 2 ^ (2 * IntWidth - 1)

\* virtual_mem at no given address: mmap is asked for size + alignment in a
\* size_t, and fails for nothing and for more than there is.
Reserves(size) == ToSizeT(size + BlockSize) \in 1..(AddressSpace - 1)

\* init_intra_home_vms for home memory opened with a size: the step that dies,
\* if any.  map_to_vm's mmap fails for no bytes.
InitHomeVm(size) ==
  CASE ~Reserves(size)              -> "virtual_mem"
    [] Reserves(size) /\ size = 0   -> "map_to_vm"
    [] OTHER                        -> "mapped"

\* for_each_block: the blocks that [b, e) touches, with their part of it.
ForEachBlock(b, e) ==
  {[blk |-> x, b |-> IF x > b THEN x ELSE b,
    e |-> IF x + BlockSize < e THEN x + BlockSize ELSE e] :
     x \in {y \in ((b \div BlockSize) * BlockSize)..(e - 1) : y % BlockSize = 0}}

\* for_each_mem_segment: the segments from b up to e, each found at the end of
\* the one before.
MemSegments(c, b, e) ==
  LET from[o \in 0..EffectiveSize(c)] ==
        IF o >= e THEN {}
        ELSE LET seg == GetSegment(c, o) IN {seg} \cup from[seg.e]
  IN from[b]
=============================================================================
