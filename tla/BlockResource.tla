---------------------------- MODULE BlockResource ---------------------------
(***************************************************************************)
(* The memory resources below remotable_resource (include/ityr/common/     *)
(* allocator.hpp) and noncoll_mem (include/ityr/ori/noncoll_mem.hpp).  In  *)
(* the first, mpi_win_resource hands out pages of the local window and     *)
(* block_resource cuts blocks drawn from it into smaller pieces; both keep *)
(* a freelist.  In the second, root_resource has one for the whole window, *)
(* but for the flag value at its end.                                      *)
(***************************************************************************)
EXTENDS Freelist

CONSTANTS
  WinSize,     \* local_max_size_
  PageSize,    \* get_page_size()
  BlockSize,   \* block_size_
  NoncollSize, \* local_max_size_ of noncoll_mem
  FlagSize     \* sizeof(int), kept from root_resource

\* A block is allocated with its size as alignment, which mpi_win_resource
\* requires to be page-aligned.
ASSUME BlockAssumption ==
  /\ {WinSize, PageSize, BlockSize} \subseteq Nat \ {0}
  /\ BlockSize % PageSize = 0 /\ WinSize % PageSize = 0
  /\ NoncollSize \in 1..WinSize /\ FlagSize \in 0..(NoncollSize - 1)

\* A heap: its kind, and the freelists of the window and of the blocks.
EmptyHeap == [kind |-> "block", win |-> <<Entry(0, WinSize)>>, blk |-> <<>>]
EmptyRoot == [kind |-> "root", win |-> <<Entry(0, NoncollSize - FlagSize)>>, blk |-> <<>>]

\* What do_allocate comes to: "ok" with an address, "dead" after die() when the
\* window is exhausted, "check" when ITYR_CHECK(s.has_value()) fails.
Allocated(heap, addr, win, blk) == [how |-> "ok", addr |-> addr, heap |-> [heap EXCEPT !.win = win, !.blk = blk]]
Fails(how, heap) == [how |-> how, addr |-> 0, heap |-> heap]

\* real_bytes of mpi_win_resource.
Pages(bytes) == RoundUp(bytes, PageSize)

\* mpi_win_resource::do_allocate, for blocks and for large requests.
WinAllocate(heap, bytes, alignment) == GetAligned(heap.win, Pages(bytes), alignment)

\* A request of at least a block: straight from the window.
AllocateLarge(heap, bytes, alignment) ==
  LET s == WinAllocate(heap, bytes, IF alignment > BlockSize THEN alignment ELSE BlockSize) IN
  IF s.found THEN Allocated(heap, s.addr, s.fl, heap.blk) ELSE Fails("dead", heap)

\* A smaller request for which the block freelist has nothing: a new block.
AllocateBlock(heap, bytes, alignment) ==
  LET FromBlock(win, s) == IF s.found THEN Allocated(heap, s.addr, win, s.fl) ELSE Fails("check", heap)
      GetFrom(blk)      == GetAligned(blk, bytes, alignment)
      WithBlock(new)    == IF ~new.found THEN Fails("dead", heap)
                           ELSE FromBlock(new.fl, Apply(GetFrom, Add(heap.blk, new.addr, BlockSize))) IN
  Apply(WithBlock, WinAllocate(heap, BlockSize, BlockSize))

\* A smaller request.
AllocateSmall(heap, bytes, alignment) ==
  LET From(s) == IF s.found THEN Allocated(heap, s.addr, heap.win, s.fl)
                 ELSE AllocateBlock([heap EXCEPT !.blk = s.fl], bytes, alignment) IN
  Apply(From, GetAligned(heap.blk, bytes, alignment))

\* root_resource::do_allocate.
RootAllocate(heap, bytes, alignment) ==
  LET From(s) == IF s.found THEN Allocated(heap, s.addr, s.fl, heap.blk) ELSE Fails("dead", heap) IN
  Apply(From, GetAligned(heap.win, bytes, alignment))

\* root_resource::do_allocate or block_resource::do_allocate.
HeapAllocate(heap, bytes, alignment) ==
  IF heap.kind = "root" THEN RootAllocate(heap, bytes, alignment)
  ELSE IF bytes >= BlockSize THEN AllocateLarge(heap, bytes, alignment)
  ELSE AllocateSmall(heap, bytes, alignment)

\* mpi_win_resource::do_deallocate.
WinDeallocate(heap, addr, bytes) == [heap EXCEPT !.win = Add(@, addr, Pages(bytes))]

\* root_resource::do_deallocate.
RootDeallocate(heap, addr, bytes) == [heap EXCEPT !.win = Add(@, addr, bytes)]

\* do_deallocate: a large one returns to the window, a small one to the blocks.
HeapDeallocate(heap, addr, bytes) ==
  IF heap.kind = "root" THEN RootDeallocate(heap, addr, bytes)
  ELSE IF bytes >= BlockSize THEN WinDeallocate(heap, addr, bytes)
  ELSE [heap EXCEPT !.blk = Add(@, addr, bytes)]

-----------------------------------------------------------------------------
\* The bytes that an allocation occupies, and those of the whole heap.
Occupied(heap, addr, bytes) ==
  Bytes(addr, IF heap.kind = "block" /\ bytes >= BlockSize THEN Pages(bytes) ELSE bytes)
HeapBytes(heap) == 0..((IF heap.kind = "root" THEN NoncollSize - FlagSize ELSE WinSize) - 1)
=============================================================================
