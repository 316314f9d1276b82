----------------------------- MODULE ByteCache -----------------------------
(***************************************************************************)
(* One rank's cache byte by byte: a request [b, e) of core (include/ityr/  *)
(* ori/core.hpp) is cut into home segments and cache blocks by the memory  *)
(* mapper (MemMapper), and every cache block (cache_manager.hpp) records   *)
(* in region lists (BlockRegions) what of it is valid and what is dirty.   *)
(* Memory is a collective allocation, or noncollective memory of another   *)
(* rank.  The values are versions of bytes tagged with the byte, so that   *)
(* bytes that meet in one home location show.  An allocation is served by  *)
(* one of the builds of core: core_default, with or without virtual memory *)
(* mapping (then get and put copy between cache and user), core_nocache,   *)
(* which accesses home memory, and core_serial, which has one rank only.   *)
(*                                                                         *)
(* CacheManager models the rest of the cache: slots, eviction, mapping,    *)
(* reference counts and epochs.  Here a rank has a slot for every block,   *)
(* and each request is checked out, used and checked in in one step.  Puts *)
(* arrive when they are flushed, the last moment at which they can.        *)
(***************************************************************************)
EXTENDS BlockRegions, MemMapper

CONSTANTS
  SubBlockSize,     \* sub_block_size_, which pads fetches
  MaxDirtyBlocks,   \* max_dirty_cache_blocks_
  NodeSize,         \* ranks 0 .. NodeSize-1 are on the node of this rank, the others
                    \* have a node each
  Allocs            \* allocations, each with the bound "writes" on the writes of the
                    \* program, the size "unit" of the elements it accesses and the
                    \* build "core" that serves it

ASSUME ByteCacheAssumption ==
  /\ SubBlockSize \in Nat \ {0} /\ BlockSize % SubBlockSize = 0
  /\ MaxDirtyBlocks \in Nat \ {0} /\ NodeSize \in Nat \ {0}
  /\ \A c \in Allocs :
       /\ c.kind \in {"block", "cyclic", "block_adws", "noncoll", "serial"}
       /\ c.size \in Nat \ {0} /\ c.n \in Nat \ {0} /\ c.unit \in Nat \ {0} /\ c.writes \in Nat
       /\ c.seg % BlockSize = 0 /\ c.seg > 0
       /\ c.core \in {"default", "default_copy", "nocache", "serial"}
       /\ c.core = "serial" => c.n = 1 /\ c.kind = "serial"

VARIABLES
  cm,         \* the allocation
  live,       \* it has not been freed
  died,       \* the steps at which malloc_coll died on a rank of this node
  mem,        \* home memory and the cache, see Memory
  mapped,     \* home segments that have been mapped
  latest,     \* byte -> the value the program wrote last
  nwrites,    \* writes so far
  stale,      \* bytes others have written, or that were freed, since acquire
  freed,      \* bytes of freed memory that nobody has written since
  misread     \* bytes of which a read did not see the latest value

vars == <<cm, live, died, mem, mapped, latest, nwrites, stale, freed, misread>>

None == <<>>
Me == 0
NoncollOwner == NodeSize   \* the first rank of another node
BytesOfReq(r) == r.b .. (r.e - 1)
AllBytes == 0..(cm.size - 1)
Requests ==
  {r \in [b : AllBytes, e : 1..cm.size] :
     r.b < r.e /\ r.b % cm.unit = 0 /\ (r.e % cm.unit = 0 \/ r.e = cm.size)}

IsLocallyAccessible(rank) == rank < NodeSize

EmptyBlock ==
  [owner |-> Me, pm |-> 0, valid |-> <<>>, dirty |-> <<>>, writing |-> FALSE,
   data |-> [i \in 0..(BlockSize - 1) |-> None]]

\* home: location -> value, for the locations written so far; blk: the cached
\* blocks by address; puts: location -> value of the puts in flight;
\* dirtyList: dirty_cache_blocks_.
EmptyMemory == [home |-> <<>>, blk |-> <<>>, puts |-> <<>>, dirtyList |-> <<>>]

HomeValue(m, loc) == IF loc \in DOMAIN m.home THEN m.home[loc] ELSE None

-----------------------------------------------------------------------------
(* The parts of a request.                                                  *)

\* core_serial: whatever the distribution, a block of this process's memory.
SerialSegment == Segment(Me, 0, cm.size, 0)

\* Noncollective memory lies on its owner.
NoncollSegment == Segment(NoncollOwner, 0, NBlk(cm) * BlockSize, 0)

\* The segments of a request.
Segments(r) ==
  CASE cm.kind = "noncoll" -> {NoncollSegment}
    [] cm.kind = "serial"  -> {SerialSegment}
    [] OTHER               -> MemSegments(cm, r.b, r.e)

HomeSegments(r) == {s \in Segments(r) : IsLocallyAccessible(s.owner)}

\* for_each_seg_blk: the blocks of the remote segments, in the order of their
\* addresses, with their home.
Blocks(r) ==
  LET parts == UNION {{[blk |-> k.blk, b |-> k.b, e |-> k.e, owner |-> s.owner, pm |-> s.pm + (k.blk - s.b)] :
                         k \in ForEachBlock(Max({s.b, r.b}), Min({s.e, r.e}))} :
                      s \in Segments(r) \ HomeSegments(r)}
      before(p) == {q \in parts : q.blk < p.blk}
  IN [i \in 1..Cardinality(parts) |-> CHOOSE p \in parts : Cardinality(before(p)) = i - 1]

\* The home segments of a request, cut to it, as get and put copy them: "to" is
\* the place in the user's buffer, "disp" the one in the owner's home memory.
HomePieces(r) ==
  {LET b == Max({r.b, s.b})
       e == Min({s.e, r.e})
   IN [to |-> b - r.b, len |-> e - b, owner |-> s.owner, disp |-> s.pm + (b - s.b)] : s \in HomeSegments(r)}

\* Its cache blocks, as core_nocache gets and puts them.
RemotePieces(r) ==
  {[to |-> p.b - r.b, len |-> p.e - p.b, owner |-> p.owner, disp |-> p.pm + (p.b - p.blk)] : p \in Range(Blocks(r))}

HomeBytes(r) == UNION {BytesOf(s) : s \in HomeSegments(r)} \cap BytesOfReq(r)

\* The home location of a byte.
Location(o) ==
  LET s == CASE cm.kind = "noncoll" -> NoncollSegment
             [] cm.kind = "serial"  -> SerialSegment
             [] OTHER               -> GetSegment(cm, o)
  IN <<s.owner, s.pm + (o - s.b)>>

RegionIn(p) == Region(p.b - p.blk, p.e - p.blk)
-----------------------------------------------------------------------------
(* Transfers.                                                               *)

\* pad_fetch_region.
PadFetchRegion(br) ==
  Region((br.b \div SubBlockSize) * SubBlockSize, CeilDiv(br.e, SubBlockSize) * SubBlockSize)

\* fetch_begin, and the flush of fetch_complete: what is not valid of the
\* padded region comes from its home.
FetchBegin(m, a, br) ==
  LET c   == m.blk[a]
      get == BytesIn(InverseRegions(c.valid, PadFetchRegion(br))) IN
  IF Include(c.valid, br) THEN m
  ELSE [m EXCEPT !.blk[a].data = [i \in DOMAIN c.data |->
                    IF i \in get THEN HomeValue(m, <<c.owner, c.pm + i>>) ELSE c.data[i]],
                 !.blk[a].valid = AddRegion(@, PadFetchRegion(br))]

\* checkout_blk.
CheckoutBlk(m, p, skipFetch) ==
  LET n == IF p.blk \in DOMAIN m.blk THEN m
           ELSE [m EXCEPT !.blk = (p.blk :> [EmptyBlock EXCEPT !.owner = p.owner, !.pm = p.pm]) @@ @]
  IN IF skipFetch THEN [n EXCEPT !.blk[p.blk].valid = AddRegion(@, RegionIn(p))]
     ELSE FetchBegin(n, p.blk, RegionIn(p))

\* writeback_complete: the flush.
WritebackComplete(m) ==
  [m EXCEPT !.home = m.puts @@ @, !.puts = <<>>,
            !.blk = [a \in DOMAIN m.blk |-> [m.blk[a] EXCEPT !.writing = FALSE]]]

\* writeback_begin of one block: overlapping puts are kept apart by a flush.
WritebackBlk(m, a) ==
  IF m.blk[a].dirty = <<>> THEN m
  ELSE LET n   == IF m.blk[a].writing THEN WritebackComplete(m) ELSE m
           c   == n.blk[a]
           put == BytesIn(c.dirty) IN
       [n EXCEPT !.puts = [loc \in {<<c.owner, c.pm + i>> : i \in put} |-> c.data[loc[2] - c.pm]] @@ @,
                 !.blk[a].dirty = <<>>, !.blk[a].writing = TRUE]

\* writeback_begin: of all dirty blocks.
WritebackBegin(m) ==
  [FoldLeft(WritebackBlk, m, m.dirtyList) EXCEPT !.dirtyList = <<>>]

\* ensure_all_cache_clean.
EnsureAllCacheClean(m) == WritebackComplete(WritebackBegin(m))

\* add_dirty_region of checkin_blk.
AddDirtyRegion(m, p) ==
  LET new == m.blk[p.blk].dirty = <<>>
      n   == [m EXCEPT !.blk[p.blk].dirty = AddRegion(@, RegionIn(p)),
                       !.dirtyList = IF new THEN Append(@, p.blk) ELSE @]
  IN IF new /\ Len(n.dirtyList) >= MaxDirtyBlocks THEN WritebackBegin(n) ELSE n

\* Mutant: discard_dirty does not wait for puts in flight.
DiscardDirtyAtOnce(m, p) ==
  IF p.blk \notin DOMAIN m.blk THEN m
  ELSE [m EXCEPT !.blk[p.blk].dirty = RemoveRegion(@, RegionIn(p))]

\* discard_dirty.
DiscardDirty(m, p) ==
  IF p.blk \notin DOMAIN m.blk THEN m
  ELSE LET n == IF m.blk[p.blk].writing THEN WritebackComplete(m) ELSE m IN
       [n EXCEPT !.blk[p.blk].dirty = RemoveRegion(@, RegionIn(p))]

\* The program's stores: to the cache, and in place in home segments.
Stored(m, r, val) ==
  LET inPlace == HomeBytes(r)
      cached  == BytesOfReq(r) \ inPlace
  IN [m EXCEPT
        !.home = [loc \in {Location(o) : o \in inPlace} |-> val[CHOOSE o \in inPlace : Location(o) = loc]] @@ @,
        !.blk = [a \in DOMAIN m.blk |->
                   [m.blk[a] EXCEPT !.data = [i \in DOMAIN @ |-> IF a + i \in cached THEN val[a + i] ELSE @[i]]]]]

\* What the program sees of byte o after a checkout.
Seen(m, o) ==
  IF IsLocallyAccessible(Location(o)[1]) THEN HomeValue(m, Location(o))
  ELSE LET a == (o \div BlockSize) * BlockSize IN m.blk[a].data[o - a]

\* get_copy_blk: from the entry of a block to the user's buffer.
GetCopyBlk(m, r, p) == [i \in (p.b - r.b)..(p.e - r.b - 1) |-> m.blk[p.blk].data[(p.b - p.blk) + (i - (p.b - r.b))]]

\* put_copy_blk: from the user's buffer to the entry of a block.
PutCopyBlk(m, r, p, buf) ==
  [m EXCEPT !.blk[p.blk].data = [i \in (p.b - p.blk)..(p.e - p.blk - 1) |-> buf[(p.b - r.b) + (i - (p.b - p.blk))]] @@ @]

\* Copies between pieces of home memory and the user's buffer.
GetPieces(m, pieces) ==
  [i \in UNION {p.to..(p.to + p.len - 1) : p \in pieces} |->
     LET p == CHOOSE p \in pieces : i \in p.to..(p.to + p.len - 1) IN HomeValue(m, <<p.owner, p.disp + (i - p.to)>>)]

PutPieces(m, pieces, buf) ==
  LET at(p) == {<<p.owner, p.disp + i>> : i \in 0..(p.len - 1)}
      from(loc) == CHOOSE p \in pieces : loc \in at(p)
  IN [m EXCEPT !.home = [loc \in UNION {at(p) : p \in pieces} |-> buf[from(loc).to + (loc[2] - from(loc).disp)]] @@ @]

\* get_copy_impl without virtual memory mapping: piece by piece.
GetCopy(m, r) ==
  FoldLeft(LAMBDA buf, p : GetCopyBlk(m, r, p) @@ buf, GetPieces(m, HomePieces(r)), Blocks(r))

\* put_copy_impl.
PutCopy(m, r, buf) ==
  FoldLeft(LAMBDA acc, p : PutCopyBlk(acc, r, p, buf), PutPieces(m, HomePieces(r), buf), Blocks(r))

Checkout(m, r, skipFetch) ==
  FoldLeft(LAMBDA acc, p : CheckoutBlk(acc, p, skipFetch), m, Blocks(r))

-----------------------------------------------------------------------------
\* The constructor of coll_mem, on every rank of this node: the steps at which
\* setting up the home memory of the node dies.
MallocDies(c) ==
  LET intra == {p \in Ranks(c) : IsLocallyAccessible(p)} IN
  IF c.kind \in {"noncoll", "serial"} THEN {}
  ELSE {InitHomeVm(OpenedSize(c, q, p)) : q \in intra, p \in intra} \ {"mapped"}

Init ==
  /\ cm \in Allocs /\ died = MallocDies(cm) /\ live = (died = {})
  /\ mem = EmptyMemory /\ mapped = {} /\ nwrites = 0
  /\ latest = [o \in AllBytes |-> None]
  /\ stale = {} /\ freed = {} /\ misread = {}

IsCached == cm.core \in {"default", "default_copy"}

\* checkout and checkin die in core_nocache and without virtual memory mapping.
CanCheckout == cm.core \in {"default", "serial"}

\* physical_mem::map_to_vm accepts a home segment.
CanMapToVm(s) == s.pm + (s.e - s.b) <= OpenedSize(cm, Me, s.owner)

\* The home segments that a checkout maps.
MappedBy(r) == IF cm.core = "default" THEN HomeSegments(r) ELSE {}

\* release and acquire have nothing to do in core_nocache and core_serial.
FencesNothing == cm.core \in {"nocache", "serial"}

\* checkout with mode read, the program's loads, and checkin; or get, whose
\* memcpy loads through the mapping.  The program reads only what it may: after
\* an acquire for what others wrote.
Read(r) ==
  /\ CanCheckout
  /\ BytesOfReq(r) \cap (stale \cup freed) = {}
  /\ LET m == Checkout(mem, r, FALSE) IN
       /\ mem' = m
       /\ misread' = misread \cup {o \in BytesOfReq(r) : Seen(m, o) # latest[o]}
  /\ mapped' = mapped \cup MappedBy(r)
  /\ UNCHANGED <<cm, died, live, latest, nwrites, stale, freed>>

\* checkout with mode write (skipFetch) or read_write, the program's stores, and
\* checkin; or put, with mode write, whose memcpy stores through the mapping.
Write(r, skipFetch) ==
  /\ CanCheckout
  /\ nwrites < cm.writes
  /\ BytesOfReq(r) \cap stale = {}
  /\ latest' = [o \in AllBytes |-> IF o \in BytesOfReq(r) THEN <<o, nwrites + 1>> ELSE latest[o]]
  /\ mem' = FoldLeft(AddDirtyRegion, Stored(Checkout(mem, r, skipFetch), r, latest'), Blocks(r))
  /\ nwrites' = nwrites + 1
  /\ freed' = freed \ BytesOfReq(r)
  /\ mapped' = mapped \cup MappedBy(r)
  /\ UNCHANGED <<cm, died, live, stale, misread>>

\* get where memory is not mapped: a checkout to read, the copies and a checkin,
\* or the RMA gets of core_nocache and their flush.
Get(r) ==
  /\ ~CanCheckout
  /\ BytesOfReq(r) \cap (stale \cup freed) = {}
  /\ LET m   == IF IsCached THEN Checkout(mem, r, FALSE) ELSE mem
         buf == IF IsCached THEN GetCopy(m, r) ELSE GetPieces(m, HomePieces(r) \cup RemotePieces(r)) IN
       /\ mem' = m
       /\ misread' = misread \cup {o \in BytesOfReq(r) : buf[o - r.b] # latest[o]}
  /\ UNCHANGED <<cm, died, live, mapped, latest, nwrites, stale, freed>>

\* put where memory is not mapped: a checkout to write, the copies and a checkin,
\* or the RMA puts of core_nocache and their flush.
Put(r) ==
  /\ ~CanCheckout
  /\ nwrites < cm.writes
  /\ BytesOfReq(r) \cap stale = {}
  /\ latest' = [o \in AllBytes |-> IF o \in BytesOfReq(r) THEN <<o, nwrites + 1>> ELSE latest[o]]
  /\ LET buf == [i \in 0..(r.e - r.b - 1) |-> latest'[r.b + i]] IN
       mem' = IF IsCached THEN FoldLeft(AddDirtyRegion, PutCopy(Checkout(mem, r, TRUE), r, buf), Blocks(r))
              ELSE PutPieces(mem, HomePieces(r) \cup RemotePieces(r), buf)
  /\ nwrites' = nwrites + 1
  /\ freed' = freed \ BytesOfReq(r)
  /\ UNCHANGED <<cm, died, live, mapped, stale, misread>>

\* Mutant: free_coll leaves the cached blocks of the allocation.
FreeCollUnevicted ==
  /\ IsCached /\ cm.kind # "noncoll"
  /\ live' = FALSE
  /\ mem' = [EnsureAllCacheClean(mem) EXCEPT !.home = <<>>]
  /\ mapped' = {} /\ latest' = <<>> /\ nwrites' = 0 /\ stale' = {}
  /\ UNCHANGED <<cm, died, freed, misread>>

\* free_coll, on all ranks: everything is written back, then the blocks of the
\* allocation leave the cache and the mappings of its home memory, and its home
\* memory goes.  Others have released what they wrote before.
FreeColl ==
  LET m       == EnsureAllCacheClean(mem)
      evicted == {a \in 0..(EffectiveSize(cm) - 1) : a % BlockSize = 0} IN
  /\ IsCached /\ cm.kind # "noncoll"
  /\ live' = FALSE
  /\ mem' = [m EXCEPT !.home = <<>>, !.blk = Restrict(@, DOMAIN @ \ evicted)]
  /\ mapped' = {s \in mapped : s.b \notin evicted}
  /\ latest' = <<>> /\ nwrites' = 0 /\ stale' = {}
  /\ UNCHANGED <<cm, died, freed, misread>>

\* free_coll of core_nocache, and free_coll and free of core_serial.
FreeCollUncached ==
  /\ ~IsCached /\ cm.kind # "noncoll"
  /\ live' = FALSE
  /\ mem' = [mem EXCEPT !.home = <<>>]
  /\ latest' = <<>> /\ nwrites' = 0 /\ stale' = {}
  /\ UNCHANGED <<cm, died, mapped, freed, misread>>

\* malloc_coll, which may get the virtual addresses of the freed allocation.
MallocColl(c) ==
  /\ ~live /\ died = {} /\ c.core = cm.core /\ c.n = cm.n /\ c.kind # "noncoll"
  /\ cm' = c /\ died' = MallocDies(c) /\ live' = (died' = {})
  /\ latest' = [o \in 0..(c.size - 1) |-> None]
  /\ UNCHANGED <<mem, mapped, nwrites, stale, freed, misread>>

\* release, as in fences and in get_entry when the cache is full.
Release ==
  /\ mem' = IF FencesNothing THEN mem ELSE EnsureAllCacheClean(mem)
  /\ UNCHANGED <<cm, died, live, mapped, latest, nwrites, stale, freed, misread>>

\* acquire: invalidate_all after everything is clean.
Acquire ==
  /\ LET m == EnsureAllCacheClean(mem) IN
       mem' = IF FencesNothing THEN mem
              ELSE [m EXCEPT !.blk = [a \in DOMAIN m.blk |-> [m.blk[a] EXCEPT !.valid = <<>>]]]
  /\ stale' = {}
  /\ UNCHANGED <<cm, died, live, mapped, latest, nwrites, freed, misread>>

\* free of an object [b, e) of another rank's noncollective memory.
Free(r) ==
  /\ IsCached /\ cm.kind = "noncoll"
  /\ BytesOfReq(r) \cap (stale \cup freed) = {}
  /\ mem' = FoldLeft(DiscardDirty, mem, Blocks(r))
  /\ freed' = freed \cup BytesOfReq(r)
  /\ stale' = stale \cup BytesOfReq(r)
  /\ UNCHANGED <<cm, died, live, mapped, latest, nwrites, misread>>

\* free of core_nocache, which has nothing to discard.
FreeUncached(r) ==
  /\ ~IsCached /\ cm.kind = "noncoll"
  /\ BytesOfReq(r) \cap (stale \cup freed) = {}
  /\ freed' = freed \cup BytesOfReq(r)
  /\ stale' = stale \cup BytesOfReq(r)
  /\ UNCHANGED <<cm, died, live, mem, mapped, latest, nwrites, misread>>

IsPending(o) ==
  \/ Location(o) \in DOMAIN mem.puts
  \/ \E a \in DOMAIN mem.blk : o - a \in BytesIn(mem.blk[a].dirty)

\* Another rank writes a byte and its value reaches home: one that this rank
\* has released, or that was freed and allocated again.
OtherWrites(o) ==
  /\ cm.core # "serial"
  /\ nwrites < cm.writes
  /\ o \in freed \/ ~IsPending(o)
  /\ latest' = [latest EXCEPT ![o] = <<o, nwrites + 1>>]
  /\ mem' = [mem EXCEPT !.home = (Location(o) :> latest'[o]) @@ @]
  /\ nwrites' = nwrites + 1
  /\ stale' = stale \cup {o}
  /\ freed' = freed \ {o}
  /\ UNCHANGED <<cm, died, live, mapped, misread>>

Next ==
  \/ /\ live
     /\ \/ \E r \in Requests :
             \/ Read(r) \/ \E skipFetch \in BOOLEAN : Write(r, skipFetch)
             \/ Get(r) \/ Put(r) \/ Free(r) \/ FreeUncached(r)
        \/ Release \/ Acquire \/ FreeColl \/ FreeCollUncached
        \/ \E o \in AllBytes : o % cm.unit = 0 /\ OtherWrites(o)
  \/ \E c \in Allocs : MallocColl(c)

Spec == Init /\ [][Next]_vars

-----------------------------------------------------------------------------
\* What a block records is sound: its lists are sorted, within the block and
\* without ranges that touch, and what is dirty is valid, so that whatever ranges
\* were added, removed and fetched no later fetch overwrites a write; and its
\* home, like every mapped home segment, lies within the memory of its owner
\* (for_each_seg_blk's ITYR_CHECK(pm_offset + BlockSize <= local_size(owner))).
BlocksSound ==
  /\ \A a \in DOMAIN mem.blk :
       LET c == mem.blk[a] IN
       /\ IsCanonical(c.valid) /\ IsCanonical(c.dirty)
       /\ BytesIn(c.dirty) \subseteq BytesIn(c.valid)
       /\ BytesIn(c.valid) \subseteq 0..(BlockSize - 1)
       /\ cm.kind # "noncoll" => c.owner \in Ranks(cm) /\ c.pm + BlockSize <= LocalSize(cm, c.owner)
  /\ \A s \in mapped : s.e <= EffectiveSize(cm) /\ s.pm + (s.e - s.b) <= LocalSize(cm, s.owner)

\* No write is lost, through splitting, padding, merging and writing back: the
\* latest value of each byte is dirty in the cache, on its way home, or at home,
\* and no other byte's value is there.
LatestKept ==
  live => \A o \in AllBytes \ freed :
    LET a     == (o \div BlockSize) * BlockSize
        dirty == a \in DOMAIN mem.blk /\ o - a \in BytesIn(mem.blk[a].dirty)
    IN latest[o] = CASE dirty -> mem.blk[a].data[o - a]
                     [] ~dirty /\ Location(o) \in DOMAIN mem.puts -> mem.puts[Location(o)]
                     [] OTHER -> HomeValue(mem, Location(o))

\* A read sees the latest value of each byte, in whatever pieces its block was
\* fetched, written without fetching and invalidated before.
ReadsSeeLatest == misread = {}

\* ITYR_CHECK(offset + size <= size_) of physical_mem::map_to_vm holds whenever a
\* checkout maps a home segment of a rank of this node, in memory that malloc_coll
\* has opened, reserved and mapped.
MapsWithinOpened == \A s \in mapped : CanMapToVm(s)
=============================================================================
