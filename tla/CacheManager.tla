---------------------------- MODULE CacheManager ----------------------------
(***************************************************************************)
(* The software cache of ityr::ori: cache_manager, cache_system and tlb    *)
(* (include/ityr/ori/), driven by the checkout/checkin calls of core.      *)
(*                                                                         *)
(* Each rank caches blocks whose home is elsewhere.  A block is divided    *)
(* into regions; block_regions (a sorted list of byte ranges) is a set of  *)
(* regions here.  RMA is asynchronous: a get or a put that has been issued *)
(* takes effect at any time before the flush that waits for it, and a put  *)
(* reads the cache when it takes effect.                                   *)
(*                                                                         *)
(* The program that uses the cache is data-race free: every location is    *)
(* used by one rank at a time, and passes to another rank by release_lazy  *)
(* on the one side and acquire(rh) on the other.  How the handler's epoch  *)
(* is requested and waited for is the subject of ReleaseManager; here      *)
(* acquire waits until the epoch has come, and poll may come at any time.  *)
(***************************************************************************)
EXTENDS Integers, Sequences, FiniteSets

CONSTANT
  Setups        \* instances that are checked: see setup

VARIABLE
  setup         \* which of the Setups this is

Ranks == Setups[setup].ranks
Blocks == Setups[setup].blocks          \* addresses of the blocks
Regions == Setups[setup].regions        \* regions of a block
SubBlocks == Setups[setup].subBlocks    \* the partition of Regions that fetches are padded to
NSlots == Setups[setup].slots           \* num_entries() of the cache_system
MaxDirty == Setups[setup].maxDirty      \* max_dirty_cache_blocks_
Requests == Setups[setup].requests      \* what is checked out: sequences of <<block, regions>>
MaxOut == Setups[setup].maxOut          \* bound: requests that a rank has checked out at a time
MaxWrites == Setups[setup].maxWrites    \* bound: how often each location is written

NoBlock == 0

ASSUME SetupAssumption ==
  \A i \in DOMAIN Setups :
    /\ NoBlock \notin Setups[i].blocks
    /\ UNION Setups[i].subBlocks = Setups[i].regions
    /\ Setups[i].slots \in Nat \ {0} /\ Setups[i].maxDirty \in Nat \ {0}
    /\ Setups[i].maxOut \in Nat
    /\ Setups[i].maxWrites \in [Setups[i].blocks \X Setups[i].regions -> Nat]
    \* A request is a range of addresses, cut at the boundaries of blocks.
    /\ Setups[i].requests \subseteq Seq(Setups[i].blocks \X SUBSET Setups[i].regions)
    /\ \A q \in Setups[i].requests : \A j, k \in DOMAIN q : q[j][1] = q[k][1] => j = k

VARIABLES
  memory,       \* home memory: value of every location
  slot,         \* slot[r][s]: a cache_entry with its cache_block
  data,         \* data[r][s][x]: the cached bytes
  lru,          \* lru_[r]: slots, oldest first
  tlb,          \* cache_tlb_[r]: set of <<block, slot>>
  vm,           \* vm[r][b]: the slot mapped at the addresses of block b
  toMap,        \* cache_blocks_to_map_
  gets, puts,   \* RMA operations issued and not completed: sets of <<slot, region>>
  wins,         \* writing_back_wins_ is not empty
  dirtyList,    \* dirty_cache_blocks_
  hasDirty,     \* has_dirty_cache_
  wbEpoch,      \* writeback_epoch_
  epoch,        \* current_epoch of the rank's release manager
  pc, then,     \* where a rank is, and where it goes on after a writeback
  todo,         \* what the loop it is in has still to do
  req,          \* the request it handles
  out,          \* the requests it has checked out
  perm,         \* perm[l]: who may use location l, after acquiring with which handler
  latest        \* latest[l]: the value last written to l (values are counted up)

cacheVars == <<slot, data, lru, tlb, vm, toMap>>
rmaVars == <<memory, gets, puts>>
wbVars == <<wins, dirtyList, hasDirty, wbEpoch, epoch>>
ctlVars == <<pc, then, todo, req>>
userVars == <<out, perm, latest>>
vars == <<setup, memory, slot, data, lru, tlb, vm, toMap, gets, puts, wins, dirtyList,
          hasDirty, wbEpoch, epoch, pc, then, todo, req, out, perm, latest>>

Slots == 1..NSlots
Locs == Blocks \X Regions
NoSlot == 0
\* get_dummy_handler: epoch 0 is never waited for (its rank plays no role).
DummyHandler == [rank |-> 0, epoch |-> 0]
Modes == {"read", "write", "read_write"}

NoRequest == [blks |-> <<>>, mode |-> "read"]

LocsOf(blks) == UNION {{blks[i][1]} \X blks[i][2] : i \in DOMAIN blks}

\* What the program writes with a request.
WrittenBy(q) == IF q.mode = "read" THEN {} ELSE LocsOf(q.blks)

\* An unused cache_entry.
EmptySlot == [key |-> NoBlock, addr |-> NoBlock, mapped |-> NoBlock, ref |-> 0,
              wbe |-> 0, valid |-> {}, dirty |-> {}]

Init ==
  /\ setup \in DOMAIN Setups
  /\ memory = [l \in Locs |-> 0]
  /\ slot = [r \in Ranks |-> [s \in Slots |-> EmptySlot]]
  /\ data = [r \in Ranks |-> [s \in Slots |-> [x \in Regions |-> -1]]]
  /\ lru = [r \in Ranks |-> [i \in Slots |-> i]]
  /\ tlb = [r \in Ranks |-> {}]
  /\ vm = [r \in Ranks |-> [b \in Blocks |-> NoSlot]]
  /\ toMap = [r \in Ranks |-> <<>>]
  /\ gets = [r \in Ranks |-> {}]
  /\ puts = [r \in Ranks |-> {}]
  /\ wins = [r \in Ranks |-> FALSE]
  /\ dirtyList = [r \in Ranks |-> <<>>]
  /\ hasDirty = [r \in Ranks |-> FALSE]
  /\ wbEpoch = [r \in Ranks |-> 1]
  /\ epoch = [r \in Ranks |-> 1]
  /\ pc = [r \in Ranks |-> "idle"]
  /\ then = [r \in Ranks |-> "idle"]
  /\ todo = [r \in Ranks |-> <<>>]
  /\ req = [r \in Ranks |-> NoRequest]
  /\ out = [r \in Ranks |-> {}]
  /\ perm \in [Locs -> {[rank |-> r, h |-> DummyHandler, ok |-> TRUE] : r \in Ranks}]
  /\ latest = [l \in Locs |-> 0]

Goto(r, l) == pc' = [pc EXCEPT ![r] = l]

-----------------------------------------------------------------------------
(* RMA: an operation in flight takes effect.                                *)

GetArrives(r, s, x) ==
  /\ <<s, x>> \in gets[r]
  /\ data' = [data EXCEPT ![r][s][x] = memory[<<slot[r][s].addr, x>>]]
  /\ gets' = [gets EXCEPT ![r] = @ \ {<<s, x>>}]
  /\ UNCHANGED <<memory, puts, slot, lru, tlb, vm, toMap, wbVars, ctlVars, userVars>>

PutArrives(r, s, x) ==
  /\ <<s, x>> \in puts[r]
  /\ memory' = [memory EXCEPT ![<<slot[r][s].addr, x>>] = data[r][s][x]]
  /\ puts' = [puts EXCEPT ![r] = @ \ {<<s, x>>}]
  /\ UNCHANGED <<gets, cacheVars, wbVars, ctlVars, userVars>>

-----------------------------------------------------------------------------
(* checkout.                                                                *)

IsWritingBack(r, s) == slot[r][s].wbe = wbEpoch[r]

IsEvictable(r, s) ==
  slot[r][s].ref = 0 /\ slot[r][s].dirty = {} /\ ~IsWritingBack(r, s)

SlotOf(r, b) == {s \in Slots : slot[r][s].key = b}

\* get_empty_slot: the first slot in LRU order that is free or evictable.
EmptySlots(r) ==
  {i \in Slots : slot[r][lru[r][i]].key = NoBlock \/ IsEvictable(r, lru[r][i])}

FirstEmpty(r) == lru[r][CHOOSE i \in EmptySlots(r) : \A j \in EmptySlots(r) : i <= j]

\* move_to_back_lru.
ToBack(s, seq) ==
  LET n == Len(seq)
      k == CHOOSE i \in 1..n : seq[i] = s
  IN [i \in 1..n |-> IF i < k THEN seq[i] ELSE IF i < n THEN seq[i + 1] ELSE s]

\* The padding of a fetch to whole sub-blocks.
PadFetchRegion(X) == UNION {S \in SubBlocks : S \cap X # {}}

\* Mutant: fetches the whole padded region, over what is dirty in it.
FetchRegionsAll(c, X) == IF X \subseteq c.valid THEN {} ELSE PadFetchRegion(X)

\* fetch_begin: nothing if X is valid, else the invalid part of the padded X.
FetchRegions(c, X) == IF X \subseteq c.valid THEN {} ELSE PadFetchRegion(X) \ c.valid

\* Make X valid in cache block c of slot s, by fetching it or, in write mode,
\* just so, and pin the block.
Pin(r, s, X, mode, c) ==
  LET fetch == IF mode = "write" THEN {} ELSE FetchRegions(c, X) IN
  /\ slot' = [slot EXCEPT ![r][s] = [c EXCEPT !.valid = @ \cup X \cup fetch, !.ref = @ + 1]]
  /\ gets' = [gets EXCEPT ![r] = @ \cup ({s} \X fetch)]

\* checkout_blk once get_entry has returned slot s for block b.
Attach(r, s, b, X, mode, c) ==
  LET remap == b # c.mapped IN
  /\ Pin(r, s, X, mode, [c EXCEPT !.key = b, !.addr = IF remap THEN b ELSE @])
  /\ toMap' = IF remap THEN [toMap EXCEPT ![r] = Append(@, s)] ELSE toMap
  /\ lru' = [lru EXCEPT ![r] = ToBack(s, @)]
  /\ todo' = [todo EXCEPT ![r] = Tail(@)]
  /\ then' = [then EXCEPT ![r] = "idle"]
  /\ UNCHANGED <<memory, puts, data, vm, wbVars, pc, req, userVars>>

\* A call of checkout_nb by the program, which must have acquired the locations
\* and not use those it has checked out for writing.
CheckoutCall(r, blks, mode) ==
  LET q == [blks |-> blks, mode |-> mode] IN
  /\ pc[r] = "idle"
  /\ Cardinality(out[r]) < MaxOut
  /\ \A l \in LocsOf(blks) : perm[l].rank = r /\ perm[l].ok
  /\ \A o \in out[r] : /\ WrittenBy(o) \cap LocsOf(blks) = {}
                       /\ WrittenBy(q) \cap LocsOf(o.blks) = {}
                       /\ o # q
  /\ \A l \in WrittenBy(q) : latest[l] < MaxWrites[l]
  /\ req' = [req EXCEPT ![r] = q]
  /\ todo' = [todo EXCEPT ![r] = blks]
  /\ then' = [then EXCEPT ![r] = "idle"]
  /\ Goto(r, "checkout")
  /\ UNCHANGED <<rmaVars, cacheVars, wbVars, userVars>>

\* tlb::get.  The TLB holds three entries and forgets the least recently used;
\* here it may also miss an entry it still holds.
TlbGet(r, b) == {s \in Slots : <<b, s>> \in tlb[r]}

\* checkout_fast: a request within one block that the TLB knows.
CheckoutFast(r) ==
  LET b == todo[r][1][1]  X == todo[r][1][2] IN
  /\ pc[r] = "checkout" /\ todo[r] # <<>>
  /\ Len(req[r].blks) = 1
  /\ \E s \in TlbGet(r, b) : Pin(r, s, X, req[r].mode, slot[r][s])
  /\ todo' = [todo EXCEPT ![r] = Tail(@)]
  /\ UNCHANGED <<memory, puts, data, lru, tlb, vm, toMap, wbVars, pc, then, req, userVars>>

\* checkout_blk of a block that is in the cache.
CheckoutHit(r) ==
  LET b == todo[r][1][1]  X == todo[r][1][2] IN
  /\ pc[r] = "checkout" /\ todo[r] # <<>>
  /\ \E s \in SlotOf(r, b) :
       /\ Attach(r, s, b, X, req[r].mode, slot[r][s])
       /\ tlb' = [tlb EXCEPT ![r] = @ \cup {<<b, s>>}]

\* checkout_blk of a block that is not: the slot is evicted if it is in use,
\* which also clears the TLB.
CheckoutMiss(r) ==
  LET b == todo[r][1][1]  X == todo[r][1][2]  s == FirstEmpty(r) IN
  /\ pc[r] = "checkout" /\ todo[r] # <<>>
  /\ SlotOf(r, b) = {}
  /\ EmptySlots(r) # {}
  /\ Attach(r, s, b, X, req[r].mode, [slot[r][s] EXCEPT !.valid = {}])
  /\ tlb' = [tlb EXCEPT ![r] = (IF slot[r][s].key = NoBlock THEN @ ELSE {})
                               \cup {<<b, s>>}]

\* cache_full_exception: everything dirty is written back, then one more try.
CheckoutFull(r) ==
  /\ pc[r] = "checkout" /\ todo[r] # <<>>
  /\ SlotOf(r, todo[r][1][1]) = {}
  /\ EmptySlots(r) = {}
  /\ then[r] # "checkout"
  /\ then' = [then EXCEPT ![r] = "checkout"]
  /\ Goto(r, "writeback")
  /\ UNCHANGED <<rmaVars, cacheVars, wbVars, todo, req, userVars>>

\* Mutant: get_entry gives up at the first cache_full_exception.
CheckoutDiesEarly(r) ==
  /\ pc[r] = "checkout" /\ todo[r] # <<>>
  /\ SlotOf(r, todo[r][1][1]) = {}
  /\ EmptySlots(r) = {}
  /\ Goto(r, "dead")
  /\ UNCHANGED <<rmaVars, cacheVars, wbVars, then, todo, req, userVars>>

\* The second cache_full_exception: "too much checked-out memory".
CheckoutDies(r) ==
  /\ pc[r] = "checkout" /\ todo[r] # <<>>
  /\ SlotOf(r, todo[r][1][1]) = {}
  /\ EmptySlots(r) = {}
  /\ then[r] = "checkout"
  /\ Goto(r, "dead")
  /\ UNCHANGED <<rmaVars, cacheVars, wbVars, then, todo, req, userVars>>

\* Mutant: maps all the blocks and then unmaps all their former addresses.
RemappedInTwoPasses(r) ==
  LET new(i) == slot[r][toMap[r][i]] IN
  [b \in Blocks |->
     IF \E i \in DOMAIN toMap[r] : new(i).mapped = b THEN NoSlot
     ELSE IF \E i \in DOMAIN toMap[r] : new(i).addr = b
     THEN toMap[r][CHOOSE i \in DOMAIN toMap[r] : new(i).addr = b]
     ELSE vm[r][b]]

\* update_mapping of the blocks in toMap, one after the other (each once: a
\* checkout completes before the next one begins).  Each unmaps the addresses
\* where its slot was mapped and maps it anew, so what is mapped at b in the end
\* is up to the last update that concerns b.
Remapped(r) ==
  LET new(i) == slot[r][toMap[r][i]]
      updates(b) == {i \in DOMAIN toMap[r] : new(i).addr = b \/ new(i).mapped = b}
      last(b) == CHOOSE i \in updates(b) : \A j \in updates(b) : j <= i
  IN [b \in Blocks |->
        IF updates(b) = {} THEN vm[r][b]
        ELSE IF new(last(b)).addr = b THEN toMap[r][last(b)]
        ELSE NoSlot]

\* checkout_complete: map, then flush the gets.
CheckoutComplete(r) ==
  /\ pc[r] = "checkout" /\ todo[r] = <<>>
  /\ gets[r] = {}
  /\ vm' = [vm EXCEPT ![r] = Remapped(r)]
  /\ slot' = [slot EXCEPT ![r] =
                [s \in Slots |-> IF \E i \in DOMAIN toMap[r] : toMap[r][i] = s
                                 THEN [slot[r][s] EXCEPT !.mapped = slot[r][s].addr]
                                 ELSE slot[r][s]]]
  /\ toMap' = [toMap EXCEPT ![r] = <<>>]
  /\ out' = [out EXCEPT ![r] = @ \cup {req[r]}]
  /\ req' = [req EXCEPT ![r] = NoRequest]
  /\ then' = [then EXCEPT ![r] = "idle"]
  /\ Goto(r, "idle")
  /\ UNCHANGED <<rmaVars, data, lru, tlb, wbVars, todo, perm, latest>>
-----------------------------------------------------------------------------
(* checkin.                                                                 *)

\* The program has written to what it checked out for writing, through the
\* mapped addresses, and calls checkin.
CheckinCall(r, q) ==
  LET written == WrittenBy(q)
      version(l) == latest[l] + 1
  IN /\ pc[r] = "idle"
     /\ q \in out[r]
     /\ latest' = [l \in Locs |-> IF l \in written THEN version(l) ELSE latest[l]]
     /\ data' = [data EXCEPT ![r] =
                   [s \in Slots |-> [x \in Regions |->
                      LET L == {l \in written : l[2] = x /\ vm[r][l[1]] = s}
                      IN IF L = {} THEN data[r][s][x] ELSE version(CHOOSE l \in L : TRUE)]]]
     /\ out' = [out EXCEPT ![r] = @ \ {q}]
     /\ req' = [req EXCEPT ![r] = q]
     /\ todo' = [todo EXCEPT ![r] = q.blks]
     /\ Goto(r, "checkin")
     /\ UNCHANGED <<rmaVars, slot, lru, tlb, vm, toMap, wbVars, then, perm>>

\* checkin_fast and checkin_blk: add_dirty_region unless the mode is read, and
\* unpin.  A block that becomes dirty joins the list, and a list that becomes
\* too long starts a writeback (not completed).
CheckinBlk(r) ==
  LET b == todo[r][1][1]
      X == IF req[r].mode = "read" THEN {} ELSE todo[r][1][2]
  IN /\ pc[r] = "checkin" /\ todo[r] # <<>>
     /\ \E s \in SlotOf(r, b) \cup (IF Len(req[r].blks) = 1 THEN TlbGet(r, b) ELSE {}) :
          LET newDirty == X # {} /\ slot[r][s].dirty = {} IN
          /\ slot' = [slot EXCEPT ![r][s].dirty = @ \cup X, ![r][s].ref = @ - 1]
          /\ dirtyList' = IF newDirty THEN [dirtyList EXCEPT ![r] = Append(@, s)]
                          ELSE dirtyList
          /\ hasDirty' = IF newDirty THEN [hasDirty EXCEPT ![r] = TRUE] ELSE hasDirty
          /\ IF newDirty /\ Len(dirtyList[r]) + 1 >= MaxDirty
             THEN Goto(r, "writeback") /\ then' = [then EXCEPT ![r] = "checkin"]
             ELSE UNCHANGED <<pc, then>>
     /\ todo' = [todo EXCEPT ![r] = Tail(@)]
     /\ UNCHANGED <<rmaVars, data, lru, tlb, vm, toMap, wins, wbEpoch, epoch, req, userVars>>

CheckinReturns(r) ==
  /\ pc[r] = "checkin" /\ todo[r] = <<>>
  /\ req' = [req EXCEPT ![r] = NoRequest]
  /\ then' = [then EXCEPT ![r] = "idle"]
  /\ Goto(r, "idle")
  /\ UNCHANGED <<rmaVars, cacheVars, wbVars, todo, userVars>>

-----------------------------------------------------------------------------
(* Writeback.                                                               *)

\* The first block of the list that is still dirty.
PendingDirty(r) == {i \in DOMAIN dirtyList[r] : slot[r][dirtyList[r][i]].dirty # {}}

FirstDirty(r) ==
  dirtyList[r][CHOOSE i \in PendingDirty(r) : \A j \in PendingDirty(r) : i <= j]

\* writeback_begin(cb): put its dirty regions.
WritebackBlk(r) ==
  LET s == FirstDirty(r) IN
  /\ pc[r] = "writeback" /\ PendingDirty(r) # {}
  /\ ~IsWritingBack(r, s)
  /\ puts' = [puts EXCEPT ![r] = @ \cup ({s} \X slot[r][s].dirty)]
  /\ slot' = [slot EXCEPT ![r][s].dirty = {}, ![r][s].wbe = wbEpoch[r]]
  /\ wins' = [wins EXCEPT ![r] = TRUE]
  /\ UNCHANGED <<memory, gets, data, lru, tlb, vm, toMap, dirtyList, hasDirty,
                 wbEpoch, epoch, ctlVars, userVars>>

\* writeback_begin(cb) of a block whose put is in flight first completes the
\* writebacks begun so far; the list is not empty, so the epoch stays.
WritebackOverlap(r) ==
  /\ pc[r] = "writeback" /\ PendingDirty(r) # {}
  /\ IsWritingBack(r, FirstDirty(r))
  /\ puts[r] = {}
  /\ wins' = [wins EXCEPT ![r] = FALSE]
  /\ wbEpoch' = [wbEpoch EXCEPT ![r] = @ + 1]
  /\ UNCHANGED <<rmaVars, cacheVars, dirtyList, hasDirty, epoch, ctlVars, userVars>>

\* Mutant: has_dirty_cache_ is reset when the puts have been issued.
WritebackBegunIsClean(r) ==
  /\ pc[r] = "writeback" /\ PendingDirty(r) = {}
  /\ dirtyList' = [dirtyList EXCEPT ![r] = <<>>]
  /\ hasDirty' = [hasDirty EXCEPT ![r] = FALSE]
  /\ Goto(r, IF then[r] = "checkin" THEN "checkin" ELSE "flush")
  /\ UNCHANGED <<rmaVars, cacheVars, wins, wbEpoch, epoch, then, todo, req, userVars>>

\* The end of writeback_begin: back to checkin, or on to writeback_complete.
WritebackBegun(r) ==
  /\ pc[r] = "writeback" /\ PendingDirty(r) = {}
  /\ dirtyList' = [dirtyList EXCEPT ![r] = <<>>]
  /\ Goto(r, IF then[r] = "checkin" THEN "checkin" ELSE "flush")
  /\ UNCHANGED <<rmaVars, cacheVars, wins, hasDirty, wbEpoch, epoch,
                 then, todo, req, userVars>>

\* writeback_complete: flush, then the next release epoch if all is clean.
WritebackComplete(r) ==
  /\ pc[r] = "flush"
  /\ puts[r] = {}
  /\ wins' = [wins EXCEPT ![r] = FALSE]
  /\ wbEpoch' = [wbEpoch EXCEPT ![r] = IF wins[r] THEN @ + 1 ELSE @]
  /\ LET clean == dirtyList[r] = <<>> /\ hasDirty[r] IN
     /\ hasDirty' = [hasDirty EXCEPT ![r] = IF clean THEN FALSE ELSE @]
     /\ epoch' = [epoch EXCEPT ![r] = IF clean THEN @ + 1 ELSE @]
  /\ Goto(r, then[r])
  /\ UNCHANGED <<rmaVars, cacheVars, dirtyList, then, todo, req, userVars>>

-----------------------------------------------------------------------------
(* Fences, and the program's transfer of a location to another rank.        *)

\* release, and the poll that finds a release requested.
ReleaseCall(r) ==
  /\ pc[r] = "idle"
  /\ then' = [then EXCEPT ![r] = "idle"]
  /\ Goto(r, "writeback")
  /\ UNCHANGED <<rmaVars, cacheVars, wbVars, todo, req, userVars>>

\* release_lazy's handler.
ReleaseLazy(r) ==
  IF hasDirty[r] THEN [rank |-> r, epoch |-> epoch[r] + 1] ELSE DummyHandler

\* The program hands l over with a release handler.
Give(r, q, l) ==
  /\ pc[r] = "idle" /\ r # q
  /\ perm[l].rank = r /\ perm[l].ok
  /\ \A o \in out[r] : l \notin LocsOf(o.blks)
  /\ perm' = [perm EXCEPT ![l] = [rank |-> q, h |-> ReleaseLazy(r), ok |-> FALSE]]
  /\ UNCHANGED <<rmaVars, cacheVars, wbVars, ctlVars, out, latest>>

\* acquire(rh), called with nothing checked out.
AcquireCall(r, l) ==
  /\ pc[r] = "idle"
  /\ out[r] = {}
  /\ perm[l].rank = r /\ ~perm[l].ok
  /\ req' = [req EXCEPT ![r] = [blks |-> <<<<l[1], {l[2]}>>>>, mode |-> "read"]]
  /\ then' = [then EXCEPT ![r] = "acquire"]
  /\ Goto(r, "writeback")
  /\ UNCHANGED <<rmaVars, cacheVars, wbVars, todo, userVars>>

\* ensure_released has returned; invalidate_all.
AcquireInvalidate(r) ==
  LET l == <<req[r].blks[1][1], CHOOSE x \in req[r].blks[1][2] : TRUE>>
      h == perm[l].h
  IN /\ pc[r] = "acquire"
     /\ h.epoch > 0 /\ h.rank # r => epoch[h.rank] >= h.epoch
     /\ slot' = [slot EXCEPT ![r] =
                   [s \in Slots |-> [slot[r][s] EXCEPT !.valid = {}]]]
     /\ perm' = [perm EXCEPT ![l].h = DummyHandler, ![l].ok = TRUE]
     /\ req' = [req EXCEPT ![r] = NoRequest]
     /\ then' = [then EXCEPT ![r] = "idle"]
     /\ Goto(r, "idle")
     /\ UNCHANGED <<rmaVars, data, lru, tlb, vm, toMap, wbVars, todo, out, latest>>

RankStep(r) ==
  \/ CheckoutFast(r) \/ CheckoutHit(r) \/ CheckoutMiss(r) \/ CheckoutFull(r)
  \/ CheckoutDies(r) \/ CheckoutComplete(r)
  \/ CheckinBlk(r) \/ CheckinReturns(r)
  \/ WritebackBlk(r) \/ WritebackOverlap(r) \/ WritebackBegun(r) \/ WritebackComplete(r)
  \/ AcquireInvalidate(r)
  \/ \E s \in Slots, x \in Regions : GetArrives(r, s, x) \/ PutArrives(r, s, x)

\* common::die has ended the process.
Died ==
  /\ \E r \in Ranks : pc[r] = "dead"
  /\ UNCHANGED vars

Acts ==
  \E r \in Ranks :
    \/ \E blks \in Requests, mode \in Modes : CheckoutCall(r, blks, mode)
    \/ \E q \in out[r] : CheckinCall(r, q)
    \/ ReleaseCall(r)
    \/ \E q \in Ranks, l \in Locs : Give(r, q, l)
    \/ \E l \in Locs : AcquireCall(r, l)
    \/ RankStep(r)

Next == (Acts /\ UNCHANGED setup) \/ Died

Spec == Init /\ [][Next]_vars

-----------------------------------------------------------------------------
(* Properties.                                                              *)

\* The cached copy that the program reads through the mapped addresses.
Cached(r, l) == data[r][vm[r][l[1]]][l[2]]

\* Coherence: what the program reads in a completed checkout is what was last
\* written, by whichever rank, although caches are written back late, fetched
\* in padded pieces, evicted, and only invalidated by acquire.
ReadsSeeLatest ==
  \A r \in Ranks : \A q \in out[r] : q.mode # "write" =>
    \A l \in LocsOf(q.blks) :
      vm[r][l[1]] # NoSlot /\ Cached(r, l) = latest[l]

\* The mapping: while a block is checked out its addresses map to the slot that
\* holds it, and no two slots hold the same block.
PinnedIsMapped ==
  \A r \in Ranks :
    /\ \A q \in out[r] : \A i \in DOMAIN q.blks :
         LET s == vm[r][q.blks[i][1]]
         IN s # NoSlot /\ slot[r][s].key = q.blks[i][1] /\ slot[r][s].ref > 0
    /\ \A s, t \in Slots : slot[r][s].key = slot[r][t].key =>
         s = t \/ slot[r][s].key = NoBlock

\* get_entry gives up only when every block is checked out.
DiesOnlyWhenPinned ==
  \A r \in Ranks : pc[r] = "dead" => \A s \in Slots : slot[r][s].ref > 0

\* A put in flight belongs to a block that is marked as being written back (so
\* it can neither be evicted nor be put again before the flush), a get in flight
\* never overwrites bytes that are dirty or on their way home, and nothing is
\* dirty, being written back or checked out when acquire throws the cache away
\* (the ITYR_CHECKs of invalidate).
TransfersSafe ==
  \A r \in Ranks :
    /\ \A p \in puts[r] : IsWritingBack(r, p[1]) /\ wins[r]
    /\ \A g \in gets[r] : g[2] \notin slot[r][g[1]].dirty /\ g \notin puts[r]
    /\ pc[r] = "acquire" => \A s \in Slots : IsEvictable(r, s)
=============================================================================
