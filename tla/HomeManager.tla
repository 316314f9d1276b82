----------------------------- MODULE HomeManager -----------------------------
(***************************************************************************)
(* home_manager (include/ityr/ori/home_manager.hpp) of one rank: which     *)
(* home segments are mapped at their global addresses.  The number of      *)
(* mappings is limited, so the entries are kept in a cache_system, with a  *)
(* TLB in front; core drives it with checkout, checkin, get/put (which do  *)
(* not count references within one block) and free_coll.                   *)
(*                                                                         *)
(* Segments are numbered; a collective allocation is a set of them, and a  *)
(* request of the program is a sequence of neighbouring segments.          *)
(***************************************************************************)
EXTENDS Integers, Sequences, FiniteSets

CONSTANTS
  Mems,             \* collective allocations, as sets of segments
  CheckoutRequests, \* sequences of segments the program may check out at once
  NEntries,         \* mmap_entry_limit_
  MaxOut            \* bound: how often a request is checked out at a time

\* malloc_coll requires a size greater than 0, and allocations do not overlap; a
\* request is a range of addresses within one of them, cut into segments.
ASSUME HomeAssumption ==
  /\ NEntries \in Nat \ {0} /\ MaxOut \in Nat
  /\ UNION Mems \subseteq Nat \ {0} /\ {} \notin Mems
  /\ \A m, o \in Mems : m # o => m \cap o = {}
  /\ IsFiniteSet(CheckoutRequests)
  /\ \A q \in CheckoutRequests :
       /\ q \in Seq(UNION Mems) /\ q # <<>>
       /\ \E m \in Mems : \A i \in DOMAIN q : q[i] \in m
       /\ \A i, j \in DOMAIN q : q[i] = q[j] => i = j

VARIABLES
  slot,      \* slot[s]: a cache_entry with its mmap_entry
  lru,       \* lru_: slots, oldest first
  tlb,       \* home_tlb_: set of <<segment, slot>>
  toMap,     \* home_segments_to_map_
  vm,        \* the segments whose home memory is mapped at their address
  alive,     \* the allocations that exist
  out,       \* out[q]: how often request q is checked out
  op,        \* the call in progress and the segments it has still to handle
  dead       \* die() was called

vars == <<slot, lru, tlb, toMap, vm, alive, out, op, dead>>

Slots == 1..NEntries
Segs == UNION Mems
NoSeg == 0
EmptyEntry == [key |-> NoSeg, addr |-> NoSeg, mapped |-> NoSeg, ref |-> 0]
Idle == [name |-> "idle", req |-> <<>>, todo |-> <<>>, ref |-> FALSE]
MemOf(seg) == CHOOSE m \in Mems : seg \in m

Init ==
  /\ slot = [s \in Slots |-> EmptyEntry]
  /\ lru = [i \in Slots |-> i]
  /\ tlb = {}
  /\ toMap = <<>>
  /\ vm = {}
  /\ alive = {}
  /\ out = [q \in CheckoutRequests |-> 0]
  /\ op = Idle
  /\ dead = FALSE

-----------------------------------------------------------------------------
(* cache_system and tlb.                                                    *)

IsEvictable(s) == slot[s].ref = 0

SlotOf(seg) == {s \in Slots : slot[s].key = seg}

\* get_empty_slot: the first slot in LRU order that is free or evictable.
EmptySlots == {i \in Slots : slot[lru[i]].key = NoSeg \/ IsEvictable(lru[i])}
FirstEmpty == lru[CHOOSE i \in EmptySlots : \A j \in EmptySlots : i <= j]

\* move_to_back_lru.
ToBack(s) ==
  LET k == CHOOSE i \in Slots : lru[i] = s
  IN [i \in Slots |-> IF i < k THEN lru[i] ELSE IF i < NEntries THEN lru[i + 1] ELSE s]

\* tlb::get.  The TLB holds three entries and forgets the least recently used;
\* here it may also miss an entry it still holds.
TlbGet(seg) == {s \in Slots : <<seg, s>> \in tlb}

\* tlb::add.
TlbAdd(t, seg, s) == t \cup {<<seg, s>>}

-----------------------------------------------------------------------------
(* checkout_nb, get and put: the home segments of a request one by one.     *)

\* A call: counting references (checkout, and get/put across blocks) or not
\* (get/put within one block, so within one segment).
CheckoutCall(q, ref) ==
  /\ ~dead /\ op = Idle
  /\ MemOf(q[1]) \in alive
  /\ IF ref THEN out[q] < MaxOut ELSE Len(q) = 1
  /\ op' = [name |-> "checkout", req |-> q, todo |-> q, ref |-> ref]
  /\ UNCHANGED <<slot, lru, tlb, toMap, vm, alive, out, dead>>

\* checkout_fast: a request within one segment that the TLB knows.
CheckoutFast ==
  /\ op.name = "checkout" /\ Len(op.req) = 1 /\ op.todo # <<>>
  /\ \E s \in TlbGet(op.req[1]) :
       slot' = [slot EXCEPT ![s].ref = IF op.ref THEN @ + 1 ELSE @]
  /\ op' = [op EXCEPT !.todo = <<>>]
  /\ UNCHANGED <<lru, tlb, toMap, vm, alive, out, dead>>

\* checkout_seg once get_entry has returned slot s with entry e: an entry that
\* is not mapped at the segment is queued for mapping.
Attach(s, e) ==
  LET seg   == Head(op.todo)
      remap == seg # e.mapped IN
  /\ slot' = [slot EXCEPT ![s] = [e EXCEPT !.key = seg,
                                           !.addr = IF remap THEN seg ELSE @,
                                           !.ref = IF op.ref THEN @ + 1 ELSE @]]
  /\ toMap' = IF remap THEN Append(toMap, s) ELSE toMap
  /\ lru' = ToBack(s)
  /\ op' = [op EXCEPT !.todo = Tail(@)]
  /\ UNCHANGED <<vm, alive, out, dead>>

\* checkout_seg of a segment in the table.
CheckoutHit ==
  /\ op.name = "checkout" /\ op.todo # <<>>
  /\ \E s \in SlotOf(Head(op.todo)) :
       /\ Attach(s, slot[s])
       /\ tlb' = TlbAdd(tlb, Head(op.todo), s)

\* Mutant: on_evict leaves the TLB as it is.
CheckoutMissKeepsTlb ==
  /\ op.name = "checkout" /\ op.todo # <<>>
  /\ SlotOf(Head(op.todo)) = {} /\ EmptySlots # {}
  /\ Attach(FirstEmpty, slot[FirstEmpty])
  /\ tlb' = TlbAdd(tlb, Head(op.todo), FirstEmpty)

\* checkout_seg of another segment: a slot is evicted, which clears the TLB.
CheckoutMiss ==
  /\ op.name = "checkout" /\ op.todo # <<>>
  /\ SlotOf(Head(op.todo)) = {} /\ EmptySlots # {}
  /\ Attach(FirstEmpty, slot[FirstEmpty])
  /\ tlb' = TlbAdd(IF slot[FirstEmpty].key = NoSeg THEN tlb ELSE {}, Head(op.todo), FirstEmpty)

\* get_entry dies when no slot can be had.
CheckoutDies ==
  /\ op.name = "checkout" /\ op.todo # <<>>
  /\ SlotOf(Head(op.todo)) = {} /\ EmptySlots = {}
  /\ dead' = TRUE
  /\ op' = Idle
  /\ UNCHANGED <<slot, lru, tlb, toMap, vm, alive, out>>

\* checkout_nb returns; get and put go on to checkout_complete.
CheckoutReturns ==
  /\ op.name = "checkout" /\ op.todo = <<>>
  /\ IF op.ref THEN /\ out' = [out EXCEPT ![op.req] = @ + 1]
                    /\ op' = Idle
               ELSE /\ op' = [op EXCEPT !.name = "complete"]
                    /\ UNCHANGED out
  /\ UNCHANGED <<slot, lru, tlb, toMap, vm, alive, dead>>

\* Mutant: all unmappings come after the mappings.
UpdateMappingsUnmapLast(V) ==
  (V \cup {slot[toMap[i]].addr : i \in DOMAIN toMap})
     \ {slot[toMap[i]].mapped : i \in DOMAIN toMap}

\* update_mapping of the queued entries in their order: the old segment of an
\* entry is unmapped, then the new one is mapped.  An entry that is queued
\* twice has its new segment as the old one the second time.  A segment ends up
\* mapped when a mapping is the last that is done to it.
IsQueuedBefore(i) == \E j \in 1..(i - 1) : toMap[j] = toMap[i]
OldSegment(i) == IF IsQueuedBefore(i) THEN slot[toMap[i]].addr ELSE slot[toMap[i]].mapped
MapsOf(seg) == {i \in DOMAIN toMap : slot[toMap[i]].addr = seg}
UnmapsOf(seg) == {i \in DOMAIN toMap : OldSegment(i) = seg}

UpdateMappings(V) ==
  {seg \in Segs : IF MapsOf(seg) = {} THEN seg \in V /\ UnmapsOf(seg) = {}
                  ELSE \E i \in MapsOf(seg) : \A j \in UnmapsOf(seg) : j <= i}

\* checkout_complete, called by the program after checkout_nb or by get/put,
\* whose copy then uses the mapping.
CheckoutComplete ==
  /\ ~dead
  /\ op.name = "complete" \/ (op = Idle /\ toMap # <<>>)
  /\ vm' = UpdateMappings(vm)
  /\ slot' = [s \in Slots |-> IF \E i \in DOMAIN toMap : toMap[i] = s
                              THEN [slot[s] EXCEPT !.mapped = slot[s].addr]
                              ELSE slot[s]]
  /\ toMap' = <<>>
  /\ op' = IF op = Idle THEN Idle ELSE [op EXCEPT !.name = "copy"]
  /\ UNCHANGED <<lru, tlb, alive, out, dead>>

\* The copy of get and put; their checkin changes nothing here.
Copy ==
  /\ op.name = "copy"
  /\ op' = Idle
  /\ UNCHANGED <<slot, lru, tlb, toMap, vm, alive, out, dead>>

-----------------------------------------------------------------------------
(* checkin.                                                                 *)

\* The program checks in what it has checked out, after checkout_complete.
CheckinCall(q) ==
  /\ ~dead /\ op = Idle /\ toMap = <<>>
  /\ out[q] > 0
  /\ out' = [out EXCEPT ![q] = @ - 1]
  /\ op' = [name |-> "checkin", req |-> q, todo |-> q, ref |-> TRUE]
  /\ UNCHANGED <<slot, lru, tlb, toMap, vm, alive, dead>>

Unref(s) == slot' = [slot EXCEPT ![s].ref = @ - 1]

\* checkin_fast for a request within one segment, else checkin_seg of the next.
CheckinStep ==
  /\ op.name = "checkin" /\ op.todo # <<>>
  /\ \E s \in SlotOf(Head(op.todo)) \cup
              (IF Len(op.req) = 1 THEN TlbGet(Head(op.todo)) ELSE {}) : Unref(s)
  /\ op' = [op EXCEPT !.todo = Tail(@)]
  /\ UNCHANGED <<lru, tlb, toMap, vm, alive, out, dead>>

CheckinReturns ==
  /\ op.name = "checkin" /\ op.todo = <<>>
  /\ op' = Idle
  /\ UNCHANGED <<slot, lru, tlb, toMap, vm, alive, out, dead>>

-----------------------------------------------------------------------------
(* Collective allocation.                                                   *)

MallocColl(m) ==
  /\ ~dead /\ op = Idle /\ m \notin alive
  /\ alive' = alive \cup {m}
  /\ UNCHANGED <<slot, lru, tlb, toMap, vm, out, op, dead>>

\* free_coll: ensure_evicted of every block of the allocation, then its virtual
\* memory goes.  The program has checked in everything and completed its
\* checkouts.
FreeColl(m) ==
  LET gone == {s \in Slots : slot[s].key \in m} IN
  /\ ~dead /\ op = Idle /\ toMap = <<>> /\ m \in alive
  /\ \A q \in CheckoutRequests : q[1] \in m => out[q] = 0
  /\ slot' = [s \in Slots |-> IF s \in gone THEN EmptyEntry ELSE slot[s]]
  /\ tlb' = IF gone = {} THEN tlb ELSE {}
  /\ vm' = vm \ m
  /\ alive' = alive \ {m}
  /\ UNCHANGED <<lru, toMap, out, op, dead>>

HomeStep ==
  \/ \E q \in CheckoutRequests : CheckinCall(q) \/ \E ref \in BOOLEAN : CheckoutCall(q, ref)
  \/ CheckoutFast \/ CheckoutHit \/ CheckoutMiss \/ CheckoutDies \/ CheckoutReturns
  \/ CheckoutComplete \/ Copy
  \/ CheckinStep \/ CheckinReturns

Next == HomeStep \/ \E m \in Mems : MallocColl(m) \/ FreeColl(m)

Spec == Init /\ [][Next]_vars

-----------------------------------------------------------------------------
\* Whatever the program uses is mapped: the segments it has checked out, once
\* their mapping is not queued any more, and the segment a get or put copies.
UsedIsMapped ==
  ~dead =>
  /\ \A q \in CheckoutRequests : out[q] > 0 /\ toMap = <<>> => \A i \in DOMAIN q : q[i] \in vm
  /\ op.name = "copy" => op.req[1] \in vm

\* The checkouts that use a segment.
UsersOf(seg) ==
  {u \in CheckoutRequests \X (1..MaxOut) : u[2] <= out[u[1]] /\ \E i \in DOMAIN u[1] : u[1][i] = seg}
CheckoutsOf(seg) == Cardinality(UsersOf(seg))

\* Every entry counts exactly the checkouts that use its segment, whichever of
\* the fast and slow paths they and their checkins took.
RefsMatch ==
  op = Idle /\ ~dead =>
    \A seg \in Segs :
      IF SlotOf(seg) = {} THEN CheckoutsOf(seg) = 0
      ELSE \A s \in SlotOf(seg) : slot[s].ref = CheckoutsOf(seg)

\* on_evict's ITYR_CHECK(mapped_addr == addr): an entry that waits for its
\* mapping is never the one that is evicted.
EvictCheckHolds ==
  op.name = "checkout" /\ op.todo # <<>> /\ EmptySlots # {} =>
    \/ SlotOf(Head(op.todo)) # {}
    \/ slot[FirstEmpty].key = NoSeg
    \/ slot[FirstEmpty].mapped = slot[FirstEmpty].addr

\* There are never more mappings than entries, and each belongs to the entry
\* that will unmap it.
MappingsBounded ==
  toMap = <<>> => /\ vm = {slot[s].mapped : s \in Slots} \ {NoSeg}
                  /\ Cardinality(vm) <= NEntries
                  /\ vm \subseteq UNION alive

\* The entries agree with the program's checkouts and with the kernel's
\* mappings: no entry is evicted under a user or while it waits to be mapped,
\* none stays pinned, and nothing stays mapped behind a freed or evicted entry.
EntriesSound == RefsMatch /\ EvictCheckHolds /\ MappingsBounded
=============================================================================
