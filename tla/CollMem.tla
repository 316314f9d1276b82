------------------------------ MODULE CollMem ------------------------------
(***************************************************************************)
(* Collective allocations: malloc_coll and free_coll of core with          *)
(* coll_mem_manager and coll_mem (include/ityr/ori/), above the home       *)
(* manager of this rank (HomeManager).  All ranks reserve the same range   *)
(* of virtual addresses (reserve_same_vm_coll, common/virtual_mem.hpp):    *)
(* the leader reserves a range where its kernel likes, the others try the  *)
(* same one; when it is taken on some rank, the highest of these leads     *)
(* the next trial, for a range twice as large.                             *)
(*                                                                         *)
(* Addresses are counted in units of which VmPage make a page.  A rank's   *)
(* address space is its own, so what the ranks do between two collectives  *)
(* of MPI is not interleaved further than by their votes.                  *)
(***************************************************************************)
EXTENDS HomeManager, SequencesExt, FiniteSetsExt

CONSTANTS
  NRanks, VmPage, MapBlock,
  Space,        \* addresses are 0 .. Space-1
  Foreign,      \* Foreign[r]: the pages of rank r that something else has mapped
  MaxTrial,     \* max_trial
  MaxAllocs     \* bound: collective allocations

ASSUME CollMemAssumption ==
  /\ {NRanks, VmPage, MapBlock, Space} \subseteq Nat \ {0} /\ MaxTrial \in Nat
  /\ MapBlock % VmPage = 0 /\ Space % VmPage = 0
  /\ \A m \in Mems : IsFiniteSet(m)

VARIABLES
  pages,      \* pages[r]: the pages rank r has reserved
  call,       \* the allocation in progress, see StartReserve, or NoCall
  tried,      \* the addresses that the leaders of this call have broadcast
  collMems    \* coll_mems_, with coll_mem_ids_: by id, the allocation or NoMem

cmVars == <<pages, call, tried, collMems>>
allVars == <<vars, cmVars>>

Ranks == 0..(NRanks - 1)
NoCall == <<>>
NoVm == [addr |-> -1, size |-> 0]
NoMem == [mem |-> {}, addr |-> -1, size |-> 0]
RoundUpPow2(x, n) == ((x + n - 1) \div n) * n

\* The pages that hold the addresses from a to a + n.
PagesOf(a, n) == {p \in 0..(Space - 1) : p % VmPage = 0 /\ p + VmPage > a /\ p < a + n}
RangePages(v) == PagesOf(v.addr, v.size)

\* What is mapped on rank r, and whether it can have the range.
IsFree(r, a, n) == a >= 0 /\ RoundUpPow2(a + n, VmPage) <= Space /\ PagesOf(a, n) \cap (pages[r] \cup Foreign[r]) = {}

\* ~virtual_mem of a set of ranges.
Munmap(P, vms) == P \ UNION {RangePages(v) : v \in vms}

\* virtual_mem::shrink: the pages after the new end.
Shrunk(P, v, n) == P \ (RangePages(v) \ PagesOf(v.addr, RoundUpPow2(n, VmPage)))

\* mmap_no_physical_mem without an address: the kernel maps size + alignment
\* somewhere, and what lies before the aligned start and after the end goes.
FreshStarts(r, n) ==
  {RoundUpPow2(p, MapBlock) : p \in {q \in 0..(Space - 1) : q % VmPage = 0 /\ IsFree(r, q, n + MapBlock)}}

SizeOf(m) == Cardinality(m) * MapBlock

CollInit ==
  /\ Init
  /\ pages = [r \in Ranks |-> {}] /\ call = NoCall /\ tried = {} /\ collMems = <<>>

\* malloc_coll calls reserve_same_vm_coll, with rank 0 as the leader.
StartReserve(m) ==
  /\ ~dead /\ op = Idle /\ call = NoCall /\ m \notin alive /\ Len(collMems) < MaxAllocs
  /\ call' = [mem |-> m, leader |-> 0, size |-> RoundUpPow2(SizeOf(m), VmPage), trial |-> 0, addr |-> -1,
              vm |-> [r \in Ranks |-> NoVm], prev |-> [r \in Ranks |-> {}], voted |-> {}]
  /\ tried' = {}
  /\ UNCHANGED <<vars, pages, collMems>>

Reserved(r, a) ==
  /\ pages' = [pages EXCEPT ![r] = @ \cup PagesOf(a, call.size)]
  /\ call' = [call EXCEPT !.vm[r] = [addr |-> a, size |-> call.size], !.addr = a, !.voted = @ \cup {r}]

\* The leader reserves a range and broadcasts its address.
LeaderReserves ==
  /\ call # NoCall /\ ~dead /\ call.voted = {}
  /\ \E a \in FreshStarts(call.leader, call.size) :
       Reserved(call.leader, a) /\ tried' = tried \cup {a}
  /\ UNCHANGED <<vars, collMems>>

\* mmap fails when there is no such range, and the rank dies.
LeaderDies ==
  /\ call # NoCall /\ ~dead /\ call.voted = {}
  /\ FreshStarts(call.leader, call.size) = {}
  /\ dead' = TRUE
  /\ UNCHANGED <<slot, lru, tlb, toMap, vm, alive, out, op, cmVars>>

\* Mutant: the other ranks map with MAP_FIXED.
FollowerReservesReplaces(r) ==
  /\ call # NoCall /\ call.leader \in call.voted /\ r \notin call.voted
  /\ Reserved(r, call.addr)
  /\ UNCHANGED <<vars, tried, collMems>>

\* Another rank tries the same range with MAP_FIXED_NOREPLACE.
FollowerReserves(r) ==
  /\ call # NoCall /\ call.leader \in call.voted /\ r \notin call.voted
  /\ IF IsFree(r, call.addr, call.size) THEN Reserved(r, call.addr)
     ELSE /\ call' = [call EXCEPT !.voted = @ \cup {r}]
          /\ UNCHANGED pages
  /\ UNCHANGED <<vars, tried, collMems>>

\* The ranks that failed, once all have voted (mpi_allreduce_value).
AllVoted == call # NoCall /\ ~dead /\ call.voted = Ranks
Failed == {r \in Ranks : call.vm[r] = NoVm}

\* Nobody failed: the range is cut to its size, the ranges of earlier trials go
\* with prev_vms, and coll_mem_manager::create enters the allocation.
ReserveSucceeds ==
  /\ AllVoted /\ Failed = {}
  /\ pages' = [r \in Ranks |-> Munmap(Shrunk(pages[r], call.vm[r], SizeOf(call.mem)), call.prev[r])]
  /\ collMems' = Append(collMems, [mem |-> call.mem, addr |-> call.addr, size |-> SizeOf(call.mem)])
  /\ call' = NoCall /\ tried' = {}
  /\ MallocColl(call.mem)

\* Mutant: a range that did not suit all ranks is given back before the next trial.
ReserveRetriesAtOnce ==
  /\ AllVoted /\ Failed # {} /\ call.trial < MaxTrial
  /\ pages' = [r \in Ranks |-> Munmap(pages[r], {call.vm[r]})]
  /\ call' = [call EXCEPT !.leader = Max(Failed), !.size = 2 * @, !.trial = @ + 1,
                          !.voted = {}, !.vm = [r \in Ranks |-> NoVm]]
  /\ UNCHANGED <<vars, tried, collMems>>

\* Somebody failed: the others keep the range until the call returns.
ReserveRetries ==
  /\ AllVoted /\ Failed # {} /\ call.trial < MaxTrial
  /\ call' = [call EXCEPT !.leader = Max(Failed), !.size = 2 * @, !.trial = @ + 1,
                          !.prev = [r \in Ranks |-> IF r \in Failed THEN @[r] ELSE @[r] \cup {call.vm[r]}],
                          !.voted = {}, !.vm = [r \in Ranks |-> NoVm]]
  /\ UNCHANGED <<vars, pages, tried, collMems>>

\* die after max_trial trials.
ReserveDies ==
  /\ AllVoted /\ Failed # {} /\ call.trial = MaxTrial
  /\ dead' = TRUE
  /\ UNCHANGED <<slot, lru, tlb, toMap, vm, alive, out, op, cmVars>>

\* coll_mem_manager::get: the id of the allocation that has the address.
MemsAt(a) == {i \in DOMAIN collMems : collMems[i] # NoMem /\ collMems[i].addr <= a /\ a < collMems[i].addr + collMems[i].size}

\* coll_mem_manager::destroy and ~coll_mem on all ranks.
Destroy(m) ==
  LET c == CHOOSE i \in DOMAIN collMems : collMems[i].mem = m IN
  /\ collMems' = [collMems EXCEPT ![c] = NoMem]
  /\ pages' = [r \in Ranks |-> Munmap(pages[r], {[addr |-> collMems[c].addr, size |-> collMems[c].size]})]

\* free_coll.
FreeCollective(m) ==
  /\ call = NoCall
  /\ FreeColl(m)
  /\ Destroy(m)
  /\ UNCHANGED <<call, tried>>

CollNext ==
  \/ call = NoCall /\ HomeStep /\ UNCHANGED cmVars
  \/ \E m \in Mems : StartReserve(m) \/ FreeCollective(m)
  \/ LeaderReserves \/ LeaderDies \/ ReserveSucceeds \/ ReserveRetries \/ ReserveDies
  \/ \E r \in Ranks : FollowerReserves(r)

CollSpec == CollInit /\ [][CollNext]_allVars

-----------------------------------------------------------------------------
Live == {c \in Range(collMems) : c # NoMem}

\* Every allocation has the same aligned range on all ranks, reserved there in
\* full, free of what other code has mapped and found by each of its addresses;
\* and between calls the ranks have reserved nothing else: whatever trials it
\* took, no range is lost, cut short, leaked or unmapped under another.
AllocationsAgree ==
  /\ \A c \in Live :
       /\ c.addr % MapBlock = 0
       /\ \A a \in c.addr..(c.addr + c.size - 1) : {collMems[i] : i \in MemsAt(a)} = {c}
       /\ \A r \in Ranks : RangePages(c) \subseteq pages[r] \ Foreign[r]
  /\ {c.mem : c \in Live} = alive
  /\ call = NoCall => \A r \in Ranks : pages[r] = UNION {RangePages(c) : c \in Live}

\* "Defer the deallocation of previous virtual addresses to prevent the same
\* address from being allocated in the next turn" (virtual_mem.hpp:207): no
\* leader of a call tries an address that has failed in it before, neither in
\* the next turn nor later.
NoAddressTwice ==
  call # NoCall => Cardinality(tried) = call.trial + (IF call.voted = {} THEN 0 ELSE 1)
=============================================================================
