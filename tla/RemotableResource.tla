-------------------------- MODULE RemotableResource --------------------------
(***************************************************************************)
(* Memory that one rank allocates and other ranks may free:                *)
(* remotable_resource (include/ityr/common/allocator.hpp); noncoll_mem     *)
(* (include/ityr/ori/noncoll_mem.hpp) has the same protocol in a copy,     *)
(* above another heap.                                                     *)
(* The owner keeps a doubly linked list of the headers it has allocated.   *)
(* Another rank frees an object by a non-blocking put of the flag freed in *)
(* its header, flushed only now and then; the owner finds the flag when it *)
(* walks the list, or when it waits for one object.                        *)
(*                                                                         *)
(* This is the resource of one rank.  An object is known by the address of *)
(* its header, which precedes what the user sees.  The standard pool above *)
(* block_resource is external; it is one that passes requests and frees on *)
(* at once, as the pool does with objects above its largest pool.          *)
(***************************************************************************)
EXTENDS BlockResource, FiniteSets

CONSTANTS
  Others,         \* the other ranks
  HeaderSize,     \* sizeof(header)
  Requests,       \* <<bytes, alignment>> of the requests
  MaxObjects,     \* bound: objects allocated at a time
  MaxUnflushed,   \* max_unflushed_free_objs_
  FirstThreshold, \* the initial collect_threshold_
  ThresholdMax    \* collect_threshold_max_

\* real_bytes of do_allocate.
RealBytes(req) == req[1] + RoundUp(HeaderSize, req[2])

\* Alignments and the block size are powers of two, so that one divides the
\* other.
ASSUME RequestAssumption ==
  /\ HeaderSize \in Nat \ {0}
  /\ Requests \subseteq Nat \X (Nat \ {0})
  /\ \A q \in Requests : q[2] > BlockSize \/ BlockSize % q[2] = 0
\* What the check on a new block needs of the requests: one below the block
\* size also fits into a block after its start has been moved up to alignment.
ASSUME FitAssumption ==
  \A q \in Requests : RealBytes(q) >= BlockSize \/ RealBytes(q) + q[2] <= BlockSize
ASSUME LimitAssumption ==
  /\ MaxUnflushed \in Nat \ {0} /\ {FirstThreshold, ThresholdMax, MaxObjects} \subseteq Nat

VARIABLES
  heap,           \* the freelists of win_mr_ and block_mr_, or of root_mr_
  size, align,    \* what the headers say
  next, prev,     \* the links of the headers and of the list head
  end,            \* allocated_list_end_
  freed,          \* the flags in the headers
  allocated,      \* allocated_size_
  threshold,      \* collect_threshold_
  inflight,       \* inflight[r]: the flags rank r has put and not flushed
  count,          \* the static counter of remote_deallocate
  pc,             \* "idle", "collect", "await", and "dead" or "check" after a failure
  cursor,         \* the header the walk of a collection is at
  pending,        \* the request of the allocate that collects
  awaited,        \* objects that the owner waits for with is_remotely_freed
  live,           \* objects in use
  gone,           \* objects freed by another rank and not yet reclaimed
  due             \* objects whose flag was set when the collection began

listVars == <<heap, size, align, next, prev, end, freed, allocated>>
rmaVars == <<inflight, count>>
ctlVars == <<pc, cursor, pending, due>>
resVars == <<listVars, threshold, rmaVars, ctlVars, awaited, live, gone>>

Null == -1
ListHead == -2
Addrs == 0..(WinSize - 1)
NoRequest == <<>>

ResInit ==
  /\ heap \in {EmptyHeap, EmptyRoot}
  /\ size = [a \in Addrs |-> 0] /\ align = [a \in Addrs |-> 0]
  /\ next = [n \in Addrs \cup {ListHead} |-> Null]
  /\ prev = [n \in Addrs \cup {ListHead} |-> Null]
  /\ end = ListHead
  /\ freed = [a \in Addrs |-> 0]
  /\ allocated = 0
  /\ threshold = FirstThreshold
  /\ inflight = [r \in Others |-> {}]
  /\ count = [r \in Others |-> 0]
  /\ pc = "idle"
  /\ cursor = Null
  /\ pending = NoRequest
  /\ awaited = {}
  /\ live = {} /\ gone = {} /\ due = {}

\* The header of a new object, at the end of the list.
Link(h, bytes, alignment) ==
  /\ size' = [size EXCEPT ![h] = bytes] /\ align' = [align EXCEPT ![h] = alignment]
  /\ next' = [next EXCEPT ![h] = Null, ![end] = h]
  /\ prev' = [prev EXCEPT ![h] = end]
  /\ freed' = [freed EXCEPT ![h] = 0]
  /\ end' = h

\* do_allocate from the call of the pool on.
Take(req) ==
  LET bytes == RealBytes(req)
      s     == HeapAllocate(heap, bytes, req[2]) IN
  IF s.how = "ok"
  THEN /\ heap' = s.heap
       /\ Link(s.addr, bytes, req[2])
       /\ allocated' = allocated + bytes
       /\ live' = live \cup {s.addr}
       /\ pc' = "idle"
  ELSE /\ pc' = s.how
       /\ UNCHANGED <<listVars, live>>

\* Mutant: end is not moved back when the last header goes.
UnlinkKeepsEnd(h) ==
  /\ next' = [next EXCEPT ![prev[h]] = next[h], ![h] = Null]
  /\ prev' = [n \in DOMAIN prev |-> IF n = h THEN Null ELSE IF n = next[h] THEN prev[h] ELSE prev[n]]
  /\ UNCHANGED end

\* remove_header_from_list.
Unlink(h) ==
  /\ next' = [next EXCEPT ![prev[h]] = next[h], ![h] = Null]
  /\ prev' = [n \in DOMAIN prev |-> IF n = h THEN Null ELSE IF n = next[h] THEN prev[h] ELSE prev[n]]
  /\ end' = IF next[h] # Null THEN end ELSE prev[h]

\* local_deallocate_impl: the object returns to the heap, and what its header
\* held is lost.
Reclaim(h) ==
  /\ Unlink(h)
  /\ heap' = HeapDeallocate(heap, h, size[h])
  /\ allocated' = allocated - size[h]
  /\ live' = live \ {h} /\ gone' = gone \ {h}
  /\ size' = [size EXCEPT ![h] = 0] /\ align' = [align EXCEPT ![h] = 0]
  /\ freed' = [freed EXCEPT ![h] = 0]

\* collect_deallocated begins.
StartCollect(req) ==
  /\ pc' = "collect"
  /\ cursor' = next[ListHead]
  /\ pending' = req
  /\ due' = {a \in gone : freed[a] = 1}

MayAllocate == pc = "idle" /\ Cardinality(live \cup gone) < MaxObjects

\* do_allocate below the threshold.
Allocate(req) ==
  /\ MayAllocate
  /\ allocated < threshold
  /\ Take(req)
  /\ UNCHANGED <<threshold, rmaVars, cursor, pending, due, awaited, gone>>

\* do_allocate at the threshold: it collects first.
AllocateCollects(req) ==
  /\ MayAllocate
  /\ allocated >= threshold
  /\ StartCollect(req)
  /\ UNCHANGED <<listVars, threshold, rmaVars, awaited, live, gone>>

\* collect_deallocated called by the program (ori::collect_deallocated).
CollectCall ==
  /\ pc = "idle"
  /\ StartCollect(NoRequest)
  /\ UNCHANGED <<listVars, threshold, rmaVars, awaited, live, gone>>

\* Mutant: after a reclaimed header the walk goes on one too far.
CollectStepSkips ==
  /\ pc = "collect" /\ cursor # Null
  /\ cursor' = IF freed[cursor] = 1 /\ next[cursor] # Null
               THEN next[next[cursor]] ELSE next[cursor]
  /\ IF freed[cursor] = 1 THEN Reclaim(cursor) ELSE UNCHANGED <<listVars, live, gone>>
  /\ UNCHANGED <<threshold, rmaVars, pc, pending, due, awaited>>

\* One header of the walk: the flag is loaded, a flagged object is reclaimed
\* after its next pointer has been read.
CollectStep ==
  /\ pc = "collect" /\ cursor # Null
  /\ cursor' = next[cursor]
  /\ IF freed[cursor] = 1 THEN Reclaim(cursor) ELSE UNCHANGED <<listVars, live, gone>>
  /\ UNCHANGED <<threshold, rmaVars, pc, pending, due, awaited>>

\* The end of a walk that the program called for.
CollectReturns ==
  /\ pc = "collect" /\ cursor = Null /\ pending = NoRequest
  /\ pc' = "idle"
  /\ due' = {}
  /\ UNCHANGED <<listVars, threshold, rmaVars, cursor, pending, awaited, live, gone>>

\* The rest of a do_allocate that has collected: its next threshold, and the
\* object.
AllocateCollected ==
  LET double == allocated * 2 IN
  /\ pc = "collect" /\ cursor = Null /\ pending # NoRequest
  /\ threshold' = IF double > ThresholdMax THEN (ThresholdMax + allocated) \div 2 ELSE double
  /\ Take(pending)
  /\ pending' = NoRequest
  /\ due' = {}
  /\ UNCHANGED <<rmaVars, cursor, awaited, gone>>

\* do_deallocate by the owner: local_deallocate.
DeallocateLocal(h) ==
  /\ pc = "idle"
  /\ h \in live
  /\ Reclaim(h)
  /\ UNCHANGED <<threshold, rmaVars, ctlVars, awaited>>

\* do_deallocate by another rank: remote_deallocate puts the flag, and flushes
\* the window at every MaxUnflushed-th call.
DeallocateRemote(r, h) ==
  /\ h \in live
  /\ live' = live \ {h} /\ gone' = gone \cup {h}
  /\ IF count[r] + 1 >= MaxUnflushed
     THEN /\ count' = [count EXCEPT ![r] = 0]
          /\ inflight' = [inflight EXCEPT ![r] = {}]
          /\ freed' = [a \in Addrs |-> IF a \in inflight[r] \cup {h} THEN 1 ELSE freed[a]]
     ELSE /\ count' = [count EXCEPT ![r] = @ + 1]
          /\ inflight' = [inflight EXCEPT ![r] = @ \cup {h}]
          /\ UNCHANGED freed
  /\ UNCHANGED <<heap, size, align, next, prev, end, allocated, threshold, ctlVars, awaited>>

\* RMA: a flag that was put reaches the header before the flush.
Lands(r, h) ==
  /\ h \in inflight[r]
  /\ inflight' = [inflight EXCEPT ![r] = @ \ {h}]
  /\ freed' = [freed EXCEPT ![h] = 1]
  /\ UNCHANGED <<heap, size, align, next, prev, end, allocated, threshold, count, ctlVars,
                 awaited, live, gone>>

\* The owner hands objects it has allocated to other ranks and, without a call
\* of allocate in between, waits until each of them has been freed there.
AwaitCall(S) ==
  /\ pc = "idle"
  /\ S # {} /\ S \subseteq live
  /\ pc' = "await"
  /\ awaited' = S
  /\ UNCHANGED <<listVars, threshold, rmaVars, cursor, pending, due, live, gone>>

\* Mutant: the wait collects whatever has been freed.
AwaitStepCollects(h) ==
  /\ pc = "await"
  /\ h \in awaited
  /\ \E a \in gone : freed[a] = 1 /\ Reclaim(a)
  /\ awaited' = awaited \ {h}
  /\ pc' = IF awaited' = {} THEN "idle" ELSE "await"
  /\ UNCHANGED <<threshold, rmaVars, cursor, pending, due>>

\* is_remotely_freed returns true for an object and reclaims it.
AwaitStep(h) ==
  /\ pc = "await"
  /\ h \in awaited
  /\ freed[h] = 1
  /\ Reclaim(h)
  /\ awaited' = awaited \ {h}
  /\ pc' = IF awaited' = {} THEN "idle" ELSE "await"
  /\ UNCHANGED <<threshold, rmaVars, cursor, pending, due>>

ResNext ==
  \/ \E req \in Requests : Allocate(req) \/ AllocateCollects(req)
  \/ CollectCall \/ CollectStep \/ CollectReturns \/ AllocateCollected
  \/ \E h \in live : DeallocateLocal(h) \/ \E r \in Others : DeallocateRemote(r, h)
  \/ \E r \in Others : \E h \in inflight[r] : Lands(r, h)
  \/ \E S \in SUBSET live : AwaitCall(S)
  \/ \E h \in awaited : AwaitStep(h)

ResSpec == ResInit /\ [][ResNext]_resVars

-----------------------------------------------------------------------------
InUse == live \cup gone

\* Position i of the list whose headers are q: the list head comes before them
\* and a null pointer after them.
Node(q, i) == IF i = 0 THEN ListHead ELSE IF i \in DOMAIN q THEN q[i] ELSE Null

\* The links of the headers agree in both directions with the sequence q, and
\* the end is its last one (ITYR_CHECK(allocated_list_end_->next == nullptr)).
IsList(q) ==
  /\ \A i \in {0} \cup DOMAIN q : next[Node(q, i)] = Node(q, i + 1)
  /\ \A i \in DOMAIN q : prev[q[i]] = Node(q, i - 1)
  /\ end = Node(q, Len(q))

\* The list holds exactly the objects that are allocated and not yet reclaimed,
\* each once, and allocated_size_ counts the bytes they were allocated with.
ListIsAllocated ==
  /\ \E q \in [1..Cardinality(InUse) -> InUse] : IsList(q) /\ {q[i] : i \in DOMAIN q} = InUse
  /\ allocated = Cardinality(UNION {Bytes(a, size[a]) : a \in InUse})

\* An object somebody uses is not flagged, and no put of a flag is on its way
\* to any memory but that of an object freed and not yet reclaimed, not even
\* one meant for an earlier object at the same place (ITYR_CHECK(h->freed ==
\* 0)): no object is reclaimed under its user.
LiveNotFlagged ==
  /\ \A a \in live : freed[a] = 0
  /\ \A r \in Others : inflight[r] \subseteq gone

\* A collection reclaims every object whose flag was set when it began,
\* although headers are unlinked during the walk.
CollectComplete == pc = "collect" /\ cursor = Null => due \cap InUse = {}

\* An object that its owner waits for is still allocated: is_remotely_freed
\* never reads the header of an object that has been reclaimed.
AwaitedStillAllocated == awaited \subseteq InUse

\* No two objects share a byte, whatever order they were taken and given back
\* in and by whom, and each has the alignment that was asked for.
ObjectsDisjoint ==
  \A a \in InUse :
    /\ a % align[a] = 0
    /\ \A b \in InUse \ {a} : Occupied(heap, a, size[a]) \cap Occupied(heap, b, size[b]) = {}

\* Nothing is lost and nothing is free twice: every byte of the window is in
\* exactly one of the two freelists and the objects, and both lists stay
\* sorted and coalesced.
NothingLost ==
  LET used == UNION {Occupied(heap, a, size[a]) : a \in InUse}
      win  == FreeBytes(heap.win)
      blk  == FreeBytes(heap.blk) IN
  /\ win \cap blk = {} /\ (win \cup blk) \cap used = {}
  /\ win \cup blk \cup used = HeapBytes(heap)
  /\ Coalesced(heap.win) /\ Coalesced(heap.blk)

\* The owner's bookkeeping is exact: the linked list, the sizes and the two
\* freelists account for every byte of the window once.
HeapSound == ListIsAllocated /\ ObjectsDisjoint /\ NothingLost

\* Flags are only put to, and only read from, headers of objects that are still
\* allocated and that somebody has freed or waits for.
FlagsSafe == LiveNotFlagged /\ AwaitedStillAllocated
=============================================================================
