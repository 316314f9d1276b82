--------------------------- MODULE CollMemProofs ---------------------------
(***************************************************************************)
(* The mappings of home segments and the collective allocations, for every *)
(* set of allocations and requests, every number of entries and every      *)
(* number of ranks, page size, block size and address space.               *)
(*                                                                         *)
(* HomeInv is about the home manager alone; the invariant of the           *)
(* collective calls rests on it only for what is allocated.                *)
(***************************************************************************)
EXTENDS CollMem, FiniteSetTheorems, WellFoundedInduction, TLAPS

-----------------------------------------------------------------------------
(* The home manager's inductive invariant.                                  *)

Keys == Segs \cup {NoSeg}
EntryType == [key : Keys, addr : Keys, mapped : Keys, ref : Int]
OpNames == {"idle", "checkout", "complete", "copy", "checkin"}

\* The type of the home manager's state.
HomeType ==
  /\ slot \in [Slots -> EntryType]
  /\ lru \in [Slots -> Slots]
  /\ tlb \subseteq Segs \X Slots
  /\ toMap \in Seq(Slots)
  /\ vm \subseteq Segs
  /\ alive \subseteq Mems
  /\ out \in [CheckoutRequests -> 0..MaxOut]
  /\ op \in [name : OpNames, req : CheckoutRequests \cup {<<>>}, todo : Seq(Segs), ref : BOOLEAN]
  /\ dead \in BOOLEAN

In(seg, q) == \E i \in DOMAIN q : q[i] = seg

\* The segments of a request are within one allocation that exists.
Lives(q) == \E m \in alive : \A i \in DOMAIN q : q[i] \in m

\* Where a call is agrees with what it has still to do.
CallInv ==
  /\ dead = TRUE => op = Idle
  /\ op.name = "idle" => op = Idle
  /\ op.name # "idle" =>
       /\ op.req \in CheckoutRequests /\ Lives(op.req)
       /\ \A i, j \in DOMAIN op.todo : op.todo[i] = op.todo[j] => i = j
       /\ \A i \in DOMAIN op.todo : In(op.todo[i], op.req)
       /\ op.ref # TRUE => Len(op.req) = 1
  /\ op.name \in {"complete", "copy"} => op.todo = <<>> /\ op.ref = FALSE
  /\ op.name \in {"checkin", "copy"} => toMap = <<>>
  /\ op.name = "checkin" => op.ref = TRUE
  /\ op.name = "checkout" /\ op.ref = TRUE => out[op.req] < MaxOut
  /\ \A q \in CheckoutRequests : out[q] > 0 => Lives(q)

\* A segment is the key of one entry at most, and the TLB agrees.
KeysInv ==
  /\ \A s, t \in Slots : slot[s].key = slot[t].key /\ slot[s].key # NoSeg => s = t
  /\ \A s \in Slots : slot[s].addr = slot[s].key
  /\ \A s \in Slots : slot[s].key = NoSeg => slot[s] = EmptyEntry
  /\ \A s \in Slots : slot[s].key # NoSeg => \E m \in alive : slot[s].key \in m
  /\ \A seg \in Segs, s \in Slots : <<seg, s>> \in tlb => slot[s].key = seg

\* The call has counted the segment, or has not discounted it yet.
Held(seg) ==
  /\ op.ref = TRUE
  /\ \/ op.name = "checkout" /\ In(seg, op.req) /\ ~In(seg, op.todo)
     \/ op.name = "checkin" /\ In(seg, op.todo)

RefOf(seg) == CheckoutsOf(seg) + (IF Held(seg) THEN 1 ELSE 0)

\* The reference counts.
RefsInv ==
  dead = FALSE => \A seg \in Segs :
    /\ \A s \in Slots : slot[s].key = seg => slot[s].ref = RefOf(seg)
    /\ (\A s \in Slots : slot[s].key # seg) => RefOf(seg) = 0

Queued(s) == \E i \in DOMAIN toMap : toMap[i] = s

\* The get or put in progress uses the segment, which nothing pins.
Touches(o, seg) == o.name # "idle" /\ o.ref = FALSE /\ o.todo = <<>> /\ o.req[1] = seg

\* What is mapped is what the entries have mapped; an entry whose segment is not
\* mapped is queued, and keeps its slot until then; an entry that has another's
\* segment mapped is queued before it.
MapInv ==
  /\ vm = {slot[s].mapped : s \in Slots} \ {NoSeg}
  /\ \A s, t \in Slots : slot[s].mapped = slot[t].mapped /\ slot[s].mapped # NoSeg => s = t
  /\ \A s \in Slots : slot[s].mapped # NoSeg => \E m \in alive : slot[s].mapped \in m
  /\ \A s \in Slots : slot[s].addr # slot[s].mapped => Queued(s)
  /\ \A i \in DOMAIN toMap :
       /\ slot[toMap[i]].addr # NoSeg
       /\ slot[toMap[i]].ref > 0 \/ Touches(op, slot[toMap[i]].key)
       /\ \A t \in Slots : slot[t].mapped = slot[toMap[i]].addr /\ t # toMap[i] =>
            \E j \in 1..(i - 1) : toMap[j] = t
  /\ \A seg \in Segs : Touches(op, seg) => \E s \in Slots : slot[s].key = seg

HomeInv == HomeType /\ CallInv /\ KeysInv /\ RefsInv /\ MapInv

-----------------------------------------------------------------------------
(* The invariant of the collective calls.                                   *)

VmType == [addr : Nat \cup {-1}, size : Nat]
MemType == [mem : Mems \cup {{}}, addr : Nat \cup {-1}, size : Nat]
CallType ==
  [mem : Mems, leader : Ranks, size : Nat \ {0}, trial : Nat, addr : Nat \cup {-1},
   vm : [Ranks -> VmType], prev : [Ranks -> SUBSET VmType], voted : SUBSET Ranks]

\* The type of the state of collective memory.
CollType ==
  /\ pages \in [Ranks -> SUBSET (0..(Space - 1))]
  /\ call = NoCall \/ call \in CallType
  /\ IsFiniteSet(tried) /\ tried \subseteq Nat
  /\ collMems \in Seq(MemType)

\* The reserved pages of a rank: those of the allocations, of the earlier trials
\* and of this one.
LivePages == UNION {RangePages(c) : c \in Live}
PrevPages(r) == UNION {RangePages(v) : v \in call.prev[r]}

LiveInv ==
  /\ \A c \in Live : c.addr >= 0 /\ c.addr % MapBlock = 0 /\ c.size = SizeOf(c.mem) /\ c.mem # {}
                     /\ c.addr + c.size <= Space
  /\ {c.mem : c \in Live} = alive
  /\ \A i, j \in DOMAIN collMems : collMems[i] # NoMem /\ collMems[i].mem = collMems[j].mem => i = j
  /\ \A i, j \in DOMAIN collMems : collMems[i] # NoMem /\ collMems[j] # NoMem /\ i # j =>
       RangePages(collMems[i]) \cap RangePages(collMems[j]) = {}
  /\ \A r \in Ranks : LivePages \subseteq pages[r] /\ LivePages \cap Foreign[r] = {}
  /\ call = NoCall => \A r \in Ranks : pages[r] = LivePages

\* The rank has voted on the address that the leader has broadcast.
HasVoted(r) == r \in call.voted

\* An allocation in progress: what it has reserved is apart from the rest, and
\* every address it has tried is taken on every rank that has voted on it.
TrialInv ==
  call # NoCall =>
    /\ op = Idle /\ call.mem \notin alive
    /\ SizeOf(call.mem) <= call.size
    /\ Cardinality(tried) = call.trial + (IF call.voted = {} THEN 0 ELSE 1)
    /\ call.voted # {} => call.leader \in call.voted /\ call.addr >= 0 /\ call.addr % MapBlock = 0
    /\ \A r \in Ranks :
         /\ pages[r] = LivePages \cup PrevPages(r) \cup RangePages(call.vm[r])
         /\ LivePages \cap PrevPages(r) = {}
         /\ RangePages(call.vm[r]) \cap (LivePages \cup PrevPages(r) \cup Foreign[r]) = {}
         /\ call.vm[r] # NoVm =>
              /\ HasVoted(r)
              /\ call.vm[r] = [addr |-> call.addr, size |-> call.size]
              /\ call.addr + call.size <= Space
    /\ \A a \in tried, r \in Ranks :
         ~IsFree(r, a, call.size) \/ (a = call.addr /\ call.voted # {} /\ ~HasVoted(r))

CollInv == CollType /\ HomeInv /\ LiveInv /\ TrialInv

-----------------------------------------------------------------------------
(* Facts about an instance, and the slot that is taken.                     *)

\* What is assumed of the home manager's constants.
LEMMA HomeFacts ==
  /\ NEntries \in Nat \ {0} /\ MaxOut \in Nat
  /\ Segs \subseteq Nat \ {0} /\ NoSeg \notin Segs
  /\ Slots \subseteq Nat /\ IsFiniteSet(CheckoutRequests)
  /\ \A q \in CheckoutRequests :
       /\ q \in Seq(Segs) /\ Len(q) > 0
       /\ \A i \in DOMAIN q : q[i] \in Segs
       /\ \A i, j \in DOMAIN q : q[i] = q[j] => i = j
  /\ <<>> \notin CheckoutRequests
<1>1. \A q \in CheckoutRequests : q \in Seq(Segs) /\ Len(q) > 0 /\ \A i \in DOMAIN q : q[i] \in Segs
  BY HomeAssumption DEF Segs
<1>2. Segs \subseteq Nat \ {0} /\ Slots \subseteq Nat
  BY HomeAssumption DEF Segs, Slots
<1>3. <<>> \notin CheckoutRequests
  BY HomeAssumption
<1>4. QED
  BY <1>1, <1>2, <1>3, HomeAssumption DEF NoSeg

\* A segment belongs to one allocation.
LEMMA OneMem ==
  ASSUME NEW m \in Mems, NEW o \in Mems, NEW seg \in m, seg \in o
  PROVE  m = o
BY HomeAssumption

\* The allocation of a segment.
LEMMA MemOfIs ==
  ASSUME NEW m \in Mems, NEW seg \in m
  PROVE  MemOf(seg) = m
<1>1. MemOf(seg) \in Mems /\ seg \in MemOf(seg)
  BY DEF MemOf
<1>2. QED
  BY <1>1, OneMem

\* A nonempty set of numbers has a least element.
LEMMA Least ==
  ASSUME NEW S \in SUBSET Nat, S # {}
  PROVE  \E i \in S : \A j \in S : i <= j
<1>1. \E x \in S : \A y \in S : ~ (<<y, x>> \in OpToRel(<, Nat))
  BY WFMin, NatLessThanWellFounded, Zenon
<1>2. PICK x \in S : \A y \in S : ~ (<<y, x>> \in OpToRel(<, Nat))
  BY <1>1
<1>3. \A y \in S : ~(y < x)
  BY <1>2 DEF OpToRel
<1>4. QED
  BY <1>3

\* A nonempty set of positions has a last one.
LEMMA Greatest ==
  ASSUME NEW n \in Nat, NEW S \in SUBSET (0..n), S # {}
  PROVE  \E i \in S : \A j \in S : j <= i
<1> DEFINE D == {n - j : j \in S}
<1>0. \A j \in S : j \in 0..n /\ n - j \in Nat
  OBVIOUS
<1>1. D \in SUBSET Nat /\ D # {}
  <2>1. \A d \in D : d \in Nat
    BY <1>0
  <2>2. PICK j \in S : TRUE
    OBVIOUS
  <2>3. n - j \in D
    BY <2>2
  <2>4. QED
    BY <2>1, <2>3
<1>2. PICK d \in D : \A e \in D : d <= e
  BY <1>1, Least, Zenon
<1>3. PICK i \in S : d = n - i
  BY <1>2
<1>4. ASSUME NEW j \in S
      PROVE  j <= i
  <2>1. n - j \in D
    OBVIOUS
  <2>2. d <= n - j
    BY <1>2, <2>1
  <2>3. i \in 0..n /\ j \in 0..n
    OBVIOUS
  <2>4. QED
    BY <1>3, <2>2, <2>3
<1>5. QED
  BY <1>4

\* get_empty_slot returns a slot that is free or evictable.
LEMMA FirstEmptyIs ==
  ASSUME HomeType, EmptySlots # {}
  PROVE  /\ FirstEmpty \in Slots
         /\ slot[FirstEmpty].key = NoSeg \/ slot[FirstEmpty].ref = 0
<1>1. EmptySlots \in SUBSET Nat
  BY HomeFacts DEF EmptySlots
<1>2. \E i \in EmptySlots : \A j \in EmptySlots : i <= j
  BY <1>1, Least
<1> DEFINE i == CHOOSE i \in EmptySlots : \A j \in EmptySlots : i <= j
<1>3. i \in EmptySlots /\ FirstEmpty = lru[i]
  BY <1>2 DEF FirstEmpty
<1> HIDE DEF i
<1>4. QED
  BY <1>3 DEF EmptySlots, HomeType, IsEvictable

\* move_to_back_lru keeps a list of slots.
LEMMA ToBackType ==
  ASSUME HomeType, NEW s \in Slots
  PROVE  ToBack(s) \in [Slots -> Slots]
<1> DEFINE k == CHOOSE i \in Slots : lru[i] = s
<1> HIDE DEF k
<1>1. ASSUME NEW i \in Slots
      PROVE  (IF i < k THEN lru[i] ELSE IF i < NEntries THEN lru[i + 1] ELSE s) \in Slots
  <2>1. i < NEntries => i + 1 \in Slots
    BY HomeFacts DEF Slots
  <2>2. lru \in [Slots -> Slots]
    BY DEF HomeType
  <2>3. QED
    BY <2>1, <2>2
<1>2. QED
  BY <1>1 DEF ToBack, k

-----------------------------------------------------------------------------
(* Types and the course of a call.                                          *)

\* What remains to be done without its first segment.
LEMMA TailIs ==
  ASSUME NEW t \in Seq(Segs), t # <<>>,
         \A i, j \in DOMAIN t : t[i] = t[j] => i = j
  PROVE  /\ Head(t) \in Segs /\ Tail(t) \in Seq(Segs)
         /\ In(Head(t), t) /\ ~In(Head(t), Tail(t))
         /\ \A seg \in Segs : In(seg, Tail(t)) <=> In(seg, t) /\ seg # Head(t)
         /\ \A i, j \in DOMAIN Tail(t) : Tail(t)[i] = Tail(t)[j] => i = j
<1>1. Head(t) \in Segs /\ Tail(t) \in Seq(Segs) /\ Len(t) >= 1 /\ Len(Tail(t)) = Len(t) - 1
  OBVIOUS
<1>2. \A i \in 1..Len(Tail(t)) : Tail(t)[i] = t[i + 1]
  OBVIOUS
<1>3. Head(t) = t[1] /\ DOMAIN t = 1..Len(t) /\ DOMAIN Tail(t) = 1..Len(Tail(t))
  BY <1>1
<1>4. \A i, j \in DOMAIN Tail(t) : Tail(t)[i] = Tail(t)[j] => i = j
  <2>1. SUFFICES ASSUME NEW i \in DOMAIN Tail(t), NEW j \in DOMAIN Tail(t), Tail(t)[i] = Tail(t)[j]
                 PROVE  i = j
    OBVIOUS
  <2>2. i + 1 \in DOMAIN t /\ j + 1 \in DOMAIN t /\ t[i + 1] = t[j + 1]
    BY <1>1, <1>2, <1>3, <2>1
  <2>3. i + 1 = j + 1
    BY <2>2
  <2>4. QED
    BY <2>3, <1>1, <1>3
<1>5. ASSUME NEW seg \in Segs, In(seg, Tail(t))
      PROVE  In(seg, t) /\ seg # Head(t)
  <2>1. PICK i \in 1..Len(Tail(t)) : Tail(t)[i] = seg
    BY <1>3, <1>5 DEF In
  <2>2. i + 1 \in DOMAIN t /\ t[i + 1] = seg /\ i + 1 # 1 /\ 1 \in DOMAIN t
    BY <2>1, <1>1, <1>2, <1>3
  <2>3. t[1] # seg
    BY <2>2
  <2>4. QED
    BY <2>2, <2>3, <1>3 DEF In
<1>6. ASSUME NEW seg \in Segs, In(seg, t), seg # Head(t)
      PROVE  In(seg, Tail(t))
  <2>1. PICK i \in 1..Len(t) : t[i] = seg
    BY <1>3, <1>6 DEF In
  <2>2. i # 1
    BY <2>1, <1>3, <1>6
  <2>3. i - 1 \in 1..Len(Tail(t)) /\ i = (i - 1) + 1
    BY <2>1, <2>2, <1>1
  <2>4. Tail(t)[i - 1] = seg
    BY <2>1, <2>3, <1>2
  <2>5. QED
    BY <2>3, <2>4, <1>3 DEF In
<1>7. In(Head(t), t)
  BY <1>1, <1>3 DEF In
<1>8. ~In(Head(t), Tail(t))
  BY <1>5, <1>1
<1>9. QED
  BY <1>1, <1>4, <1>5, <1>6, <1>7, <1>8

\* A call in progress has a request of the program, an idle one has none.
LEMMA OpFacts ==
  ASSUME HomeType, CallInv
  PROVE  /\ op.name # "idle" => op.req \in CheckoutRequests /\ op.req \in Seq(Segs) /\ Len(op.req) > 0
         /\ op.name # "idle" => dead = FALSE
         /\ op.todo \in Seq(Segs)
         /\ op = Idle <=> op.name = "idle"
<1>1. op.name # "idle" => op.req \in CheckoutRequests
  BY DEF CallInv
<1>2. op.todo \in Seq(Segs) /\ dead \in BOOLEAN
  BY DEF HomeType
<1>3. op = Idle => op.name = "idle"
  BY DEF Idle
<1>4. QED
  BY <1>1, <1>2, <1>3, HomeFacts DEF CallInv

\* A change of one entry keeps the entries' type.
LEMMA EntryUpdate ==
  ASSUME HomeType, NEW s \in Slots, NEW e \in EntryType
  PROVE  [slot EXCEPT ![s] = e] \in [Slots -> EntryType]
BY DEF HomeType

\* So does a change of its reference count.
LEMMA RefUpdate ==
  ASSUME HomeType, NEW s \in Slots, NEW n \in Int
  PROVE  [slot EXCEPT ![s].ref = n] \in [Slots -> EntryType]
<1>1. slot[s] \in EntryType
  BY DEF HomeType
<1>2. [slot[s] EXCEPT !.ref = n] \in EntryType
  BY <1>1 DEF EntryType
<1>3. [slot EXCEPT ![s].ref = n] = [slot EXCEPT ![s] = [slot[s] EXCEPT !.ref = n]]
  OBVIOUS
<1>4. QED
  BY <1>2, <1>3, EntryUpdate

\* The entry that checkout_seg leaves in slot s.
Attached(s) ==
  [key    |-> Head(op.todo),
   addr   |-> IF Head(op.todo) # slot[s].mapped THEN Head(op.todo) ELSE slot[s].addr,
   mapped |-> slot[s].mapped,
   ref    |-> IF op.ref THEN slot[s].ref + 1 ELSE slot[s].ref]

LEMMA EntryIs ==
  ASSUME NEW e \in EntryType, NEW k \in Keys, NEW a \in Keys, NEW n \in Int
  PROVE  [e EXCEPT !.key = k, !.addr = a, !.ref = n] =
           [key |-> k, addr |-> a, mapped |-> e.mapped, ref |-> n]
<1> DEFINE f == [e EXCEPT !.key = k, !.addr = a, !.ref = n]
<1>1. f \in EntryType
  BY DEF EntryType
<1>2. f.key = k /\ f.addr = a /\ f.mapped = e.mapped /\ f.ref = n
  BY DEF EntryType
<1> HIDE DEF f
<1>3. f = [key |-> f.key, addr |-> f.addr, mapped |-> f.mapped, ref |-> f.ref]
  BY <1>1 DEF EntryType
<1>4. QED
  BY <1>2, <1>3 DEF f

LEMMA AttachIs ==
  ASSUME HomeType, NEW s \in Slots, Attach(s, slot[s]), op.todo # <<>>
  PROVE  /\ Attached(s) \in EntryType
         /\ slot' = [slot EXCEPT ![s] = Attached(s)]
<1>1. slot[s] \in EntryType /\ op.ref \in BOOLEAN
  BY DEF HomeType
<1>2. Head(op.todo) \in Keys
  BY DEF HomeType, Keys
<1>3. slot[s].addr \in Keys /\ slot[s].mapped \in Keys /\ slot[s].ref \in Int
  BY <1>1 DEF EntryType
<1>4. Attached(s) \in EntryType
  BY <1>2, <1>3 DEF Attached, EntryType
<1>6. slot' = [slot EXCEPT ![s] = Attached(s)]
  <2> DEFINE seg == Head(op.todo)
             a == IF seg # slot[s].mapped THEN seg ELSE slot[s].addr
             n == IF op.ref THEN slot[s].ref + 1 ELSE slot[s].ref
  <2>1. slot' = [slot EXCEPT ![s] = [slot[s] EXCEPT !.key = seg, !.addr = a, !.ref = n]]
    BY DEF Attach
  <2>2. seg \in Keys /\ a \in Keys /\ n \in Int
    BY <1>2, <1>3
  <2>3. Attached(s) = [key |-> seg, addr |-> a, mapped |-> slot[s].mapped, ref |-> n]
    BY DEF Attached
  <2> HIDE DEF seg, a, n
  <2>4. [slot[s] EXCEPT !.key = seg, !.addr = a, !.ref = n] =
          [key |-> seg, addr |-> a, mapped |-> slot[s].mapped, ref |-> n]
    BY <1>1, <2>2, EntryIs, Zenon
  <2>5. [slot[s] EXCEPT !.key = seg, !.addr = a, !.ref = n] = Attached(s)
    BY <2>3, <2>4
  <2>6. QED
    BY <2>1, <2>5
<1>7. QED
  BY <1>4, <1>6

\* Every step of the home manager keeps the types.
LEMMA HomeTypeStep ==
  ASSUME HomeType, CallInv,
         HomeStep \/ (\E m \in Mems : MallocColl(m) \/ FreeColl(m))
  PROVE  HomeType'
<1> USE DEF HomeType, Keys, OpNames
<1>0. Idle \in [name : OpNames, req : CheckoutRequests \cup {<<>>}, todo : Seq(Segs), ref : BOOLEAN]
  BY DEF Idle
<1>1. ASSUME NEW q \in CheckoutRequests, NEW ref \in BOOLEAN, CheckoutCall(q, ref)
      PROVE  HomeType'
  <2>1. q \in Seq(Segs)
    BY HomeFacts
  <2>2. QED
    BY <1>1, <2>1 DEF CheckoutCall
<1>2. ASSUME NEW q \in CheckoutRequests, CheckinCall(q)
      PROVE  HomeType'
  <2>1. q \in Seq(Segs)
    BY HomeFacts
  <2>2. out[q] - 1 \in 0..MaxOut
    BY <1>2, HomeFacts DEF CheckinCall
  <2>3. out' \in [CheckoutRequests -> 0..MaxOut]
    BY <1>2, <2>2 DEF CheckinCall
  <2>4. QED
    BY <1>2, <2>1, <2>3 DEF CheckinCall
<1>3. ASSUME CheckoutFast
      PROVE  HomeType'
  <2>1. PICK s \in Slots : slot' = [slot EXCEPT ![s].ref = IF op.ref THEN @ + 1 ELSE @]
    BY <1>3 DEF CheckoutFast, TlbGet
  <2>2. slot' \in [Slots -> EntryType]
    <3>1. slot[s].ref \in Int
      BY DEF EntryType
    <3> DEFINE n == IF op.ref THEN slot[s].ref + 1 ELSE slot[s].ref
    <3>2. n \in Int
      BY <3>1
    <3>3. slot' = [slot EXCEPT ![s].ref = n]
      BY <2>1
    <3> HIDE DEF n
    <3>4. QED
      BY <3>2, <3>3, RefUpdate
  <2>3. op' \in [name : OpNames, req : CheckoutRequests \cup {<<>>}, todo : Seq(Segs), ref : BOOLEAN]
    <3>1. <<>> \in Seq(Segs)
      OBVIOUS
    <3>2. QED
      BY <1>3, <3>1 DEF CheckoutFast
  <2>4. QED
    BY <1>3, <2>2, <2>3 DEF CheckoutFast
<1>4. ASSUME NEW s \in Slots, Attach(s, slot[s]), op.todo # <<>>
      PROVE  /\ slot' \in [Slots -> EntryType] /\ toMap' \in Seq(Slots) /\ lru' \in [Slots -> Slots]
             /\ op' \in [name : OpNames, req : CheckoutRequests \cup {<<>>}, todo : Seq(Segs), ref : BOOLEAN]
             /\ vm' \subseteq Segs /\ alive' \subseteq Mems
             /\ out' \in [CheckoutRequests -> 0..MaxOut] /\ dead' \in BOOLEAN
  <2>1. Head(op.todo) \in Segs /\ Tail(op.todo) \in Seq(Segs)
    BY <1>4
  <2>2. lru' \in [Slots -> Slots]
    BY <1>4, ToBackType DEF Attach
  <2>3. slot' \in [Slots -> EntryType]
    BY <1>4, AttachIs, EntryUpdate
  <2>4. toMap' \in Seq(Slots)
    BY <1>4 DEF Attach
  <2>5. op' \in [name : OpNames, req : CheckoutRequests \cup {<<>>}, todo : Seq(Segs), ref : BOOLEAN]
    BY <1>4, <2>1 DEF Attach
  <2>6. QED
    BY <1>4, <2>2, <2>3, <2>4, <2>5 DEF Attach
<1>5. ASSUME CheckoutHit
      PROVE  HomeType'
  <2>1. PICK s \in Slots : Attach(s, slot[s]) /\ tlb' = TlbAdd(tlb, Head(op.todo), s)
    BY <1>5 DEF CheckoutHit, SlotOf
  <2>2. op.todo # <<>> /\ Head(op.todo) \in Segs
    BY <1>5 DEF CheckoutHit
  <2>3. tlb' \subseteq Segs \X Slots
    BY <2>1, <2>2 DEF TlbAdd
  <2>4. QED
    BY <2>1, <2>2, <2>3, <1>4
<1>6. ASSUME CheckoutMiss
      PROVE  HomeType'
  <2>1. FirstEmpty \in Slots /\ Attach(FirstEmpty, slot[FirstEmpty])
    BY <1>6, FirstEmptyIs DEF CheckoutMiss
  <2>2. op.todo # <<>> /\ Head(op.todo) \in Segs
    BY <1>6 DEF CheckoutMiss
  <2>3. tlb' \subseteq Segs \X Slots
    BY <1>6, <2>1, <2>2 DEF TlbAdd, CheckoutMiss
  <2>4. QED
    BY <2>1, <2>2, <2>3, <1>4
<1>7. ASSUME CheckoutDies
      PROVE  HomeType'
  BY <1>0, <1>7 DEF CheckoutDies
<1>8. ASSUME CheckoutReturns
      PROVE  HomeType'
  <2>1. CASE op.ref = TRUE
    <3>1. op.req \in CheckoutRequests /\ out[op.req] < MaxOut
      BY <1>8, <2>1, OpFacts DEF CheckoutReturns, CallInv
    <3>2. out[op.req] + 1 \in 0..MaxOut
      BY <3>1, HomeFacts
    <3>3. out' \in [CheckoutRequests -> 0..MaxOut] /\ op' = Idle
      BY <1>8, <2>1, <3>1, <3>2 DEF CheckoutReturns
    <3>4. QED
      BY <1>0, <1>8, <3>3 DEF CheckoutReturns
  <2>2. CASE op.ref = FALSE
    BY <1>8, <2>2 DEF CheckoutReturns
  <2>3. QED
    BY <2>1, <2>2
<1>9. ASSUME CheckoutComplete
      PROVE  HomeType'
  <2>1. slot' \in [Slots -> EntryType]
    <3>1. ASSUME NEW s \in Slots
          PROVE  [slot[s] EXCEPT !.mapped = slot[s].addr] \in EntryType
      <4>1. slot[s] \in EntryType
        OBVIOUS
      <4>2. QED
        BY <4>1 DEF EntryType
    <3>2. QED
      BY <1>9, <3>1 DEF CheckoutComplete
  <2>2. vm' \subseteq Segs
    BY <1>9 DEF CheckoutComplete, UpdateMappings
  <2>3. op' \in [name : OpNames, req : CheckoutRequests \cup {<<>>}, todo : Seq(Segs), ref : BOOLEAN]
    BY <1>0, <1>9 DEF CheckoutComplete
  <2>4. QED
    BY <1>9, <2>1, <2>2, <2>3 DEF CheckoutComplete
<1>10. ASSUME Copy \/ CheckinReturns
       PROVE  HomeType'
  BY <1>0, <1>10 DEF Copy, CheckinReturns
<1>11. ASSUME CheckinStep
       PROVE  HomeType'
  <2>1. PICK s \in Slots : slot' = [slot EXCEPT ![s].ref = @ - 1]
    BY <1>11 DEF CheckinStep, TlbGet, SlotOf, Unref
  <2>2. slot' \in [Slots -> EntryType]
    <3>1. slot[s].ref - 1 \in Int
      BY DEF EntryType
    <3>2. slot' = [slot EXCEPT ![s].ref = slot[s].ref - 1]
      BY <2>1
    <3>3. QED
      BY <3>1, <3>2, RefUpdate
  <2>3. op' \in [name : OpNames, req : CheckoutRequests \cup {<<>>}, todo : Seq(Segs), ref : BOOLEAN]
    <3>1. op.todo \in Seq(Segs) /\ op.todo # <<>>
      BY <1>11 DEF CheckinStep
    <3>2. Tail(op.todo) \in Seq(Segs)
      BY <3>1
    <3>3. QED
      BY <1>11, <3>2 DEF CheckinStep
  <2>4. QED
    BY <1>11, <2>2, <2>3 DEF CheckinStep
<1>12. ASSUME NEW m \in Mems, MallocColl(m)
       PROVE  HomeType'
  BY <1>12 DEF MallocColl
<1>13. ASSUME NEW m \in Mems, FreeColl(m)
       PROVE  HomeType'
  <2>1. EmptyEntry \in EntryType
    BY DEF EmptyEntry, EntryType
  <2>2. slot' \in [Slots -> EntryType]
    BY <1>13, <2>1 DEF FreeColl
  <2>3. QED
    BY <1>13, <2>2 DEF FreeColl
<1>14. QED
  BY <1>1, <1>2, <1>3, <1>5, <1>6, <1>7, <1>8, <1>9, <1>10, <1>11, <1>12, <1>13 DEF HomeStep

\* A call starts with a request as it is: all within one allocation.
LEMMA RequestStarts ==
  ASSUME NEW q \in CheckoutRequests
  PROVE  /\ \A i, j \in DOMAIN q : q[i] = q[j] => i = j
         /\ \A i \in DOMAIN q : In(q[i], q)
         /\ MemOf(q[1]) \in alive => Lives(q)
<1>1. PICK m \in Mems : \A i \in DOMAIN q : q[i] \in m
  BY HomeAssumption
<1>2. 1 \in DOMAIN q
  BY HomeFacts
<1>3. MemOf(q[1]) = m
  BY <1>1, <1>2, MemOfIs
<1>4. MemOf(q[1]) \in alive => Lives(q)
  BY <1>1, <1>3 DEF Lives
<1>5. QED
  BY <1>4, HomeFacts DEF In

\* A call that goes on to its next segment.
LEMMA GoesOn ==
  ASSUME HomeType, CallInv, op.name \in {"checkout", "checkin"},
         op'.name = op.name, op'.req = op.req, op'.ref = op.ref,
         op'.todo = <<>> \/ (op.todo # <<>> /\ op'.todo = Tail(op.todo)),
         alive' = alive, out' = out, dead' = dead,
         op.name = "checkin" => toMap' = toMap
  PROVE  CallInv'
<1>0. op.name # "idle"
  OBVIOUS
<1>1. dead # TRUE
  BY <1>0, OpFacts
<1>2. (Lives(op.req))'
  BY DEF CallInv, Lives
<1>3. /\ \A i, j \in DOMAIN op'.todo : op'.todo[i] = op'.todo[j] => i = j
      /\ \A i \in DOMAIN op'.todo : In(op'.todo[i], op'.req)
  <2>1. CASE op'.todo = <<>>
    BY <2>1
  <2>2. CASE op.todo # <<>> /\ op'.todo = Tail(op.todo)
    <3>1. /\ op.todo \in Seq(Segs)
          /\ \A i, j \in DOMAIN op.todo : op.todo[i] = op.todo[j] => i = j
      BY DEF CallInv, HomeType
    <3>2. /\ Tail(op.todo) \in Seq(Segs)
          /\ \A seg \in Segs : In(seg, Tail(op.todo)) => In(seg, op.todo)
          /\ \A i, j \in DOMAIN Tail(op.todo) : Tail(op.todo)[i] = Tail(op.todo)[j] => i = j
      BY <2>2, <3>1, TailIs
    <3>3. ASSUME NEW i \in DOMAIN Tail(op.todo)
          PROVE  In(Tail(op.todo)[i], op.req)
      <4>1. Tail(op.todo)[i] \in Segs
        BY <3>2
      <4>2. In(Tail(op.todo)[i], op.todo)
        BY <3>2, <4>1 DEF In
      <4>3. QED
        BY <4>2 DEF CallInv, In
    <3>4. QED
      BY <2>2, <3>2, <3>3
  <2>3. QED
    BY <2>1, <2>2
<1>4. \A q \in CheckoutRequests : Lives(q) => Lives(q)'
  BY DEF Lives
<1>5. QED
  BY <1>1, <1>2, <1>3, <1>4 DEF CallInv

\* Every step of the home manager keeps the course of the call.
LEMMA CallStep ==
  ASSUME HomeType, CallInv,
         HomeStep \/ (\E m \in Mems : MallocColl(m) \/ FreeColl(m))
  PROVE  CallInv'
<1>0. /\ Idle.name = "idle" /\ Idle.ref = FALSE
      /\ Idle.req = <<>> /\ Idle.todo = <<>>
  BY DEF Idle
<1>1. ASSUME NEW q \in CheckoutRequests, NEW ref \in BOOLEAN, CheckoutCall(q, ref)
      PROVE  CallInv'
  <2>1. /\ Lives(q)
        /\ \A i, j \in DOMAIN q : q[i] = q[j] => i = j
        /\ \A i \in DOMAIN q : In(q[i], q)
    BY <1>1, RequestStarts DEF CheckoutCall
  <2>2. /\ op'.name = "checkout" /\ op'.req = q /\ op'.todo = q /\ op'.ref = ref
        /\ alive' = alive /\ out' = out /\ dead' = dead /\ dead # TRUE
        /\ ref # TRUE => Len(q) = 1
        /\ ref = TRUE => out[q] < MaxOut
    BY <1>1 DEF CheckoutCall, HomeType
  <2>3. \A p : Lives(p)' <=> Lives(p)
    BY <2>2 DEF Lives
  <2>4. QED
    BY <2>1, <2>2, <2>3 DEF CallInv, Lives, In
<1>2. ASSUME NEW q \in CheckoutRequests, CheckinCall(q)
      PROVE  CallInv'
  <2>1. /\ \A i, j \in DOMAIN q : q[i] = q[j] => i = j
        /\ \A i \in DOMAIN q : In(q[i], q)
    BY RequestStarts
  <2>2. /\ op'.name = "checkin" /\ op'.req = q /\ op'.todo = q /\ op'.ref = TRUE
        /\ alive' = alive /\ dead' = dead /\ dead # TRUE /\ toMap' = <<>>
        /\ out[q] > 0
    BY <1>2 DEF CheckinCall, HomeType
  <2>3. \A p \in CheckoutRequests : out'[p] <= out[p]
    BY <1>2, HomeFacts DEF CheckinCall, HomeType
  <2>4. \A p \in CheckoutRequests : out[p] \in Nat /\ out'[p] \in Int
    BY <1>2, HomeFacts DEF CheckinCall, HomeType
  <2>5. Lives(q) /\ \A p \in CheckoutRequests : out'[p] > 0 => Lives(p)
    BY <2>2, <2>3, <2>4 DEF CallInv
  <2>6. QED
    BY <2>1, <2>2, <2>5 DEF CallInv, Lives, In
<1>3. ASSUME CheckoutFast
      PROVE  CallInv'
  <2>1. /\ op'.name = "checkout" /\ op'.req = op.req /\ op'.todo = <<>> /\ op'.ref = op.ref
        /\ alive' = alive /\ out' = out /\ dead' = dead
    BY <1>3 DEF CheckoutFast, HomeType
  <2>2. op.name = "checkout"
    BY <1>3 DEF CheckoutFast
  <2>3. QED
    BY <2>1, <2>2, GoesOn
<1>4. ASSUME NEW s, op.name = "checkout", op.todo # <<>>, Attach(s, slot[s])
      PROVE  CallInv'
  <2>1. /\ op'.name = "checkout" /\ op'.req = op.req /\ op'.todo = Tail(op.todo) /\ op'.ref = op.ref
        /\ alive' = alive /\ out' = out /\ dead' = dead
    BY <1>4 DEF Attach, HomeType
  <2>2. QED
    BY <1>4, <2>1, GoesOn
<1>5. ASSUME CheckoutHit
      PROVE  CallInv'
  BY <1>4, <1>5 DEF CheckoutHit
<1>6. ASSUME CheckoutMiss
      PROVE  CallInv'
  BY <1>4, <1>6 DEF CheckoutMiss
<1>7. ASSUME CheckoutDies
      PROVE  CallInv'
  <2>1. op' = Idle /\ alive' = alive /\ out' = out /\ toMap' = toMap
    BY <1>7 DEF CheckoutDies
  <2>2. QED
    BY <1>0, <2>1 DEF CallInv, Lives
<1>8. ASSUME CheckoutReturns
      PROVE  CallInv'
  <2>1. /\ op.name = "checkout" /\ op.todo = <<>> /\ dead # TRUE
        /\ alive' = alive /\ dead' = dead /\ toMap' = toMap
    BY <1>0, <1>8 DEF CheckoutReturns, CallInv
  <2>2. CASE op.ref = TRUE
    <3>1. op' = Idle /\ out' = [out EXCEPT ![op.req] = @ + 1] /\ op.req \in CheckoutRequests /\ Lives(op.req)
      BY <1>8, <2>1, <2>2 DEF CheckoutReturns, CallInv
    <3>2. \A p \in CheckoutRequests : out'[p] > 0 => Lives(p)
      BY <3>1 DEF CallInv, HomeType
    <3>3. QED
      BY <1>0, <2>1, <3>1, <3>2 DEF CallInv, Lives
  <2>3. CASE op.ref = FALSE
    <3>1. /\ op'.name = "complete" /\ op'.req = op.req /\ op'.todo = <<>> /\ op'.ref = FALSE
          /\ out' = out
      BY <1>8, <2>1, <2>3 DEF CheckoutReturns, HomeType
    <3>2. QED
      BY <2>1, <2>3, <3>1 DEF CallInv, Lives
  <2>4. QED
    BY <2>2, <2>3 DEF HomeType
<1>9. ASSUME CheckoutComplete
      PROVE  CallInv'
  <2>1. alive' = alive /\ dead' = dead /\ toMap' = <<>> /\ out' = out /\ dead # TRUE
    BY <1>9 DEF CheckoutComplete
  <2>2. CASE op = Idle
    <3>1. op' = Idle
      BY <1>9, <2>2 DEF CheckoutComplete
    <3>2. QED
      BY <1>0, <2>1, <3>1 DEF CallInv, Lives
  <2>3. CASE op # Idle
    <3>1. op.name = "complete"
      BY <1>9, <2>3 DEF CheckoutComplete
    <3>2. op'.name = "copy" /\ op'.req = op.req /\ op'.todo = op.todo /\ op'.ref = op.ref
      BY <1>9, <2>3 DEF CheckoutComplete, HomeType
    <3>3. QED
      BY <2>1, <3>1, <3>2 DEF CallInv, Lives
  <2>4. QED
    BY <2>2, <2>3
<1>10. ASSUME Copy \/ CheckinReturns
       PROVE  CallInv'
  <2>1. op' = Idle /\ alive' = alive /\ out' = out /\ toMap' = toMap
    BY <1>10 DEF Copy, CheckinReturns
  <2>2. QED
    BY <1>0, <2>1 DEF CallInv, Lives
<1>11. ASSUME CheckinStep
       PROVE  CallInv'
  <2>1. /\ op'.name = "checkin" /\ op'.req = op.req /\ op'.todo = Tail(op.todo) /\ op'.ref = op.ref
        /\ alive' = alive /\ out' = out /\ dead' = dead /\ toMap' = toMap
        /\ op.name = "checkin" /\ op.todo # <<>>
    BY <1>11 DEF CheckinStep, HomeType
  <2>2. QED
    BY <2>1, GoesOn
<1>12. ASSUME NEW m \in Mems, MallocColl(m)
       PROVE  CallInv'
  <2>1. op' = op /\ op = Idle /\ out' = out /\ alive \subseteq alive'
    BY <1>12 DEF MallocColl
  <2>2. QED
    BY <1>0, <2>1 DEF CallInv, Lives
<1>13. ASSUME NEW m \in Mems, FreeColl(m)
       PROVE  CallInv'
  <2>1. /\ op' = op /\ op = Idle /\ out' = out /\ alive' = alive \ {m}
        /\ \A q \in CheckoutRequests : q[1] \in m => out[q] = 0
    BY <1>13 DEF FreeColl
  <2>2. ASSUME NEW q \in CheckoutRequests, out[q] > 0
        PROVE  Lives(q)'
    <3>1. PICK o \in alive : \A i \in DOMAIN q : q[i] \in o
      BY <2>2 DEF CallInv, Lives
    <3>2. 1 \in DOMAIN q
      BY HomeFacts
    <3>3. o # m
      BY <2>1, <2>2, <3>1, <3>2
    <3>4. QED
      BY <2>1, <3>1, <3>3 DEF Lives
  <2>3. QED
    BY <1>0, <2>1, <2>2 DEF CallInv
<1>14. QED
  BY <1>1, <1>2, <1>3, <1>5, <1>6, <1>7, <1>8, <1>9, <1>10, <1>11, <1>12, <1>13 DEF HomeStep

-----------------------------------------------------------------------------
(* Keys.                                                                    *)

\* The next segment of a checkout is one of an allocation that exists.
LEMMA NextSegment ==
  ASSUME HomeType, CallInv, op.name = "checkout" \/ op.name = "checkin", op.todo # <<>>
  PROVE  /\ Head(op.todo) \in Segs /\ Head(op.todo) # NoSeg
         /\ In(Head(op.todo), op.req)
         /\ \E m \in alive : Head(op.todo) \in m
<1>1. /\ op.todo \in Seq(Segs) /\ 1 \in DOMAIN op.todo /\ Head(op.todo) = op.todo[1]
      /\ op.todo[1] \in Segs
  BY DEF HomeType
<1>2. In(op.todo[1], op.req) /\ Lives(op.req)
  BY <1>1 DEF CallInv
<1>3. \E m \in alive : op.todo[1] \in m
  BY <1>2 DEF In, Lives
<1>4. op.todo[1] # NoSeg
  BY <1>1, HomeFacts
<1>5. QED
  BY <1>1, <1>2, <1>3, <1>4

\* The slot that checkout_seg takes for a segment that is not in the table: its
\* entry does not wait to be mapped, so its mapping is of the old segment.
LEMMA MissFacts ==
  ASSUME HomeInv, op.name = "checkout", op.todo # <<>>,
         SlotOf(Head(op.todo)) = {}, EmptySlots # {}
  PROVE  /\ FirstEmpty \in Slots
         /\ ~Queued(FirstEmpty)
         /\ slot[FirstEmpty].ref = 0
         /\ slot[FirstEmpty].addr = slot[FirstEmpty].key
         /\ slot[FirstEmpty].mapped = slot[FirstEmpty].key
         /\ slot[FirstEmpty].key # Head(op.todo)
         /\ Attached(FirstEmpty) =
              [key |-> Head(op.todo), addr |-> Head(op.todo), mapped |-> slot[FirstEmpty].mapped,
               ref |-> IF op.ref THEN 1 ELSE 0]
<1> DEFINE s == FirstEmpty
<1> USE DEF HomeInv
<1>1. s \in Slots /\ (slot[s].key = NoSeg \/ slot[s].ref = 0)
  BY FirstEmptyIs
<1> HIDE DEF s
<1>2. slot[s].addr = slot[s].key /\ slot[s].ref = 0
  BY <1>1 DEF KeysInv, EmptyEntry
<1>3. ~Queued(s)
  <2>1. SUFFICES ASSUME NEW i \in DOMAIN toMap, toMap[i] = s
                 PROVE  FALSE
    BY DEF Queued
  <2>2. slot[s].ref > 0 \/ Touches(op, slot[s].key)
    BY <2>1 DEF MapInv
  <2>3. QED
    BY <1>2, <2>2 DEF Touches
<1>4. slot[s].mapped = slot[s].key
  BY <1>1, <1>2, <1>3 DEF MapInv
<1>5. slot[s].key # Head(op.todo)
  BY <1>1 DEF SlotOf
<1>6. Attached(s) = [key |-> Head(op.todo), addr |-> Head(op.todo), mapped |-> slot[s].mapped,
                     ref |-> IF op.ref THEN 1 ELSE 0]
  BY <1>2, <1>4, <1>5 DEF Attached
<1>7. QED
  BY <1>1, <1>2, <1>3, <1>4, <1>5, <1>6 DEF s

\* The entry of a segment that is in the table.
LEMMA HitFacts ==
  ASSUME HomeInv, op.name = "checkout", op.todo # <<>>, NEW s \in SlotOf(Head(op.todo))
  PROVE  /\ s \in Slots
         /\ slot[s].key = Head(op.todo) /\ slot[s].addr = Head(op.todo)
         /\ Attached(s) =
              [key |-> Head(op.todo), addr |-> Head(op.todo), mapped |-> slot[s].mapped,
               ref |-> IF op.ref THEN slot[s].ref + 1 ELSE slot[s].ref]
<1>1. s \in Slots /\ slot[s].key = Head(op.todo)
  BY DEF SlotOf
<1>2. slot[s].addr = Head(op.todo)
  BY <1>1 DEF HomeInv, KeysInv
<1>3. QED
  BY <1>1, <1>2 DEF Attached

\* checkout_seg with the slot that it takes.
Takes(s) ==
  /\ op.name = "checkout" /\ op.todo # <<>>
  /\ s \in Slots
  /\ slot[s].key = Head(op.todo) \/ (SlotOf(Head(op.todo)) = {} /\ ~Queued(s) /\ slot[s].ref = 0)
  /\ slot[s].addr = slot[s].key
  /\ slot[s].key # Head(op.todo) => slot[s].mapped = slot[s].key
  /\ slot' = [slot EXCEPT ![s] = [key |-> Head(op.todo), addr |-> Head(op.todo), mapped |-> slot[s].mapped,
                                  ref |-> IF op.ref THEN slot[s].ref + 1 ELSE slot[s].ref]]
  /\ toMap' = IF Head(op.todo) # slot[s].mapped THEN Append(toMap, s) ELSE toMap
  /\ op' = [op EXCEPT !.todo = Tail(@)]
  /\ tlb' = TlbAdd(tlb, Head(op.todo), s)
       \/ (slot[s].key # NoSeg /\ tlb' = TlbAdd({}, Head(op.todo), s))
  /\ slot[s].key # Head(op.todo) /\ slot[s].key # NoSeg => tlb' = TlbAdd({}, Head(op.todo), s)
  /\ UNCHANGED <<vm, alive, out, dead>>

LEMMA TakesSlot ==
  ASSUME HomeInv, CheckoutHit \/ CheckoutMiss
  PROVE  \E s \in Slots : Takes(s)
<1>0. HomeType
  BY DEF HomeInv
<1>1. CASE CheckoutHit
  <2>1. PICK s \in SlotOf(Head(op.todo)) : Attach(s, slot[s]) /\ tlb' = TlbAdd(tlb, Head(op.todo), s)
    BY <1>1 DEF CheckoutHit
  <2>2. op.name = "checkout" /\ op.todo # <<>>
    BY <1>1 DEF CheckoutHit
  <2>3. /\ s \in Slots
        /\ slot[s].key = Head(op.todo) /\ slot[s].addr = Head(op.todo)
        /\ Attached(s) =
             [key |-> Head(op.todo), addr |-> Head(op.todo), mapped |-> slot[s].mapped,
              ref |-> IF op.ref THEN slot[s].ref + 1 ELSE slot[s].ref]
    BY <2>2, HitFacts
  <2>4. slot' = [slot EXCEPT ![s] = Attached(s)]
    BY <1>0, <2>1, <2>2, <2>3, AttachIs
  <2>5. /\ toMap' = IF Head(op.todo) # slot[s].mapped THEN Append(toMap, s) ELSE toMap
        /\ op' = [op EXCEPT !.todo = Tail(@)]
        /\ UNCHANGED <<vm, alive, out, dead>>
    BY <2>1 DEF Attach
  <2>6. QED
    BY <2>1, <2>2, <2>3, <2>4, <2>5 DEF Takes
<1>2. CASE CheckoutMiss
  <2> DEFINE s == FirstEmpty
  <2>1. /\ op.name = "checkout" /\ op.todo # <<>> /\ SlotOf(Head(op.todo)) = {} /\ EmptySlots # {}
        /\ Attach(s, slot[s])
        /\ tlb' = TlbAdd(IF slot[s].key = NoSeg THEN tlb ELSE {}, Head(op.todo), s)
    BY <1>2 DEF CheckoutMiss
  <2>2. /\ s \in Slots /\ ~Queued(s) /\ slot[s].ref = 0
        /\ slot[s].addr = slot[s].key /\ slot[s].mapped = slot[s].key
        /\ slot[s].key # Head(op.todo)
        /\ Attached(s) =
             [key |-> Head(op.todo), addr |-> Head(op.todo), mapped |-> slot[s].mapped,
              ref |-> IF op.ref THEN 1 ELSE 0]
    BY <2>1, MissFacts
  <2> HIDE DEF s
  <2>3. slot' = [slot EXCEPT ![s] = Attached(s)]
    BY <1>0, <2>1, <2>2, AttachIs
  <2>4. Attached(s) =
          [key |-> Head(op.todo), addr |-> Head(op.todo), mapped |-> slot[s].mapped,
           ref |-> IF op.ref THEN slot[s].ref + 1 ELSE slot[s].ref]
    BY <2>2
  <2>5. /\ toMap' = IF Head(op.todo) # slot[s].mapped THEN Append(toMap, s) ELSE toMap
        /\ op' = [op EXCEPT !.todo = Tail(@)]
        /\ UNCHANGED <<vm, alive, out, dead>>
    BY <2>1 DEF Attach
  <2>6. Takes(s)
    BY <2>1, <2>2, <2>3, <2>4, <2>5 DEF Takes
  <2>7. QED
    BY <2>2, <2>6
<1>3. QED
  BY <1>1, <1>2

\* checkout_fast and checkin: a step that only counts the next segment.
Counts(s) ==
  /\ op.name = "checkout" \/ op.name = "checkin"
  /\ op.todo # <<>>
  /\ s \in Slots /\ slot[s].key = Head(op.todo)
  /\ \A t \in Slots :
       /\ slot'[t].key = slot[t].key /\ slot'[t].addr = slot[t].addr /\ slot'[t].mapped = slot[t].mapped
       /\ t # s => slot'[t] = slot[t]
  /\ slot'[s].ref = IF op.name = "checkin" THEN slot[s].ref - 1
                    ELSE IF op.ref THEN slot[s].ref + 1 ELSE slot[s].ref
  /\ op' = [op EXCEPT !.todo = Tail(@)]
  /\ UNCHANGED <<lru, tlb, toMap, vm, alive, out, dead>>

\* A call for one segment has only that one to do.
LEMMA OneToDo ==
  ASSUME HomeType, CallInv, op.name = "checkout" \/ op.name = "checkin", op.todo # <<>>,
         Len(op.req) = 1
  PROVE  Head(op.todo) = op.req[1] /\ Tail(op.todo) = <<>>
<1>0. op.req \in Seq(Segs)
  <2>1. op.name # "idle"
    OBVIOUS
  <2>2. QED
    BY <2>1, OpFacts
<1>1. /\ op.todo \in Seq(Segs) /\ 1 \in DOMAIN op.todo /\ Head(op.todo) = op.todo[1]
      /\ op.req \in Seq(Segs)
  BY <1>0 DEF HomeType
<1>2. DOMAIN op.req = {1}
  BY <1>1
<1>3. \A i \in DOMAIN op.todo : op.todo[i] = op.req[1]
  BY <1>2 DEF CallInv, In
<1>4. \A i \in DOMAIN op.todo : i = 1
  BY <1>1, <1>3 DEF CallInv
<1>5. Len(op.todo) = 1
  <2>1. Len(op.todo) \in DOMAIN op.todo
    BY <1>1
  <2>2. QED
    BY <1>4, <2>1
<1>6. QED
  BY <1>1, <1>3, <1>5

LEMMA CountsSlot ==
  ASSUME HomeInv, CheckoutFast \/ CheckinStep
  PROVE  \E s \in Slots : Counts(s)
<1>0. HomeType /\ CallInv /\ KeysInv
  BY DEF HomeInv
<1>1. CASE CheckoutFast
  <2>1. /\ op.name = "checkout" /\ Len(op.req) = 1 /\ op.todo # <<>>
        /\ op' = [op EXCEPT !.todo = <<>>]
        /\ UNCHANGED <<lru, tlb, toMap, vm, alive, out, dead>>
    BY <1>1 DEF CheckoutFast
  <2>2. PICK s \in TlbGet(op.req[1]) :
          slot' = [slot EXCEPT ![s].ref = IF op.ref THEN @ + 1 ELSE @]
    BY <1>1 DEF CheckoutFast
  <2>3. Head(op.todo) = op.req[1] /\ Tail(op.todo) = <<>>
    BY <1>0, <2>1, OneToDo
  <2>4. Head(op.todo) \in Segs
    BY <1>0, <2>1, NextSegment
  <2>5. s \in Slots /\ slot[s].key = Head(op.todo)
    BY <1>0, <2>2, <2>3, <2>4 DEF TlbGet, KeysInv
  <2>6. /\ \A t \in Slots :
             /\ slot'[t].key = slot[t].key /\ slot'[t].addr = slot[t].addr /\ slot'[t].mapped = slot[t].mapped
             /\ t # s => slot'[t] = slot[t]
        /\ slot'[s].ref = IF op.ref THEN slot[s].ref + 1 ELSE slot[s].ref
    BY <1>0, <2>2, <2>5 DEF HomeType, EntryType
  <2>7. op' = [op EXCEPT !.todo = Tail(@)]
    BY <2>1, <2>3
  <2>8. QED
    BY <2>1, <2>5, <2>6, <2>7 DEF Counts
<1>2. CASE CheckinStep
  <2>1. /\ op.name = "checkin" /\ op.todo # <<>>
        /\ op' = [op EXCEPT !.todo = Tail(@)]
        /\ UNCHANGED <<lru, tlb, toMap, vm, alive, out, dead>>
    BY <1>2 DEF CheckinStep
  <2>2. PICK s \in SlotOf(Head(op.todo)) \cup
               (IF Len(op.req) = 1 THEN TlbGet(Head(op.todo)) ELSE {}) :
          slot' = [slot EXCEPT ![s].ref = @ - 1]
    BY <1>2 DEF CheckinStep, Unref
  <2>4. Head(op.todo) \in Segs
    BY <1>0, <2>1, NextSegment
  <2>5. s \in Slots /\ slot[s].key = Head(op.todo)
    BY <1>0, <2>2, <2>4 DEF TlbGet, SlotOf, KeysInv
  <2>6. /\ \A t \in Slots :
             /\ slot'[t].key = slot[t].key /\ slot'[t].addr = slot[t].addr /\ slot'[t].mapped = slot[t].mapped
             /\ t # s => slot'[t] = slot[t]
        /\ slot'[s].ref = slot[s].ref - 1
    BY <1>0, <2>2, <2>5 DEF HomeType, EntryType
  <2>8. QED
    BY <2>1, <2>5, <2>6 DEF Counts
<1>3. QED
  BY <1>1, <1>2

\* The other steps of a call, as far as the table is concerned.
LEMMA CallStepsKeepTable ==
  ASSUME HomeStep
  PROVE  \/ CheckoutFast \/ CheckinStep \/ CheckoutHit \/ CheckoutMiss \/ CheckoutComplete
         \/ UNCHANGED <<slot, lru, tlb, toMap, vm, alive>>
BY DEF HomeStep, CheckinCall, CheckoutCall, CheckoutDies, CheckoutReturns, Copy, CheckinReturns

\* Every step keeps the keys apart.
LEMMA KeysStep ==
  ASSUME HomeInv, HomeStep \/ (\E m \in Mems : MallocColl(m) \/ FreeColl(m))
  PROVE  KeysInv'
<1>0. HomeType /\ CallInv /\ KeysInv /\ MapInv
  BY DEF HomeInv
<1>1. ASSUME CheckoutFast \/ CheckinStep
      PROVE  KeysInv'
  <2>1. PICK s \in Slots : Counts(s)
    BY <1>1, CountsSlot
  <2>2. /\ \A t \in Slots : slot'[t].key = slot[t].key /\ slot'[t].addr = slot[t].addr
        /\ \A t \in Slots : t # s => slot'[t] = slot[t]
        /\ tlb' = tlb /\ alive' = alive
    BY <2>1 DEF Counts
  <2>3. slot[s].key # NoSeg
    BY <1>0, <2>1, NextSegment DEF Counts
  <2>4. QED
    BY <1>0, <2>2, <2>3 DEF KeysInv
<1>2. ASSUME CheckoutHit \/ CheckoutMiss
      PROVE  KeysInv'
  <2>1. PICK s \in Slots : Takes(s)
    BY <1>2, TakesSlot
  <2> DEFINE seg == Head(op.todo)
  <2>2. seg # NoSeg /\ seg \in Segs /\ \E m \in alive : seg \in m
    BY <1>0, <2>1, NextSegment DEF Takes
  <2>3. /\ slot'[s].key = seg /\ slot'[s].addr = seg
        /\ \A t \in Slots : t # s => slot'[t] = slot[t]
        /\ alive' = alive
    BY <1>0, <2>1 DEF Takes, HomeType
  <2>4. \A t \in Slots : t # s => slot[t].key # seg
    BY <1>0, <2>1, <2>2 DEF Takes, SlotOf, KeysInv
  <2>5. ASSUME NEW x \in Segs, NEW t \in Slots, <<x, t>> \in tlb'
        PROVE  slot'[t].key = x
    <3>1. CASE x = seg /\ t = s
      BY <2>3, <3>1
    <3>2. CASE <<x, t>> \in tlb /\ (slot[s].key = seg \/ slot[s].key = NoSeg)
      <4>1. slot[t].key = x /\ x # NoSeg
        BY <1>0, <3>2, HomeFacts DEF KeysInv
      <4>2. QED
        BY <2>3, <3>2, <4>1
    <3>3. (x = seg /\ t = s) \/ (<<x, t>> \in tlb /\ (slot[s].key = seg \/ slot[s].key = NoSeg))
      BY <2>1, <2>5 DEF Takes, TlbAdd
    <3>4. QED
      BY <3>1, <3>2, <3>3
  <2> HIDE DEF seg
  <2>6. QED
    BY <1>0, <2>2, <2>3, <2>4, <2>5 DEF KeysInv
<1>3. ASSUME CheckoutComplete
      PROVE  KeysInv'
  <2>1. tlb' = tlb /\ alive' = alive
    BY <1>3 DEF CheckoutComplete
  <2>2. \A s \in Slots :
          /\ slot'[s].key = slot[s].key /\ slot'[s].addr = slot[s].addr
          /\ ~Queued(s) => slot'[s] = slot[s]
    BY <1>0, <1>3 DEF CheckoutComplete, HomeType, EntryType, Queued
  <2>3. \A s \in Slots : Queued(s) => slot[s].key # NoSeg
    BY <1>0 DEF MapInv, KeysInv, Queued
  <2>4. QED
    BY <1>0, <2>1, <2>2, <2>3 DEF KeysInv
<1>4. ASSUME slot' = slot, tlb' = tlb, alive \subseteq alive'
      PROVE  KeysInv'
  BY <1>0, <1>4 DEF KeysInv
<1>5. ASSUME NEW m \in Mems, FreeColl(m)
      PROVE  KeysInv'
  <2>1. /\ alive' = alive \ {m}
        /\ tlb' = tlb \/ tlb' = {}
        /\ (\E s \in Slots : slot[s].key \in m) => tlb' = {}
        /\ \A s \in Slots : slot[s].key \in m => slot'[s] = EmptyEntry
        /\ \A s \in Slots : slot[s].key \notin m => slot'[s] = slot[s]
    BY <1>5 DEF FreeColl
  <2>2. EmptyEntry.key = NoSeg /\ EmptyEntry.addr = NoSeg
    BY DEF EmptyEntry
  <2>3. QED
    BY <1>0, <2>1, <2>2 DEF KeysInv
<1>6. ASSUME NEW m \in Mems, MallocColl(m)
      PROVE  slot' = slot /\ tlb' = tlb /\ alive \subseteq alive'
  BY <1>6 DEF MallocColl
<1>7. QED
  BY <1>1, <1>2, <1>3, <1>4, <1>5, <1>6, CallStepsKeepTable

-----------------------------------------------------------------------------
(* Reference counts.                                                        *)

\* The checkouts of a segment can be counted.
LEMMA UsersFinite ==
  ASSUME NEW seg
  PROVE  IsFiniteSet(UsersOf(seg)) /\ CheckoutsOf(seg) \in Nat
<1>1. IsFiniteSet(1..MaxOut) /\ IsFiniteSet(CheckoutRequests)
  BY HomeFacts, FS_Interval
<1>2. IsFiniteSet(CheckoutRequests \X (1..MaxOut))
  BY <1>1, FS_Product
<1>3. UsersOf(seg) \in SUBSET (CheckoutRequests \X (1..MaxOut))
  BY DEF UsersOf
<1>4. IsFiniteSet(UsersOf(seg))
  BY <1>2, <1>3, FS_Subset
<1>5. QED
  BY <1>4, FS_CardinalityType DEF CheckoutsOf

\* A request that is checked out once more counts its segments once more.
LEMMA MoreUsers ==
  ASSUME HomeType, NEW q \in CheckoutRequests, out[q] < MaxOut, out' = [out EXCEPT ![q] = @ + 1], NEW seg
  PROVE  CheckoutsOf(seg)' = CheckoutsOf(seg) + (IF In(seg, q) THEN 1 ELSE 0)
<1> DEFINE u == <<q, out[q] + 1>>
<1>1. out \in [CheckoutRequests -> 0..MaxOut] /\ out[q] \in Nat /\ out[q] + 1 \in 1..MaxOut
  BY HomeFacts DEF HomeType
<1>2. \A p \in CheckoutRequests, k \in 1..MaxOut : k <= out'[p] <=> k <= out[p] \/ <<p, k>> = u
  BY <1>1, HomeFacts
<1>3. UsersOf(seg)' = {v \in CheckoutRequests \X (1..MaxOut) : v[2] <= out'[v[1]] /\ In(seg, v[1])}
  BY DEF UsersOf, In
<1>4. UsersOf(seg) = {v \in CheckoutRequests \X (1..MaxOut) : v[2] <= out[v[1]] /\ In(seg, v[1])}
  BY DEF UsersOf, In
<1>5. u \in CheckoutRequests \X (1..MaxOut) /\ u[1] = q /\ u \notin UsersOf(seg)
  BY <1>1, <1>4
<1>6. \A v \in CheckoutRequests \X (1..MaxOut) :
        v[2] <= out'[v[1]] <=> v[2] <= out[v[1]] \/ v = u
  <2>1. SUFFICES ASSUME NEW v \in CheckoutRequests \X (1..MaxOut)
                 PROVE  v[2] <= out'[v[1]] <=> v[2] <= out[v[1]] \/ v = u
    OBVIOUS
  <2>2. PICK p \in CheckoutRequests, k \in 1..MaxOut : v = <<p, k>>
    OBVIOUS
  <2>3. QED
    BY <1>2, <2>2
<1> HIDE DEF u
<1>7. CASE In(seg, q)
  <2>1. UsersOf(seg)' = UsersOf(seg) \cup {u}
    BY <1>3, <1>4, <1>5, <1>6, <1>7
  <2>2. Cardinality(UsersOf(seg) \cup {u}) = Cardinality(UsersOf(seg)) + 1
    BY <1>5, UsersFinite, FS_AddElement
  <2>3. QED
    BY <1>7, <2>1, <2>2 DEF CheckoutsOf
<1>8. CASE ~In(seg, q)
  <2>1. UsersOf(seg)' = UsersOf(seg)
    BY <1>3, <1>4, <1>5, <1>6, <1>8
  <2>2. CheckoutsOf(seg) \in Nat
    BY UsersFinite
  <2>3. QED
    BY <1>8, <2>1, <2>2 DEF CheckoutsOf
<1>9. QED
  BY <1>7, <1>8

\* A request that is checked in counts its segments once less.
LEMMA LessUsers ==
  ASSUME HomeType, NEW q \in CheckoutRequests, out[q] > 0, out' = [out EXCEPT ![q] = @ - 1], NEW seg
  PROVE  CheckoutsOf(seg)' = CheckoutsOf(seg) - (IF In(seg, q) THEN 1 ELSE 0)
<1> DEFINE u == <<q, out[q]>>
<1>1. out \in [CheckoutRequests -> 0..MaxOut] /\ out[q] \in Nat /\ out[q] \in 1..MaxOut
  BY HomeFacts DEF HomeType
<1>2. \A p \in CheckoutRequests, k \in 1..MaxOut : k <= out'[p] <=> k <= out[p] /\ <<p, k>> # u
  BY <1>1, HomeFacts
<1>3. UsersOf(seg)' = {v \in CheckoutRequests \X (1..MaxOut) : v[2] <= out'[v[1]] /\ In(seg, v[1])}
  BY DEF UsersOf, In
<1>4. UsersOf(seg) = {v \in CheckoutRequests \X (1..MaxOut) : v[2] <= out[v[1]] /\ In(seg, v[1])}
  BY DEF UsersOf, In
<1>5. u \in CheckoutRequests \X (1..MaxOut) /\ u[1] = q /\ (In(seg, q) => u \in UsersOf(seg))
  BY <1>1, <1>4
<1>6. \A v \in CheckoutRequests \X (1..MaxOut) :
        v[2] <= out'[v[1]] <=> v[2] <= out[v[1]] /\ v # u
  <2>1. SUFFICES ASSUME NEW v \in CheckoutRequests \X (1..MaxOut)
                 PROVE  v[2] <= out'[v[1]] <=> v[2] <= out[v[1]] /\ v # u
    OBVIOUS
  <2>2. PICK p \in CheckoutRequests, k \in 1..MaxOut : v = <<p, k>>
    OBVIOUS
  <2>3. QED
    BY <1>2, <2>2
<1> HIDE DEF u
<1>7. CASE In(seg, q)
  <2>1. UsersOf(seg)' = UsersOf(seg) \ {u}
    BY <1>3, <1>4, <1>5, <1>6, <1>7
  <2>2. Cardinality(UsersOf(seg) \ {u}) = Cardinality(UsersOf(seg)) - 1
    BY <1>5, <1>7, UsersFinite, FS_RemoveElement
  <2>3. QED
    BY <1>7, <2>1, <2>2 DEF CheckoutsOf
<1>8. CASE ~In(seg, q)
  <2>1. UsersOf(seg)' = UsersOf(seg)
    BY <1>3, <1>4, <1>5, <1>6, <1>8
  <2>2. CheckoutsOf(seg) \in Nat
    BY UsersFinite
  <2>3. QED
    BY <1>8, <2>1, <2>2 DEF CheckoutsOf
<1>9. QED
  BY <1>7, <1>8

\* A segment that nothing checked out uses is counted for nothing.
LEMMA NoUsers ==
  ASSUME NEW seg, \A q \in CheckoutRequests : In(seg, q) => ~(out[q] > 0), HomeType
  PROVE  CheckoutsOf(seg) = 0
<1>1. UsersOf(seg) = {}
  <2>1. SUFFICES ASSUME NEW v \in CheckoutRequests \X (1..MaxOut), v[2] <= out[v[1]], In(seg, v[1])
                 PROVE  FALSE
    BY DEF UsersOf, In
  <2>2. PICK p \in CheckoutRequests, k \in 1..MaxOut : v = <<p, k>>
    OBVIOUS
  <2>3. out[p] \in Int /\ k <= out[p] /\ In(seg, p) /\ k >= 1
    BY <2>1, <2>2 DEF HomeType
  <2>4. QED
    BY <2>3
<1>2. QED
  BY <1>1, FS_EmptySet DEF CheckoutsOf

\* A segment that something has checked out is counted.
LEMMA SomeUser ==
  ASSUME HomeType, NEW q \in CheckoutRequests, out[q] > 0, NEW seg, In(seg, q)
  PROVE  CheckoutsOf(seg) > 0
<1>1. out[q] \in 1..MaxOut
  BY HomeFacts DEF HomeType
<1>2. <<q, 1>> \in UsersOf(seg)
  BY <1>1, HomeFacts DEF UsersOf, In
<1>3. Cardinality(UsersOf(seg)) # 0
  BY <1>2, UsersFinite, FS_EmptySet
<1>4. QED
  BY <1>3, UsersFinite DEF CheckoutsOf

LEMMA SameUsers ==
  ASSUME out' = out
  PROVE  \A seg : CheckoutsOf(seg)' = CheckoutsOf(seg)
BY DEF CheckoutsOf, UsersOf

\* What a segment is to be counted changes only in the steps that count it.
LEMMA SameRefs ==
  ASSUME HomeType, CallInv, dead' = FALSE, NEW seg \in Segs,
         HomeStep, ~CheckoutFast, ~CheckinStep, ~CheckoutHit, ~CheckoutMiss
  PROVE  RefOf(seg)' = RefOf(seg)
<1>0. /\ Idle.ref = FALSE /\ CheckoutsOf(seg) \in Nat
      /\ op.ref \in BOOLEAN /\ ~In(seg, <<>>)
  BY UsersFinite DEF Idle, HomeType, In
<1>1. ASSUME NEW q \in CheckoutRequests, NEW ref \in BOOLEAN, CheckoutCall(q, ref)
      PROVE  RefOf(seg)' = RefOf(seg)
  <2>1. op = Idle /\ op'.name = "checkout" /\ op'.req = q /\ op'.todo = q /\ out' = out
    BY <1>1 DEF CheckoutCall
  <2>2. ~Held(seg) /\ ~Held(seg)'
    BY <1>0, <2>1 DEF Held
  <2>3. QED
    BY <2>1, <2>2, SameUsers DEF RefOf
<1>2. ASSUME NEW q \in CheckoutRequests, CheckinCall(q)
      PROVE  RefOf(seg)' = RefOf(seg)
  <2>1. /\ op = Idle /\ out[q] > 0 /\ out' = [out EXCEPT ![q] = @ - 1]
        /\ op'.name = "checkin" /\ op'.req = q /\ op'.todo = q /\ op'.ref = TRUE
    BY <1>2 DEF CheckinCall
  <2>2. ~Held(seg)
    BY <1>0, <2>1 DEF Held
  <2>3. Held(seg)' <=> In(seg, q)
    BY <2>1 DEF Held
  <2>4. CheckoutsOf(seg)' = CheckoutsOf(seg) - (IF In(seg, q) THEN 1 ELSE 0)
    BY <2>1, LessUsers
  <2> HIDE DEF In
  <2>5. QED
    BY <1>0, <2>2, <2>3, <2>4 DEF RefOf
<1>3. ASSUME CheckoutDies
      PROVE  FALSE
  BY <1>3 DEF CheckoutDies
<1>4. ASSUME CheckoutReturns
      PROVE  RefOf(seg)' = RefOf(seg)
  <2>1. op.name = "checkout" /\ op.todo = <<>>
    BY <1>4 DEF CheckoutReturns
  <2>2. CASE op.ref = TRUE
    <3>1. op.req \in CheckoutRequests /\ out[op.req] < MaxOut
      BY <2>1, <2>2 DEF CallInv
    <3>2. out' = [out EXCEPT ![op.req] = @ + 1] /\ op' = Idle
      BY <1>4, <2>2 DEF CheckoutReturns
    <3>3. CheckoutsOf(seg)' = CheckoutsOf(seg) + (IF In(seg, op.req) THEN 1 ELSE 0)
      <4>1. PICK q \in CheckoutRequests : q = op.req
        BY <3>1
      <4>2. CheckoutsOf(seg)' = CheckoutsOf(seg) + (IF In(seg, q) THEN 1 ELSE 0)
        BY <3>1, <3>2, <4>1, MoreUsers
      <4>3. QED
        BY <4>1, <4>2
    <3>4. Held(seg) <=> In(seg, op.req)
      BY <1>0, <2>1, <2>2 DEF Held
    <3>5. ~Held(seg)'
      BY <1>0, <3>2 DEF Held
    <3>6. QED
      BY <1>0, <3>3, <3>4, <3>5 DEF RefOf
  <2>3. CASE op.ref = FALSE
    <3>1. out' = out /\ op'.ref = FALSE
      BY <1>4, <2>3 DEF CheckoutReturns, HomeType
    <3>2. ~Held(seg) /\ ~Held(seg)'
      BY <2>3, <3>1 DEF Held
    <3>3. QED
      BY <3>1, <3>2, SameUsers DEF RefOf
  <2>4. QED
    BY <1>0, <2>2, <2>3
<1>5. ASSUME CheckoutComplete
      PROVE  RefOf(seg)' = RefOf(seg)
  <2>1. /\ out' = out
        /\ op.name = "complete" \/ op = Idle
        /\ op' = IF op = Idle THEN Idle ELSE [op EXCEPT !.name = "copy"]
    BY <1>5 DEF CheckoutComplete
  <2>2. op.ref = FALSE
    BY <1>0, <2>1 DEF CallInv
  <2>3. op'.ref = FALSE
    BY <1>0, <2>1, <2>2 DEF HomeType
  <2>4. ~Held(seg) /\ ~Held(seg)'
    BY <2>2, <2>3 DEF Held
  <2>5. QED
    BY <2>1, <2>4, SameUsers DEF RefOf
<1>6. ASSUME Copy \/ CheckinReturns
      PROVE  RefOf(seg)' = RefOf(seg)
  <2>1. out' = out /\ op' = Idle /\ (op.name = "copy" \/ (op.name = "checkin" /\ op.todo = <<>>))
    BY <1>6 DEF Copy, CheckinReturns
  <2>2. ~Held(seg) /\ ~Held(seg)'
    BY <1>0, <2>1 DEF Held
  <2>3. QED
    BY <2>1, <2>2, SameUsers DEF RefOf
<1>7. QED
  BY <1>1, <1>2, <1>3, <1>4, <1>5, <1>6 DEF HomeStep

\* A step that counts the next segment is to count it.
LEMMA NextRefs ==
  ASSUME HomeType, CallInv, op.name = "checkout" \/ op.name = "checkin", op.todo # <<>>,
         op' = [op EXCEPT !.todo = Tail(@)], out' = out, NEW seg \in Segs
  PROVE  /\ seg # Head(op.todo) => RefOf(seg)' = RefOf(seg)
         /\ seg = Head(op.todo) => RefOf(seg)' = IF op.name = "checkin" THEN RefOf(seg) - 1
                                                 ELSE IF op.ref THEN RefOf(seg) + 1 ELSE RefOf(seg)
<1>1. /\ op'.name = op.name /\ op'.req = op.req /\ op'.ref = op.ref /\ op'.todo = Tail(op.todo)
      /\ op.ref \in BOOLEAN
  BY DEF HomeType
<1>2. /\ op.todo \in Seq(Segs)
      /\ \A i, j \in DOMAIN op.todo : op.todo[i] = op.todo[j] => i = j
      /\ op.name = "checkin" => op.ref = TRUE
  BY DEF HomeType, CallInv
<1>3. /\ In(Head(op.todo), op.todo) /\ ~In(Head(op.todo), Tail(op.todo))
      /\ In(seg, Tail(op.todo)) <=> In(seg, op.todo) /\ seg # Head(op.todo)
  BY <1>2, TailIs
<1>4. In(Head(op.todo), op.req)
  BY NextSegment
<1>5. CheckoutsOf(seg)' = CheckoutsOf(seg) /\ CheckoutsOf(seg) \in Nat
  BY SameUsers, UsersFinite
<1>6. Held(seg)' <=> /\ op.ref = TRUE
                     /\ \/ op.name = "checkout" /\ In(seg, op.req) /\ ~In(seg, Tail(op.todo))
                        \/ op.name = "checkin" /\ In(seg, Tail(op.todo))
  BY <1>1 DEF Held
<1>7. seg # Head(op.todo) => (Held(seg)' <=> Held(seg))
  BY <1>3, <1>6 DEF Held
<1>8. seg = Head(op.todo) =>
        /\ Held(seg)' <=> op.name = "checkout" /\ op.ref = TRUE
        /\ Held(seg) <=> op.name = "checkin"
  BY <1>2, <1>3, <1>4, <1>6 DEF Held
<1>9. QED
  BY <1>1, <1>2, <1>5, <1>7, <1>8 DEF RefOf

\* Every step keeps the reference counts.
LEMMA RefsStep ==
  ASSUME HomeInv, HomeStep \/ (\E m \in Mems : MallocColl(m) \/ FreeColl(m))
  PROVE  RefsInv'
<1>0. HomeType /\ CallInv /\ KeysInv /\ RefsInv /\ MapInv /\ HomeType'
  BY HomeTypeStep DEF HomeInv
<1> SUFFICES ASSUME dead' = FALSE
    PROVE  \A seg \in Segs :
             /\ \A s \in Slots : slot'[s].key = seg => slot'[s].ref = RefOf(seg)'
             /\ (\A s \in Slots : slot'[s].key # seg) => RefOf(seg)' = 0
  BY DEF RefsInv
<1>1. dead = FALSE
  BY <1>0 DEF HomeStep, CheckinCall, CheckoutCall, CheckoutFast, CheckoutHit, CheckoutMiss, Attach,
       CheckoutDies, CheckoutReturns, CheckoutComplete, Copy, CheckinStep, CheckinReturns,
       MallocColl, FreeColl
<1>2. \A seg \in Segs :
        /\ RefOf(seg) \in Nat
        /\ \A s \in Slots : slot[s].key = seg => slot[s].ref = RefOf(seg)
        /\ (\A s \in Slots : slot[s].key # seg) => RefOf(seg) = 0
  <2>1. \A seg \in Segs : RefOf(seg) \in Nat
    BY UsersFinite DEF RefOf
  <2>2. QED
    BY <1>0, <1>1, <2>1 DEF RefsInv
<1>3. ASSUME CheckoutFast \/ CheckinStep
      PROVE  \A seg \in Segs :
               /\ \A s \in Slots : slot'[s].key = seg => slot'[s].ref = RefOf(seg)'
               /\ (\A s \in Slots : slot'[s].key # seg) => RefOf(seg)' = 0
  <2>1. PICK s \in Slots : Counts(s)
    BY <1>3, CountsSlot
  <2>2. /\ \A t \in Slots : slot'[t].key = slot[t].key
        /\ \A t \in Slots : t # s => slot'[t] = slot[t]
        /\ slot[s].key = Head(op.todo)
        /\ slot'[s].ref = IF op.name = "checkin" THEN slot[s].ref - 1
                          ELSE IF op.ref THEN slot[s].ref + 1 ELSE slot[s].ref
        /\ op.name = "checkout" \/ op.name = "checkin"
        /\ op.todo # <<>> /\ op' = [op EXCEPT !.todo = Tail(@)] /\ out' = out
    BY <2>1 DEF Counts
  <2>3. \A seg \in Segs :
          /\ seg # Head(op.todo) => RefOf(seg)' = RefOf(seg)
          /\ seg = Head(op.todo) => RefOf(seg)' = IF op.name = "checkin" THEN RefOf(seg) - 1
                                                  ELSE IF op.ref THEN RefOf(seg) + 1 ELSE RefOf(seg)
    BY <1>0, <2>2, NextRefs
  <2>4. \A t \in Slots : slot[t].key = slot[s].key => t = s
    <3>1. slot[s].key # NoSeg
      BY <1>0, <2>2, NextSegment
    <3>2. QED
      BY <1>0, <3>1 DEF KeysInv
  <2>5. QED
    BY <1>2, <2>2, <2>3, <2>4
<1>4. ASSUME CheckoutHit \/ CheckoutMiss
      PROVE  \A seg \in Segs :
               /\ \A s \in Slots : slot'[s].key = seg => slot'[s].ref = RefOf(seg)'
               /\ (\A s \in Slots : slot'[s].key # seg) => RefOf(seg)' = 0
  <2>1. PICK s \in Slots : Takes(s)
    BY <1>4, TakesSlot
  <2>2. /\ \A t \in Slots : t # s => slot'[t] = slot[t]
        /\ slot'[s].key = Head(op.todo)
        /\ slot'[s].ref = IF op.ref THEN slot[s].ref + 1 ELSE slot[s].ref
        /\ op.name = "checkout"
        /\ op.todo # <<>> /\ op' = [op EXCEPT !.todo = Tail(@)] /\ out' = out
    BY <1>0, <2>1 DEF Takes, HomeType
  <2>3. \A seg \in Segs :
          /\ seg # Head(op.todo) => RefOf(seg)' = RefOf(seg)
          /\ seg = Head(op.todo) => RefOf(seg)' = IF op.ref THEN RefOf(seg) + 1 ELSE RefOf(seg)
    <3>1. \A seg \in Segs :
            /\ seg # Head(op.todo) => RefOf(seg)' = RefOf(seg)
            /\ seg = Head(op.todo) => RefOf(seg)' = IF op.name = "checkin" THEN RefOf(seg) - 1
                                                    ELSE IF op.ref THEN RefOf(seg) + 1 ELSE RefOf(seg)
      BY <1>0, <2>2, NextRefs
    <3>2. op.name # "checkin"
      BY <2>2
    <3>3. QED
      BY <3>1, <3>2
  <2>4. Head(op.todo) \in Segs
    BY <1>0, <2>2, NextSegment
  <2>5. slot[s].ref = RefOf(Head(op.todo))
    <3>1. CASE slot[s].key = Head(op.todo)
      BY <1>2, <2>4, <3>1
    <3>2. CASE SlotOf(Head(op.todo)) = {} /\ slot[s].ref = 0
      <4>1. \A t \in Slots : slot[t].key # Head(op.todo)
        BY <3>2 DEF SlotOf
      <4>2. QED
        BY <1>2, <2>4, <3>2, <4>1
    <3>3. QED
      BY <2>1, <3>1, <3>2 DEF Takes
  <2>6. \A t \in Slots : t # s => slot[t].key # Head(op.todo)
    <3>1. Head(op.todo) # NoSeg
      BY <1>0, <2>2, NextSegment
    <3>2. QED
      BY <1>0, <2>1, <3>1 DEF Takes, SlotOf, KeysInv
  <2>7. \A seg \in Segs : slot[s].key = seg /\ seg # Head(op.todo) => RefOf(seg) = 0
    <3>1. slot[s].key # Head(op.todo) => slot[s].ref = 0
      BY <2>1 DEF Takes
    <3>2. QED
      BY <1>2, <3>1
  <2>8. ASSUME NEW seg \in Segs
        PROVE  /\ \A t \in Slots : slot'[t].key = seg => slot'[t].ref = RefOf(seg)'
               /\ (\A t \in Slots : slot'[t].key # seg) => RefOf(seg)' = 0
    <3>1. CASE seg = Head(op.todo)
      BY <2>2, <2>3, <2>4, <2>5, <2>6, <3>1
    <3>2. CASE seg # Head(op.todo)
      <4>1. RefOf(seg)' = RefOf(seg)
        BY <2>3, <3>2
      <4>2. \A t \in Slots : slot'[t].key = seg => slot'[t].ref = RefOf(seg)
        BY <1>2, <2>2, <3>2
      <4>3. (\A t \in Slots : slot'[t].key # seg) => RefOf(seg) = 0
        BY <1>2, <2>2, <2>7, <3>2
      <4>4. QED
        BY <4>1, <4>2, <4>3
    <3>3. QED
      BY <3>1, <3>2
  <2>9. QED
    BY <2>8
<1>5. ASSUME HomeStep, ~CheckoutFast, ~CheckinStep, ~CheckoutHit, ~CheckoutMiss
      PROVE  \A seg \in Segs :
               /\ \A s \in Slots : slot'[s].key = seg => slot'[s].ref = RefOf(seg)'
               /\ (\A s \in Slots : slot'[s].key # seg) => RefOf(seg)' = 0
  <2>1. \A seg \in Segs : RefOf(seg)' = RefOf(seg)
    BY <1>0, <1>5, SameRefs
  <2>2. \A s \in Slots : slot'[s].key = slot[s].key /\ slot'[s].ref = slot[s].ref
    <3>1. CASE slot' = slot
      BY <3>1
    <3>2. CASE CheckoutComplete
      BY <1>0, <3>2 DEF CheckoutComplete, HomeType, EntryType
    <3>3. QED
      BY <1>5, <3>1, <3>2, CallStepsKeepTable
  <2>3. QED
    BY <1>2, <2>1, <2>2
<1>6. ASSUME NEW m \in Mems, MallocColl(m)
      PROVE  \A seg \in Segs :
               /\ \A s \in Slots : slot'[s].key = seg => slot'[s].ref = RefOf(seg)'
               /\ (\A s \in Slots : slot'[s].key # seg) => RefOf(seg)' = 0
  <2>1. slot' = slot /\ out' = out /\ op' = op
    BY <1>6 DEF MallocColl
  <2>2. \A seg \in Segs : RefOf(seg)' = RefOf(seg)
    BY <2>1, SameUsers DEF RefOf, Held
  <2>3. QED
    BY <1>2, <2>1, <2>2
<1>7. ASSUME NEW m \in Mems, FreeColl(m)
      PROVE  \A seg \in Segs :
               /\ \A s \in Slots : slot'[s].key = seg => slot'[s].ref = RefOf(seg)'
               /\ (\A s \in Slots : slot'[s].key # seg) => RefOf(seg)' = 0
  <2>1. /\ out' = out /\ op' = op /\ op = Idle /\ m \in alive
        /\ \A q \in CheckoutRequests : q[1] \in m => out[q] = 0
        /\ \A s \in Slots : slot[s].key \in m => slot'[s] = EmptyEntry
        /\ \A s \in Slots : slot[s].key \notin m => slot'[s] = slot[s]
    BY <1>7 DEF FreeColl
  <2>2. \A seg \in Segs : RefOf(seg)' = RefOf(seg)
    BY <2>1, SameUsers DEF RefOf, Held
  <2>3. ASSUME NEW seg \in m
        PROVE  RefOf(seg) = 0
    <3>1. ASSUME NEW q \in CheckoutRequests, In(seg, q), out[q] > 0
          PROVE  FALSE
      <4>1. PICK o \in alive : \A i \in DOMAIN q : q[i] \in o
        BY <1>0, <3>1 DEF CallInv, Lives
      <4>2. seg \in o /\ q[1] \in o
        BY <3>1, <4>1, HomeFacts DEF In
      <4>3. o \in Mems
        BY <1>0 DEF HomeType
      <4>4. o = m
        BY <4>2, <4>3, OneMem
      <4>5. QED
        BY <2>1, <3>1, <4>2, <4>4
    <3>2. CheckoutsOf(seg) = 0
      BY <1>0, <3>1, NoUsers
    <3>3. ~Held(seg)
      BY <2>1 DEF Held, Idle
    <3>4. QED
      BY <3>2, <3>3 DEF RefOf
  <2>4. EmptyEntry.key = NoSeg
    BY DEF EmptyEntry
  <2>5. ASSUME NEW seg \in Segs
        PROVE  /\ \A s \in Slots : slot'[s].key = seg => slot'[s].ref = RefOf(seg)
               /\ (\A s \in Slots : slot'[s].key # seg) => RefOf(seg) = 0
    <3>1. seg # NoSeg
      BY HomeFacts
    <3>2. \A s \in Slots : slot'[s].key = seg => slot'[s] = slot[s]
      BY <2>1, <2>4, <3>1
    <3>3. seg \notin m => \A s \in Slots : slot[s].key = seg => slot'[s].key = seg
      BY <2>1
    <3>4. QED
      BY <1>2, <2>3, <3>2, <3>3
  <2>6. QED
    BY <2>2, <2>5
<1>8. QED
  BY <1>3, <1>4, <1>5, <1>6, <1>7

-----------------------------------------------------------------------------
(* Mappings.                                                                *)

\* A step that changes no mapping and no key.
LEMMA SameMap ==
  ASSUME HomeType, MapInv, toMap' = toMap, vm' = vm, alive \subseteq alive',
         \A s \in Slots : slot'[s].key = slot[s].key /\ slot'[s].addr = slot[s].addr
                          /\ slot'[s].mapped = slot[s].mapped,
         \A i \in DOMAIN toMap : slot'[toMap[i]].ref > 0 \/ Touches(op', slot[toMap[i]].key),
         \A seg \in Segs : Touches(op', seg) => \E s \in Slots : slot[s].key = seg
  PROVE  MapInv'
<1>1. \A i \in DOMAIN toMap : toMap[i] \in Slots
  BY DEF HomeType
<1>2. vm' = {slot'[s].mapped : s \in Slots} \ {NoSeg}
  BY DEF MapInv
<1>3. /\ \A s, t \in Slots : slot'[s].mapped = slot'[t].mapped /\ slot'[s].mapped # NoSeg => s = t
      /\ \A s \in Slots : slot'[s].mapped # NoSeg => \E m \in alive' : slot'[s].mapped \in m
      /\ \A s \in Slots : slot'[s].addr # slot'[s].mapped => Queued(s)'
  BY DEF MapInv, Queued
<1>4. ASSUME NEW i \in DOMAIN toMap'
      PROVE  /\ slot'[toMap'[i]].addr # NoSeg
             /\ slot'[toMap'[i]].ref > 0 \/ Touches(op', slot'[toMap'[i]].key)
             /\ \A t \in Slots : slot'[t].mapped = slot'[toMap'[i]].addr /\ t # toMap'[i] =>
                  \E j \in 1..(i - 1) : toMap'[j] = t
  <2>1. PICK s \in Slots : s = toMap[i] /\ s = toMap'[i]
    BY <1>1
  <2>2. slot[s].addr # NoSeg
        /\ \A t \in Slots : slot[t].mapped = slot[s].addr /\ t # s => \E j \in 1..(i - 1) : toMap[j] = t
    BY <2>1 DEF MapInv
  <2>3. slot'[s].ref > 0 \/ Touches(op', slot'[s].key)
    BY <2>1
  <2>4. QED
    BY <2>1, <2>2, <2>3
<1>5. \A seg \in Segs : Touches(op', seg) => \E s \in Slots : slot'[s].key = seg
  OBVIOUS
<1>6. QED
  BY <1>2, <1>3, <1>4, <1>5 DEF MapInv

\* The first occurrence of a slot in the queue.
LEMMA FirstQueued ==
  ASSUME HomeType, NEW s \in Slots, Queued(s)
  PROVE  \E i \in DOMAIN toMap : toMap[i] = s /\ ~IsQueuedBefore(i)
<1> DEFINE D == {i \in DOMAIN toMap : toMap[i] = s}
<1>1. D \in SUBSET Nat /\ D # {}
  BY DEF Queued, HomeType
<1>2. PICK i \in D : \A j \in D : i <= j
  BY <1>1, Least, Zenon
<1>3. i \in DOMAIN toMap /\ toMap[i] = s /\ i \in Nat /\ DOMAIN toMap = 1..Len(toMap)
  BY <1>1 DEF HomeType
<1>4. ~IsQueuedBefore(i)
  <2>1. SUFFICES ASSUME NEW j \in 1..(i - 1), toMap[j] = toMap[i]
                 PROVE  FALSE
    BY DEF IsQueuedBefore
  <2>2. j \in D
    BY <1>3, <2>1
  <2>3. QED
    BY <1>2, <1>3, <2>2
<1>5. QED
  BY <1>3, <1>4

\* Where an entry is queued, its new segment is mapped; an entry's old segment
\* is the one that it has mapped, or the new one.
LEMMA OldIs ==
  ASSUME HomeType, NEW i \in DOMAIN toMap
  PROVE  /\ toMap[i] \in Slots /\ i \in Nat
         /\ IsQueuedBefore(i) => OldSegment(i) = slot[toMap[i]].addr
         /\ ~IsQueuedBefore(i) => OldSegment(i) = slot[toMap[i]].mapped
BY DEF HomeType, OldSegment

\* update_mapping of the queued entries in their order: every entry has its
\* segment mapped in the end, and nothing else is.
LEMMA MappingsAreUpdated ==
  ASSUME HomeType, KeysInv, MapInv
  PROVE  UpdateMappings(vm) = {slot[s].addr : s \in Slots} \ {NoSeg}
<1>0. /\ toMap \in Seq(Slots) /\ DOMAIN toMap = 1..Len(toMap) /\ Len(toMap) \in Nat
      /\ \A i \in DOMAIN toMap : toMap[i] \in Slots
      /\ \A s \in Slots : slot[s].addr \in Segs \cup {NoSeg} /\ slot[s].mapped \in Segs \cup {NoSeg}
  BY DEF HomeType, EntryType, Keys
<1>1. ASSUME NEW seg \in UpdateMappings(vm)
      PROVE  seg \in {slot[s].addr : s \in Slots} \ {NoSeg}
  <2>1. seg \in Segs /\ seg # NoSeg
    BY <1>1, HomeFacts DEF UpdateMappings
  <2>2. CASE MapsOf(seg) = {}
    <3>1. seg \in vm /\ UnmapsOf(seg) = {}
      BY <1>1, <2>2 DEF UpdateMappings
    <3>2. PICK t \in Slots : slot[t].mapped = seg
      BY <3>1 DEF MapInv
    <3>3. ~Queued(t)
      <4>1. SUFFICES ASSUME Queued(t)
                     PROVE  FALSE
        OBVIOUS
      <4>2. PICK i \in DOMAIN toMap : toMap[i] = t /\ ~IsQueuedBefore(i)
        BY <4>1, FirstQueued
      <4>3. OldSegment(i) = seg
        BY <3>2, <4>2, OldIs
      <4>4. QED
        BY <3>1, <4>3 DEF UnmapsOf
    <3>4. slot[t].addr = seg
      BY <3>2, <3>3 DEF MapInv
    <3>5. QED
      BY <2>1, <3>4
  <2>3. CASE MapsOf(seg) # {}
    <3>1. PICK i \in DOMAIN toMap : slot[toMap[i]].addr = seg
      BY <2>3 DEF MapsOf
    <3>2. QED
      BY <1>0, <2>1, <3>1
  <2>4. QED
    BY <2>2, <2>3
<1>2. ASSUME NEW s \in Slots, slot[s].addr # NoSeg
      PROVE  slot[s].addr \in UpdateMappings(vm)
  <2> DEFINE seg == slot[s].addr
  <2>1. seg \in Segs
    BY <1>0, <1>2
  <2>2. \A t \in Slots : slot[t].addr = seg => t = s
    BY <1>2 DEF KeysInv
  <2> HIDE DEF seg
  <2>3. CASE MapsOf(seg) = {}
    <3>1. ~Queued(s)
      BY <2>3 DEF MapsOf, Queued, seg
    <3>2. slot[s].mapped = seg
      BY <3>1 DEF MapInv, seg
    <3>3. seg \in vm
      BY <1>2, <3>2 DEF MapInv, seg
    <3>4. UnmapsOf(seg) = {}
      <4>1. SUFFICES ASSUME NEW i \in DOMAIN toMap, OldSegment(i) = seg
                     PROVE  FALSE
        BY DEF UnmapsOf
      <4>2. CASE IsQueuedBefore(i)
        BY <2>3, <4>1, <4>2, OldIs DEF MapsOf
      <4>3. CASE ~IsQueuedBefore(i)
        <5>1. slot[toMap[i]].mapped = seg /\ toMap[i] \in Slots
          BY <4>1, <4>3, OldIs
        <5>2. toMap[i] = s
          BY <1>2, <3>2, <5>1 DEF MapInv, seg
        <5>3. QED
          BY <3>1, <5>2 DEF Queued
      <4>4. QED
        BY <4>2, <4>3
    <3>5. QED
      BY <2>1, <2>3, <3>3, <3>4 DEF UpdateMappings, seg
  <2>4. CASE MapsOf(seg) # {}
    <3>1. MapsOf(seg) \in SUBSET (0..Len(toMap))
      BY <1>0 DEF MapsOf
    <3>2. PICK i \in MapsOf(seg) : \A j \in MapsOf(seg) : j <= i
      BY <1>0, <2>4, <3>1, Greatest
    <3>3. i \in DOMAIN toMap /\ toMap[i] = s
      BY <1>0, <2>2, <3>2 DEF MapsOf
    <3>4. ASSUME NEW j \in UnmapsOf(seg)
          PROVE  j <= i
      <4>1. j \in DOMAIN toMap /\ OldSegment(j) = seg
        BY <3>4 DEF UnmapsOf
      <4>2. CASE IsQueuedBefore(j)
        <5>1. slot[toMap[j]].addr = seg
          BY <4>1, <4>2, OldIs
        <5>2. j \in MapsOf(seg)
          BY <4>1, <5>1 DEF MapsOf
        <5>3. QED
          BY <3>2, <5>2
      <4>3. CASE ~IsQueuedBefore(j) /\ toMap[j] = s
        <5>1. j \in MapsOf(seg)
          BY <4>1, <4>3 DEF MapsOf, seg
        <5>2. QED
          BY <3>2, <5>1
      <4>4. CASE ~IsQueuedBefore(j) /\ toMap[j] # s
        <5>1. slot[toMap[j]].mapped = slot[toMap[i]].addr /\ toMap[j] \in Slots
          BY <3>3, <4>1, <4>4, OldIs DEF seg
        <5>2. PICK k \in 1..(i - 1) : toMap[k] = toMap[j]
          BY <3>3, <4>4, <5>1 DEF MapInv
        <5>3. ~(k < j)
          <6>1. SUFFICES ASSUME k < j
                         PROVE  FALSE
            OBVIOUS
          <6>2. k \in 1..(j - 1)
            BY <1>0, <3>3, <4>1, <5>2, <6>1
          <6>3. QED
            BY <4>4, <5>2, <6>2 DEF IsQueuedBefore
        <5>4. QED
          BY <1>0, <3>3, <4>1, <5>2, <5>3
      <4>5. QED
        BY <4>2, <4>3, <4>4
    <3>5. QED
      BY <2>1, <2>4, <3>2, <3>4 DEF UpdateMappings, seg
  <2>5. QED
    BY <2>3, <2>4 DEF seg
<1>3. QED
  BY <1>1, <1>2

\* checkout_seg: a segment that is not mapped at its address is queued behind
\* the entry that still has it mapped.
LEMMA TakesMap ==
  ASSUME HomeInv, NEW s \in Slots, Takes(s)
  PROVE  MapInv'
<1>0. HomeType /\ CallInv /\ KeysInv /\ RefsInv /\ MapInv
  BY DEF HomeInv
<1> DEFINE seg == Head(op.todo)
           e == [key |-> seg, addr |-> seg, mapped |-> slot[s].mapped,
                 ref |-> IF op.ref THEN slot[s].ref + 1 ELSE slot[s].ref]
<1>1. /\ op.name = "checkout" /\ op.todo # <<>>
      /\ slot[s].key = seg \/ (SlotOf(seg) = {} /\ ~Queued(s) /\ slot[s].ref = 0)
      /\ slot[s].addr = slot[s].key
      /\ slot[s].key # seg => slot[s].mapped = slot[s].key
      /\ slot' = [slot EXCEPT ![s] = e]
      /\ toMap' = IF seg # slot[s].mapped THEN Append(toMap, s) ELSE toMap
      /\ vm' = vm /\ alive' = alive
      /\ op' = [op EXCEPT !.todo = Tail(@)]
  BY DEF Takes
<1>2. seg \in Segs /\ seg # NoSeg /\ In(seg, op.req)
  BY <1>0, <1>1, NextSegment
<1>3. /\ slot'[s].key = seg /\ slot'[s].addr = seg /\ slot'[s].mapped = slot[s].mapped
      /\ slot'[s].ref = IF op.ref THEN slot[s].ref + 1 ELSE slot[s].ref
      /\ \A t \in Slots : t # s => slot'[t] = slot[t]
      /\ \A t \in Slots : slot'[t].mapped = slot[t].mapped
      /\ slot[s].ref \in Int
  BY <1>0, <1>1 DEF HomeType, EntryType
<1> HIDE DEF seg, e
<1>4. /\ toMap \in Seq(Slots) /\ DOMAIN toMap = 1..Len(toMap) /\ Len(toMap) \in Nat
      /\ \A i \in DOMAIN toMap : toMap[i] \in Slots
  BY <1>0 DEF HomeType
<1>5. /\ Len(toMap') \in Nat /\ Len(toMap') >= Len(toMap)
      /\ \A i \in 1..Len(toMap) : toMap'[i] = toMap[i]
      /\ \A i \in 1..Len(toMap') : i \notin 1..Len(toMap) =>
           i = Len(toMap) + 1 /\ toMap'[i] = s /\ seg # slot[s].mapped
      /\ seg # slot[s].mapped => Len(toMap') = Len(toMap) + 1 /\ toMap'[Len(toMap) + 1] = s
      /\ DOMAIN toMap' = 1..Len(toMap')
  <2>1. CASE seg # slot[s].mapped
    <3>1. toMap' = Append(toMap, s)
      BY <1>1, <2>1
    <3>2. QED
      BY <1>4, <2>1, <3>1
  <2>2. CASE seg = slot[s].mapped
    <3>1. toMap' = toMap
      BY <1>1, <2>2
    <3>2. QED
      BY <1>4, <2>2, <3>1
  <2>3. QED
    BY <2>1, <2>2
<1>5a. \A i \in DOMAIN toMap : i \in DOMAIN toMap' /\ toMap'[i] = toMap[i]
  <2>1. PICK n \in Nat, k \in Nat : n = Len(toMap) /\ k = Len(toMap') /\ k >= n
    BY <1>4, <1>5
  <2>2. DOMAIN toMap = 1..n /\ DOMAIN toMap' = 1..k /\ \A i \in 1..n : toMap'[i] = toMap[i]
    BY <1>4, <1>5, <2>1
  <2>3. \A i \in 1..n : i \in 1..k
    BY <2>1
  <2>4. QED
    BY <2>2, <2>3
<1>6. \A t \in Slots : t # s => slot[t].key # seg
  BY <1>0, <1>1, <1>2 DEF SlotOf, KeysInv
<1>7. /\ vm' = {slot'[t].mapped : t \in Slots} \ {NoSeg}
      /\ \A t, u \in Slots : slot'[t].mapped = slot'[u].mapped /\ slot'[t].mapped # NoSeg => t = u
      /\ \A t \in Slots : slot'[t].mapped # NoSeg => \E m \in alive' : slot'[t].mapped \in m
  <2>1. {slot'[t].mapped : t \in Slots} = {slot[t].mapped : t \in Slots}
    BY <1>3
  <2>2. QED
    BY <1>0, <1>1, <1>3, <2>1 DEF MapInv
<1>8. ASSUME NEW t \in Slots, slot'[t].addr # slot'[t].mapped
      PROVE  Queued(t)'
  <2>1. CASE t = s
    <3>1. seg # slot[s].mapped
      BY <1>3, <1>8, <2>1
    <3>2. Len(toMap') = Len(toMap) + 1 /\ toMap'[Len(toMap) + 1] = t
      BY <1>5, <2>1, <3>1
    <3>3. Len(toMap) + 1 \in DOMAIN toMap'
      <4>1. PICK n \in Nat : n = Len(toMap)
        BY <1>4
      <4>2. n + 1 \in 1..(n + 1)
        BY <4>1
      <4>3. QED
        BY <1>5, <3>2, <4>1, <4>2
    <3>4. QED
      BY <3>2, <3>3 DEF Queued
  <2>2. CASE t # s
    <3>1. PICK i \in DOMAIN toMap : toMap[i] = t
      BY <1>0, <1>3, <1>8, <2>2 DEF MapInv, Queued
    <3>2. i \in DOMAIN toMap' /\ toMap'[i] = t
      BY <1>5a, <3>1
    <3>3. QED
      BY <3>2 DEF Queued
  <2>3. QED
    BY <2>1, <2>2
<1>9. \A i \in DOMAIN toMap :
        /\ slot'[toMap[i]].addr = slot[toMap[i]].addr /\ slot'[toMap[i]].key = slot[toMap[i]].key
        /\ slot'[toMap[i]].ref > 0
  <2>1. SUFFICES ASSUME NEW i \in DOMAIN toMap
        PROVE  /\ slot'[toMap[i]].addr = slot[toMap[i]].addr /\ slot'[toMap[i]].key = slot[toMap[i]].key
               /\ slot'[toMap[i]].ref > 0
    OBVIOUS
  <2>2. slot[toMap[i]].ref > 0
    BY <1>0, <1>1 DEF MapInv, Touches
  <2>3. toMap[i] = s => slot[s].key = seg
    BY <1>1 DEF Queued
  <2>4. QED
    BY <1>1, <1>3, <1>4, <2>2, <2>3
<1>10. ASSUME NEW i \in DOMAIN toMap
       PROVE  /\ slot'[toMap[i]].addr # NoSeg
              /\ slot'[toMap[i]].ref > 0
              /\ \A t \in Slots : slot'[t].mapped = slot'[toMap[i]].addr /\ t # toMap[i] =>
                   \E j \in 1..(i - 1) : toMap'[j] = t
  <2>1. /\ slot[toMap[i]].addr # NoSeg
        /\ \A t \in Slots : slot[t].mapped = slot[toMap[i]].addr /\ t # toMap[i] =>
             \E j \in 1..(i - 1) : toMap[j] = t
    BY <1>0 DEF MapInv
  <2>2. \A j \in 1..(i - 1) : toMap'[j] = toMap[j]
    <3>1. \A j \in 1..(i - 1) : j \in DOMAIN toMap
      BY <1>4
    <3>2. QED
      BY <1>5a, <3>1
  <2>3. QED
    BY <1>3, <1>9, <2>1, <2>2
<1>11. /\ \A t \in Slots : slot'[t].mapped = seg /\ t # s => \E j \in 1..Len(toMap) : toMap'[j] = t
  <2>1. SUFFICES ASSUME NEW t \in Slots, slot'[t].mapped = seg, t # s
                 PROVE  \E j \in 1..Len(toMap) : toMap'[j] = t
    OBVIOUS
  <2>2. slot[t].mapped = seg /\ slot[t].addr # seg
    BY <1>0, <1>3, <1>6, <2>1 DEF KeysInv
  <2>3. Queued(t)
    BY <1>0, <2>2 DEF MapInv
  <2>4. QED
    BY <1>4, <1>5, <2>3 DEF Queued
<1>12. seg # slot[s].mapped => slot'[s].ref > 0 \/ Touches(op', seg)
  <2>1. CASE op.ref = TRUE
    <3>1. slot[s].ref >= 0
      <4>1. dead = FALSE
        BY <1>0, <1>1, OpFacts
      <4>2. CASE slot[s].key = seg
        <5>1. slot[s].ref = RefOf(seg)
          BY <1>0, <1>2, <4>1, <4>2 DEF RefsInv
        <5>2. RefOf(seg) \in Nat
          BY UsersFinite DEF RefOf
        <5>3. QED
          BY <5>1, <5>2
      <4>3. QED
        BY <1>1, <4>2
    <3>2. QED
      BY <1>3, <2>1, <3>1
  <2>2. CASE op.ref = FALSE
    <3>1. op.name # "idle"
      BY <1>1
    <3>2. Len(op.req) = 1
      BY <2>2, <3>1, <1>0 DEF CallInv
    <3>3. seg = op.req[1] /\ Tail(op.todo) = <<>>
      BY <1>0, <1>1, <3>2, OneToDo DEF seg
    <3>4. op'.name = op.name /\ op'.req = op.req /\ op'.ref = FALSE /\ op'.todo = <<>>
      BY <1>0, <1>1, <2>2, <3>3 DEF HomeType
    <3>5. QED
      BY <3>1, <3>3, <3>4 DEF Touches
  <2>3. QED
    BY <1>0, <2>1, <2>2 DEF HomeType
<1>13. ASSUME NEW x \in Segs, Touches(op', x)
       PROVE  \E t \in Slots : slot'[t].key = x
  <2>1. op'.req = op.req /\ op'.ref = op.ref
    BY <1>0, <1>1 DEF HomeType
  <2>2. op.req[1] = x /\ Len(op.req) = 1
    BY <1>0, <1>1, <1>13, <2>1 DEF Touches, CallInv
  <2>3. seg = x
    BY <1>0, <1>1, <2>2, OneToDo DEF seg
  <2>4. QED
    BY <1>3, <2>3
<1>14. ASSUME NEW i \in DOMAIN toMap'
       PROVE  /\ slot'[toMap'[i]].addr # NoSeg
              /\ slot'[toMap'[i]].ref > 0 \/ Touches(op', slot'[toMap'[i]].key)
              /\ \A t \in Slots : slot'[t].mapped = slot'[toMap'[i]].addr /\ t # toMap'[i] =>
                   \E j \in 1..(i - 1) : toMap'[j] = t
  <2>1. CASE i \in 1..Len(toMap)
    <3>1. toMap'[i] = toMap[i] /\ i \in DOMAIN toMap
      BY <1>4, <1>5, <2>1
    <3>2. QED
      BY <3>1, <1>10
  <2>2. CASE i \notin 1..Len(toMap)
    <3>1. i = Len(toMap) + 1 /\ toMap'[i] = s /\ seg # slot[s].mapped
      BY <1>5, <2>2
    <3>2. 1..(i - 1) = 1..Len(toMap)
      BY <1>4, <3>1
    <3>3. QED
      BY <1>2, <1>3, <1>11, <1>12, <3>1, <3>2
  <2>3. QED
    BY <2>1, <2>2
<1>15. QED
  BY <1>7, <1>8, <1>13, <1>14 DEF MapInv

\* checkout_complete: every entry has its segment mapped.
LEMMA CompleteMap ==
  ASSUME HomeInv, CheckoutComplete
  PROVE  MapInv'
<1>0. HomeType /\ CallInv /\ KeysInv /\ MapInv
  BY DEF HomeInv
<1>1. /\ vm' = UpdateMappings(vm) /\ toMap' = <<>> /\ alive' = alive
      /\ op' = IF op = Idle THEN Idle ELSE [op EXCEPT !.name = "copy"]
      /\ op.name = "complete" \/ op = Idle
  BY DEF CheckoutComplete
<1>2. \A s \in Slots : /\ slot'[s].key = slot[s].key /\ slot'[s].addr = slot[s].addr
                       /\ slot'[s].mapped = IF Queued(s) THEN slot[s].addr ELSE slot[s].mapped
  BY <1>0 DEF CheckoutComplete, HomeType, EntryType, Queued
<1>3. \A s \in Slots : slot'[s].mapped = slot[s].addr
  BY <1>0, <1>2 DEF MapInv
<1>4. vm' = {slot'[s].mapped : s \in Slots} \ {NoSeg}
  BY <1>0, <1>1, <1>3, MappingsAreUpdated
<1>5. /\ \A s, t \in Slots : slot'[s].mapped = slot'[t].mapped /\ slot'[s].mapped # NoSeg => s = t
      /\ \A s \in Slots : slot'[s].mapped # NoSeg => \E m \in alive' : slot'[s].mapped \in m
      /\ \A s \in Slots : slot'[s].addr = slot'[s].mapped
  BY <1>0, <1>1, <1>2, <1>3 DEF KeysInv
<1>6. ASSUME NEW seg \in Segs, Touches(op', seg)
      PROVE  \E s \in Slots : slot'[s].key = seg
  <2>1. op # Idle
    BY <1>1, <1>6 DEF Touches, Idle
  <2>2. op'.req = op.req /\ op.name = "complete"
    BY <1>0, <1>1, <2>1 DEF HomeType
  <2>3. Touches(op, seg)
    BY <1>0, <1>6, <2>2 DEF Touches, CallInv
  <2>4. QED
    BY <1>0, <1>2, <2>3 DEF MapInv
<1>7. QED
  BY <1>1, <1>4, <1>5, <1>6 DEF MapInv

\* Every step keeps the mappings.
LEMMA MapStep ==
  ASSUME HomeInv, HomeStep \/ (\E m \in Mems : MallocColl(m) \/ FreeColl(m))
  PROVE  MapInv'
<1>0. HomeType /\ CallInv /\ KeysInv /\ RefsInv /\ MapInv
  BY DEF HomeInv
<1>1. ASSUME CheckoutFast \/ CheckinStep
      PROVE  MapInv'
  <2>1. PICK s \in Slots : Counts(s)
    BY <1>1, CountsSlot
  <2>2. /\ op.name = "checkout" \/ op.name = "checkin"
        /\ op.todo # <<>>
        /\ slot[s].key = Head(op.todo)
        /\ \A t \in Slots : /\ slot'[t].key = slot[t].key /\ slot'[t].addr = slot[t].addr
                            /\ slot'[t].mapped = slot[t].mapped
                            /\ t # s => slot'[t] = slot[t]
        /\ slot'[s].ref = IF op.name = "checkin" THEN slot[s].ref - 1
                          ELSE IF op.ref THEN slot[s].ref + 1 ELSE slot[s].ref
        /\ op' = [op EXCEPT !.todo = Tail(@)]
        /\ toMap' = toMap /\ vm' = vm /\ alive' = alive
    BY <2>1 DEF Counts
  <2>3. \A i \in DOMAIN toMap : slot'[toMap[i]].ref > 0
    <3>1. SUFFICES ASSUME NEW i \in DOMAIN toMap
                   PROVE  slot'[toMap[i]].ref > 0
      OBVIOUS
    <3>2. slot[toMap[i]].ref > 0 /\ toMap[i] \in Slots /\ slot[toMap[i]].ref \in Int
      BY <1>0, <2>2 DEF MapInv, Touches, HomeType, EntryType
    <3>3. op.name # "checkin"
      BY <1>0, <3>1 DEF CallInv
    <3>4. QED
      BY <2>2, <3>2, <3>3
  <2>4. ASSUME NEW x \in Segs, Touches(op', x)
        PROVE  \E t \in Slots : slot[t].key = x
    <3>1. op'.req = op.req /\ op'.ref = op.ref
      BY <1>0, <2>2 DEF HomeType
    <3>2. op.name # "idle"
      BY <2>2
    <3>3. op.req[1] = x /\ Len(op.req) = 1
      BY <1>0, <2>4, <3>1, <3>2 DEF Touches, CallInv
    <3>4. Head(op.todo) = x
      BY <1>0, <2>2, <3>3, OneToDo
    <3>5. QED
      BY <2>2, <3>4
  <2>5. QED
    BY <1>0, <2>2, <2>3, <2>4, SameMap
<1>2. ASSUME CheckoutHit \/ CheckoutMiss
      PROVE  MapInv'
  BY <1>2, TakesSlot, TakesMap
<1>3. ASSUME CheckoutComplete
      PROVE  MapInv'
  BY <1>3, CompleteMap
<1>4. ASSUME HomeStep, ~CheckoutFast, ~CheckinStep, ~CheckoutHit, ~CheckoutMiss, ~CheckoutComplete
      PROVE  MapInv'
  <2>1. slot' = slot /\ vm' = vm /\ alive' = alive /\ toMap' = toMap
    BY <1>4 DEF HomeStep, CheckinCall, CheckoutCall, CheckoutDies, CheckoutReturns, Copy, CheckinReturns
  <2>2. /\ \A x \in Segs : Touches(op', x) => Touches(op, x)
        /\ toMap = <<>> \/ \A x : Touches(op, x) => Touches(op', x)
    <3>1. ASSUME NEW q \in CheckoutRequests, NEW ref \in BOOLEAN, CheckoutCall(q, ref)
          PROVE  /\ \A x : ~Touches(op', x)
                 /\ \A x : ~Touches(op, x)
      <4>1. op = Idle /\ op'.todo = q /\ q # <<>>
        BY <3>1, HomeFacts DEF CheckoutCall
      <4>2. QED
        BY <4>1 DEF Touches, Idle
    <3>2. ASSUME NEW q \in CheckoutRequests, CheckinCall(q)
          PROVE  toMap = <<>> /\ \A x : ~Touches(op', x)
      BY <3>2 DEF CheckinCall, Touches
    <3>3. ASSUME CheckoutDies
          PROVE  \A x : ~Touches(op', x) /\ ~Touches(op, x)
      BY <3>3 DEF CheckoutDies, Touches, Idle
    <3>4. ASSUME CheckoutReturns
          PROVE  /\ \A x : Touches(op', x) <=> Touches(op, x)
      <4>1. CASE op.ref = TRUE
        BY <3>4, <4>1 DEF CheckoutReturns, Touches, Idle
      <4>2. CASE op.ref = FALSE
        <5>1. op.name = "checkout" /\ op' = [op EXCEPT !.name = "complete"]
          BY <3>4, <4>2 DEF CheckoutReturns
        <5>2. op'.name = "complete" /\ op'.req = op.req /\ op'.todo = op.todo /\ op'.ref = op.ref
          BY <1>0, <5>1 DEF HomeType
        <5>3. QED
          BY <5>1, <5>2 DEF Touches
      <4>3. QED
        BY <1>0, <4>1, <4>2 DEF HomeType
    <3>5. ASSUME Copy \/ CheckinReturns
          PROVE  toMap = <<>> /\ \A x : ~Touches(op', x)
      BY <1>0, <3>5 DEF Copy, CheckinReturns, CallInv, Touches, Idle
    <3>6. QED
      BY <1>4, <3>1, <3>2, <3>3, <3>4, <3>5 DEF HomeStep
  <2>3. \A i \in DOMAIN toMap : slot'[toMap[i]].ref > 0 \/ Touches(op', slot[toMap[i]].key)
    <3>1. \A i \in DOMAIN toMap : slot[toMap[i]].ref > 0 \/ Touches(op, slot[toMap[i]].key)
      BY <1>0 DEF MapInv
    <3>2. QED
      BY <2>1, <2>2, <3>1
  <2>4. \A x \in Segs : Touches(op', x) => \E s \in Slots : slot[s].key = x
    BY <1>0, <2>2 DEF MapInv
  <2>5. QED
    BY <1>0, <2>1, <2>3, <2>4, SameMap
<1>5. ASSUME NEW m \in Mems, MallocColl(m)
      PROVE  MapInv'
  <2>1. slot' = slot /\ vm' = vm /\ alive \subseteq alive' /\ toMap' = toMap /\ op' = op
    BY <1>5 DEF MallocColl
  <2>2. \A i \in DOMAIN toMap : slot'[toMap[i]].ref > 0 \/ Touches(op', slot[toMap[i]].key)
    BY <1>0, <2>1 DEF MapInv
  <2>3. \A x \in Segs : Touches(op', x) => \E s \in Slots : slot[s].key = x
    BY <1>0, <2>1 DEF MapInv
  <2>4. QED
    BY <1>0, <2>1, <2>2, <2>3, SameMap
<1>6. ASSUME NEW m \in Mems, FreeColl(m)
      PROVE  MapInv'
  <2>1. /\ toMap = <<>> /\ toMap' = toMap /\ op' = op /\ op = Idle
        /\ vm' = vm \ m /\ alive' = alive \ {m}
        /\ \A s \in Slots : slot[s].key \in m => slot'[s] = EmptyEntry
        /\ \A s \in Slots : slot[s].key \notin m => slot'[s] = slot[s]
    BY <1>6 DEF FreeColl
  <2>2. \A s \in Slots : slot[s].mapped = slot[s].key /\ slot[s].addr = slot[s].key
    BY <1>0, <2>1 DEF MapInv, Queued, KeysInv
  <2>3. EmptyEntry.mapped = NoSeg /\ EmptyEntry.addr = NoSeg /\ NoSeg \notin m
    <3>1. NoSeg \notin m
      BY HomeFacts DEF Segs
    <3>2. QED
      BY <3>1 DEF EmptyEntry
  <2>4. \A s \in Slots :
          /\ slot[s].mapped \in m => slot'[s].mapped = NoSeg /\ slot'[s].addr = NoSeg
          /\ slot[s].mapped \notin m => slot'[s] = slot[s]
    BY <2>1, <2>2, <2>3
  <2>5. vm' = {slot'[s].mapped : s \in Slots} \ {NoSeg}
    <3>1. vm = {slot[s].mapped : s \in Slots} \ {NoSeg}
      BY <1>0 DEF MapInv
    <3>2. \A x \in vm' : \E s \in Slots : slot'[s].mapped = x /\ x # NoSeg
      BY <2>1, <2>4, <3>1
    <3>3. \A s \in Slots : slot'[s].mapped # NoSeg => slot'[s].mapped \in vm'
      BY <2>1, <2>4, <3>1
    <3>4. QED
      BY <3>2, <3>3
  <2>6. \A s, t \in Slots : slot'[s].mapped = slot'[t].mapped /\ slot'[s].mapped # NoSeg => s = t
    BY <1>0, <2>4 DEF MapInv
  <2>7. \A s \in Slots : slot'[s].mapped # NoSeg => \E o \in alive' : slot'[s].mapped \in o
    BY <1>0, <2>1, <2>4 DEF MapInv
  <2>8. \A s \in Slots : slot'[s].addr = slot'[s].mapped
    BY <2>2, <2>4
  <2>9. \A x : ~Touches(op', x)
    BY <2>1 DEF Touches, Idle
  <2>10. QED
    BY <2>1, <2>5, <2>6, <2>7, <2>8, <2>9 DEF MapInv
<1>7. QED
  BY <1>1, <1>2, <1>3, <1>4, <1>5, <1>6

-----------------------------------------------------------------------------
(* What the home manager promises.                                          *)

LEMMA HomeInit == Init => HomeInv
<1> SUFFICES ASSUME Init
    PROVE  HomeInv
  OBVIOUS
<1>0. NEntries \in Nat \ {0} /\ MaxOut \in Nat /\ 0 \in 0..MaxOut
  BY HomeFacts
<1>1. /\ slot = [s \in Slots |-> EmptyEntry] /\ lru = [i \in Slots |-> i]
      /\ tlb = {} /\ toMap = <<>> /\ vm = {} /\ alive = {}
      /\ out = [q \in CheckoutRequests |-> 0] /\ op = Idle /\ dead = FALSE
  BY DEF Init
<1>2. HomeType
  <2>1. EmptyEntry \in EntryType
    BY DEF EmptyEntry, EntryType, Keys
  <2>2. Idle \in [name : OpNames, req : CheckoutRequests \cup {<<>>}, todo : Seq(Segs), ref : BOOLEAN]
    BY DEF Idle, OpNames
  <2>3. slot \in [Slots -> EntryType] /\ lru \in [Slots -> Slots] /\ out \in [CheckoutRequests -> 0..MaxOut]
    BY <1>0, <1>1, <2>1
  <2>4. toMap \in Seq(Slots) /\ tlb \subseteq Segs \X Slots
    BY <1>1
  <2>5. QED
    BY <1>1, <2>2, <2>3, <2>4 DEF HomeType
<1>3. CallInv
  BY <1>1 DEF CallInv, Idle
<1>4. KeysInv
  BY <1>1 DEF KeysInv, EmptyEntry
<1>5. RefsInv
  <2>1. \A seg \in Segs : RefOf(seg) = 0
    BY <1>1, <1>2, NoUsers DEF RefOf, Held, Idle
  <2>2. \A seg \in Segs : seg # NoSeg
    BY HomeFacts
  <2>3. QED
    BY <1>1, <2>1, <2>2 DEF RefsInv, EmptyEntry
<1>6. MapInv
  <2>1. \A s \in Slots : slot[s].mapped = NoSeg /\ slot[s].addr = NoSeg
    BY <1>1 DEF EmptyEntry
  <2>2. vm = {slot[s].mapped : s \in Slots} \ {NoSeg}
    BY <1>1, <2>1
  <2>3. \A x : ~Touches(op, x)
    BY <1>1 DEF Touches, Idle
  <2>4. QED
    BY <1>1, <2>1, <2>2, <2>3 DEF MapInv
<1>7. QED
  BY <1>2, <1>3, <1>4, <1>5, <1>6 DEF HomeInv

LEMMA HomeInvStep ==
  ASSUME HomeInv, HomeStep \/ (\E m \in Mems : MallocColl(m) \/ FreeColl(m))
  PROVE  HomeInv'
<1>1. HomeType /\ CallInv
  BY DEF HomeInv
<1>2. HomeType' /\ CallInv'
  BY <1>1, HomeTypeStep, CallStep
<1>3. KeysInv' /\ RefsInv' /\ MapInv'
  BY KeysStep, RefsStep, MapStep
<1>4. QED
  BY <1>2, <1>3 DEF HomeInv

\* What is used is in the table, and what is in the table and not queued is
\* mapped.
LEMMA HomeInvUsed == HomeInv => UsedIsMapped
<1> SUFFICES ASSUME HomeInv, dead = FALSE
    PROVE  /\ \A q \in CheckoutRequests : out[q] > 0 /\ toMap = <<>> => \A i \in DOMAIN q : q[i] \in vm
           /\ op.name = "copy" => op.req[1] \in vm
  BY DEF UsedIsMapped, HomeInv, HomeType
<1>0. HomeType /\ CallInv /\ KeysInv /\ RefsInv /\ MapInv
  BY DEF HomeInv
<1>1. ASSUME NEW s \in Slots, slot[s].key \in Segs, toMap = <<>>
      PROVE  slot[s].key \in vm
  <2>1. slot[s].mapped = slot[s].key
    BY <1>0, <1>1 DEF KeysInv, MapInv, Queued
  <2>2. slot[s].key # NoSeg
    BY <1>1, HomeFacts
  <2>3. QED
    BY <1>0, <2>1, <2>2 DEF MapInv
<1>2. ASSUME NEW q \in CheckoutRequests, out[q] > 0, toMap = <<>>, NEW i \in DOMAIN q
      PROVE  q[i] \in vm
  <2>1. q[i] \in Segs /\ In(q[i], q)
    BY HomeFacts DEF In
  <2>2. CheckoutsOf(q[i]) > 0
    BY <1>0, <1>2, <2>1, SomeUser
  <2>3. RefOf(q[i]) # 0
    BY <2>2, UsersFinite DEF RefOf
  <2>4. PICK s \in Slots : slot[s].key = q[i]
    BY <1>0, <2>1, <2>3 DEF RefsInv
  <2>5. QED
    BY <1>1, <1>2, <2>1, <2>4
<1>3. ASSUME op.name = "copy"
      PROVE  op.req[1] \in vm
  <2>1. op.req \in CheckoutRequests /\ op.todo = <<>> /\ op.ref = FALSE /\ toMap = <<>> /\ op.name # "idle"
    BY <1>0, <1>3 DEF CallInv
  <2>2. op.req[1] \in Segs
    BY <2>1, HomeFacts
  <2>3. Touches(op, op.req[1])
    BY <2>1 DEF Touches
  <2>4. PICK s \in Slots : slot[s].key = op.req[1]
    BY <1>0, <2>2, <2>3 DEF MapInv
  <2>5. QED
    BY <1>1, <2>1, <2>2, <2>4
<1>4. QED
  BY <1>2, <1>3

\* The entries agree with the checkouts and with what is mapped.
LEMMA HomeInvSound == HomeInv => EntriesSound
<1> SUFFICES ASSUME HomeInv
    PROVE  RefsMatch /\ EvictCheckHolds /\ MappingsBounded
  BY DEF EntriesSound
<1>0. HomeType /\ CallInv /\ KeysInv /\ RefsInv /\ MapInv
  BY DEF HomeInv
<1>1. RefsMatch
  <2>1. SUFFICES ASSUME op = Idle, ~dead, NEW seg \in Segs
                 PROVE  IF SlotOf(seg) = {} THEN CheckoutsOf(seg) = 0
                        ELSE \A s \in SlotOf(seg) : slot[s].ref = CheckoutsOf(seg)
    BY DEF RefsMatch
  <2>2. RefOf(seg) = CheckoutsOf(seg)
    BY <2>1, UsersFinite DEF RefOf, Held, Idle
  <2>3. dead = FALSE
    BY <1>0, <2>1 DEF HomeType
  <2>4. QED
    BY <1>0, <2>2, <2>3 DEF RefsInv, SlotOf
<1>2. EvictCheckHolds
  BY MissFacts DEF EvictCheckHolds
<1>3. MappingsBounded
  <2>1. SUFFICES ASSUME toMap = <<>>
                 PROVE  /\ vm = {slot[s].mapped : s \in Slots} \ {NoSeg}
                        /\ Cardinality(vm) <= NEntries
                        /\ vm \subseteq UNION alive
    BY DEF MappingsBounded
  <2>2. vm = {slot[s].mapped : s \in Slots} \ {NoSeg}
    BY <1>0 DEF MapInv
  <2>3. IsFiniteSet(Slots) /\ Cardinality(Slots) = NEntries
    BY HomeFacts, FS_Interval DEF Slots
  <2> DEFINE T == {slot[s].mapped : s \in Slots}
             f == [s \in Slots |-> slot[s].mapped]
  <2>4. IsFiniteSet(T) /\ Cardinality(T) <= Cardinality(Slots)
    <3>1. f \in Surjection(Slots, T)
      BY DEF Surjection
    <3> HIDE DEF T, f
    <3>2. QED
      BY <2>3, <3>1, FS_Surjection
  <2>5. vm \in SUBSET T
    BY <2>2
  <2> HIDE DEF T
  <2>6. Cardinality(vm) <= Cardinality(T) /\ IsFiniteSet(vm)
    BY <2>4, <2>5, FS_Subset
  <2>7. Cardinality(vm) \in Nat /\ Cardinality(T) \in Nat
    BY <2>4, <2>6, FS_CardinalityType
  <2>8. Cardinality(vm) <= NEntries
    BY <2>3, <2>4, <2>6, <2>7, HomeFacts
  <2>9. vm \subseteq UNION alive
    BY <1>0, <2>2 DEF MapInv
  <2>10. QED
    BY <2>2, <2>8, <2>9
<1>4. QED
  BY <1>1, <1>2, <1>3

-----------------------------------------------------------------------------
(* Addresses and pages.                                                     *)

\* Division with remainder.
LEMMA DivMod ==
  ASSUME NEW a \in Nat, NEW n \in Nat \ {0}
  PROVE  /\ a \div n \in Nat /\ a % n \in 0..(n - 1)
         /\ a = (a \div n) * n + (a % n)
<1>1. a % n \in 0..(n - 1) /\ a \div n \in Nat
  OBVIOUS
<1>2. a - (a % n) = n * (a \div n)
  BY SMTT(30)
<1>3. PICK q \in Nat, m \in 0..(n - 1) : q = a \div n /\ m = a % n
  BY <1>1
<1>4. a - m = n * q /\ n * q = q * n /\ q * n \in Nat
  BY <1>2, <1>3
<1>5. a = q * n + m
  BY <1>4
<1>6. QED
  BY <1>3, <1>5

LEMMA Multiple ==
  ASSUME NEW k \in Nat, NEW n \in Nat \ {0}
  PROVE  (k * n) % n = 0
OBVIOUS

\* Multiples of a page.
LEMMA MultipleOf ==
  ASSUME NEW a \in Nat, NEW n \in Nat \ {0}, a % n = 0
  PROVE  \E k \in Nat : a = k * n
<1>1. a = (a \div n) * n + (a % n) /\ a \div n \in Nat
  BY DivMod
<1>2. QED
  BY <1>1

LEMMA RoundUpIs ==
  ASSUME NEW x \in Nat, NEW n \in Nat \ {0}
  PROVE  /\ RoundUpPow2(x, n) \in Nat /\ x <= RoundUpPow2(x, n) /\ RoundUpPow2(x, n) < x + n
         /\ RoundUpPow2(x, n) % n = 0
<1>1. PICK a \in Nat : a = x + n - 1
  OBVIOUS
<1>2. PICK k \in Nat : k = a \div n
  BY DivMod
<1>3. PICK b \in Nat : b = k * n
  OBVIOUS
<1>4. PICK m \in 0..(n - 1) : a = b + m
  BY <1>2, <1>3, DivMod
<1>5. RoundUpPow2(x, n) = b
  BY <1>1, <1>2, <1>3 DEF RoundUpPow2
<1>6. b % n = 0
  BY <1>3, Multiple
<1>7. x <= b /\ b < x + n
  BY <1>1, <1>4
<1>8. QED
  BY <1>5, <1>6, <1>7

\* Multiples of n less than n apart are the same.
LEMMA MultiplesApart ==
  ASSUME NEW n \in Nat \ {0}, NEW a \in Nat, NEW b \in Nat, a % n = 0, b % n = 0, a < b
  PROVE  a + n <= b
<1>1. PICK j \in Nat : a = j * n
  BY MultipleOf
<1>2. PICK k \in Nat : b = k * n
  BY MultipleOf
<1>3. j < k
  <2>1. SUFFICES ASSUME k <= j
                 PROVE  FALSE
    BY <1>1, <1>2
  <2>2. k * n <= j * n
    BY <2>1
  <2>3. QED
    BY <1>1, <1>2, <2>2
<1>4. (j + 1) * n <= k * n
  BY <1>3
<1>5. (j + 1) * n = j * n + n
  OBVIOUS
<1>6. QED
  BY <1>1, <1>2, <1>4, <1>5

\* A multiple is not rounded.
LEMMA RoundUpMultiple ==
  ASSUME NEW x \in Nat, NEW n \in Nat \ {0}, x % n = 0
  PROVE  RoundUpPow2(x, n) = x
<1>1. PICK y \in Nat : y = RoundUpPow2(x, n) /\ x <= y /\ y < x + n /\ y % n = 0
  BY RoundUpIs
<1>2. ~(x < y)
  <2>1. SUFFICES ASSUME x < y
                 PROVE  FALSE
    OBVIOUS
  <2>2. x + n <= y
    BY <1>1, <2>1, MultiplesApart
  <2>3. QED
    BY <1>1, <2>2
<1>3. QED
  BY <1>1, <1>2

\* Rounding keeps the order.
LEMMA RoundUpOrder ==
  ASSUME NEW x \in Nat, NEW y \in Nat, x <= y, NEW n \in Nat \ {0}
  PROVE  RoundUpPow2(x, n) <= RoundUpPow2(y, n)
<1>1. PICK a \in Nat : a = RoundUpPow2(x, n) /\ x <= a /\ a < x + n /\ a % n = 0
  BY RoundUpIs
<1>2. PICK b \in Nat : b = RoundUpPow2(y, n) /\ y <= b /\ b % n = 0
  BY RoundUpIs
<1>3. ~(b < a)
  <2>1. SUFFICES ASSUME b < a
                 PROVE  FALSE
    OBVIOUS
  <2>2. b + n <= a
    BY <1>1, <1>2, <2>1, MultiplesApart
  <2>3. QED
    BY <1>1, <1>2, <2>2
<1>4. QED
  BY <1>1, <1>2, <1>3

\* A multiple of a multiple.
LEMMA MultipleOfMultiple ==
  ASSUME NEW a \in Nat, NEW n \in Nat \ {0}, NEW p \in Nat \ {0}, a % n = 0, n % p = 0
  PROVE  a % p = 0
<1>1. PICK j \in Nat : a = j * n
  BY MultipleOf
<1>2. PICK k \in Nat : n = k * p
  BY MultipleOf
<1>3. j * k \in Nat /\ a = (j * k) * p
  BY <1>1, <1>2
<1>4. QED
  BY <1>3, Multiple

-----------------------------------------------------------------------------
(* Ranges of addresses.                                                     *)

LEMMA CollFacts ==
  /\ NRanks \in Nat \ {0} /\ VmPage \in Nat \ {0} /\ MapBlock \in Nat \ {0} /\ Space \in Nat \ {0}
  /\ MaxTrial \in Nat /\ MapBlock % VmPage = 0
  /\ 0 \in Ranks /\ Ranks \subseteq Nat /\ IsFiniteSet(Ranks)
<1>1. /\ NRanks \in Nat \ {0} /\ VmPage \in Nat \ {0} /\ MapBlock \in Nat \ {0} /\ Space \in Nat \ {0}
      /\ MaxTrial \in Nat /\ MapBlock % VmPage = 0
  BY CollMemAssumption
<1>2. 0 \in Ranks /\ Ranks \subseteq Nat /\ IsFiniteSet(Ranks)
  BY <1>1, FS_Interval DEF Ranks
<1>3. QED
  BY <1>1, <1>2

\* The size of an allocation is a number of pages.
LEMMA SizeIs ==
  ASSUME NEW m \in Mems
  PROVE  /\ SizeOf(m) \in Nat \ {0} /\ SizeOf(m) % VmPage = 0
         /\ RoundUpPow2(SizeOf(m), VmPage) = SizeOf(m)
<1>1. IsFiniteSet(m) /\ m # {}
  BY CollMemAssumption, HomeAssumption
<1>2. PICK c \in Nat \ {0} : c = Cardinality(m)
  BY <1>1, FS_CardinalityType, FS_EmptySet
<1>3. PICK s \in Nat \ {0} : s = SizeOf(m) /\ s = c * MapBlock
  BY <1>2, CollFacts DEF SizeOf
<1>4. s % MapBlock = 0
  BY <1>2, <1>3, CollFacts, Multiple
<1>5. s % VmPage = 0
  BY <1>4, CollFacts, MultipleOfMultiple
<1>6. QED
  BY <1>3, <1>5, CollFacts, RoundUpMultiple

\* The pages of a part of a range.
LEMMA PagesWithin ==
  ASSUME NEW a \in Int, NEW n \in Int, NEW b \in Int, NEW k \in Int, b <= a, a + n <= b + k
  PROVE  PagesOf(a, n) \subseteq PagesOf(b, k)
BY CollFacts DEF PagesOf

\* The page of an address.
LEMMA PageOf ==
  ASSUME NEW a \in Nat, NEW n \in Nat, NEW x \in Nat, a <= x, x < a + n, x < Space
  PROVE  x - (x % VmPage) \in PagesOf(a, n)
<1>1. PICK m \in 0..(VmPage - 1) : m = x % VmPage
  BY CollFacts, DivMod
<1>2. PICK q \in Nat : x = q * VmPage + m /\ q = x \div VmPage
  BY <1>1, CollFacts, DivMod
<1>3. PICK p \in Nat : p = q * VmPage /\ p = x - m
  BY <1>1, <1>2, CollFacts
<1>4. p % VmPage = 0
  BY <1>2, <1>3, CollFacts, Multiple
<1>5. p \in 0..(Space - 1) /\ p + VmPage > a /\ p < a + n
  BY <1>1, <1>3, CollFacts
<1>6. p \in PagesOf(a, n)
  BY <1>4, <1>5 DEF PagesOf
<1>7. QED
  BY <1>1, <1>3, <1>6

\* No range has no pages.
LEMMA NoPages == RangePages(NoVm) = {}
BY CollFacts DEF RangePages, NoVm, PagesOf

\* A rank that can have a range has the addresses for it.
LEMMA FreeWithin ==
  ASSUME NEW r, NEW a \in Int, NEW n \in Nat, IsFree(r, a, n)
  PROVE  a \in Nat /\ a + n <= Space
<1>1. a \in Nat /\ RoundUpPow2(a + n, VmPage) <= Space
  BY DEF IsFree
<1>2. PICK x \in Nat : x = a + n
  BY <1>1
<1>3. PICK y \in Nat : y = RoundUpPow2(x, VmPage) /\ x <= y
  BY <1>2, CollFacts, RoundUpIs
<1>4. QED
  BY <1>1, <1>2, <1>3, CollFacts

\* It can have a part of the range.
LEMMA FreePart ==
  ASSUME NEW r, NEW a \in Nat, NEW n \in Nat, NEW b \in Nat, NEW k \in Nat,
         b <= a, a + n <= b + k, IsFree(r, b, k)
  PROVE  IsFree(r, a, n)
<1>1. PagesOf(a, n) \subseteq PagesOf(b, k)
  BY PagesWithin
<1>2. RoundUpPow2(a + n, VmPage) <= RoundUpPow2(b + k, VmPage)
  <2>1. PICK x \in Nat, y \in Nat : x = a + n /\ y = b + k /\ x <= y
    OBVIOUS
  <2>2. QED
    BY <2>1, CollFacts, RoundUpOrder
<1>3. RoundUpPow2(a + n, VmPage) \in Nat /\ RoundUpPow2(b + k, VmPage) \in Nat
  <2>1. PICK x \in Nat, y \in Nat : x = a + n /\ y = b + k
    OBVIOUS
  <2>2. QED
    BY <2>1, CollFacts, RoundUpIs
<1>4. RoundUpPow2(b + k, VmPage) <= Space /\ PagesOf(b, k) \cap (pages[r] \cup Foreign[r]) = {}
  BY DEF IsFree
<1>5. RoundUpPow2(a + n, VmPage) <= Space
  BY <1>2, <1>3, <1>4, CollFacts
<1>6. QED
  BY <1>1, <1>4, <1>5 DEF IsFree

\* mmap_no_physical_mem returns an aligned range that was free.
LEMMA FreshIs ==
  ASSUME NEW r, NEW n \in Nat, NEW a \in FreshStarts(r, n)
  PROVE  a \in Nat /\ a % MapBlock = 0 /\ IsFree(r, a, n)
<1>1. PICK p \in 0..(Space - 1) : p % VmPage = 0 /\ IsFree(r, p, n + MapBlock) /\ a = RoundUpPow2(p, MapBlock)
  BY DEF FreshStarts
<1>2. p \in Nat /\ MapBlock \in Nat \ {0}
  BY <1>1, CollFacts
<1>3. a \in Nat /\ p <= a /\ a < p + MapBlock /\ a % MapBlock = 0
  BY <1>1, <1>2, RoundUpIs
<1>4. PICK k \in Nat : k = n + MapBlock
  BY <1>2
<1>5. a + n <= p + k
  BY <1>2, <1>3, <1>4
<1>6. IsFree(r, a, n)
  BY <1>1, <1>2, <1>3, <1>4, <1>5, FreePart
<1>7. QED
  BY <1>3, <1>6

\* What is taken stays taken, for larger ranges too, while nothing is given back.
LEMMA StaysTaken ==
  ASSUME NEW r, NEW a \in Nat, NEW n \in Nat, NEW k \in Nat, n <= k,
         ~IsFree(r, a, n), pages[r] \subseteq pages'[r]
  PROVE  ~IsFree(r, a, k)'
<1>1. ~IsFree(r, a, k)
  BY FreePart
<1>2. QED
  BY <1>1 DEF IsFree

\* A range that is reserved is taken.
LEMMA ReservedIsTaken ==
  ASSUME NEW r, NEW a \in Nat, NEW n \in Nat \ {0}, PagesOf(a, n) \subseteq pages[r]
  PROVE  ~IsFree(r, a, n)
<1>1. SUFFICES ASSUME IsFree(r, a, n)
               PROVE  FALSE
  OBVIOUS
<1>2. a + n <= Space
  BY <1>1, FreeWithin
<1>3. a < a + n /\ a < Space
  BY <1>2, CollFacts
<1>4. a - (a % VmPage) \in PagesOf(a, n)
  BY <1>3, PageOf
<1>5. QED
  BY <1>1, <1>4 DEF IsFree

-----------------------------------------------------------------------------
(* The calls.                                                               *)

LEMMA CallIs ==
  ASSUME CollType, call # NoCall
  PROVE  /\ call \in CallType
         /\ call.mem \in Mems /\ call.leader \in Ranks /\ call.size \in Nat \ {0} /\ call.trial \in Nat
         /\ call.addr \in Nat \cup {-1}
         /\ call.vm \in [Ranks -> VmType]
         /\ call.prev \in [Ranks -> SUBSET VmType]
         /\ call.voted \subseteq Ranks
BY DEF CollType, CallType

LEMMA IsACall ==
  ASSUME NEW c \in CallType
  PROVE  c # NoCall
<1>1. "mem" \in DOMAIN c
  BY DEF CallType
<1>2. DOMAIN <<>> = {}
  OBVIOUS
<1>3. QED
  BY <1>1, <1>2 DEF NoCall

\* A rank enters the range that it has reserved.
LEMMA ReservedIs ==
  ASSUME CollType, call # NoCall, NEW r \in Ranks, NEW a \in Nat, Reserved(r, a)
  PROVE  /\ call' \in CallType
         /\ call'.mem = call.mem /\ call'.leader = call.leader /\ call'.size = call.size
         /\ call'.trial = call.trial /\ call'.prev = call.prev
         /\ call'.addr = a /\ call'.voted = call.voted \cup {r}
         /\ call'.vm = [call.vm EXCEPT ![r] = [addr |-> a, size |-> call.size]]
         /\ pages' = [pages EXCEPT ![r] = @ \cup PagesOf(a, call.size)]
<1> DEFINE v == [addr |-> a, size |-> call.size]
           V == [call.vm EXCEPT ![r] = v]
<1>0. call \in CallType /\ v \in VmType /\ V \in [Ranks -> VmType] /\ call.voted \cup {r} \subseteq Ranks
  BY CallIs DEF VmType
<1>1. call' = [call EXCEPT !.vm = V, !.addr = a, !.voted = @ \cup {r}]
  BY <1>0 DEF Reserved, CallType
<1> HIDE DEF v, V
<1>2. /\ call'.mem = call.mem /\ call'.leader = call.leader /\ call'.size = call.size
      /\ call'.trial = call.trial /\ call'.prev = call.prev
      /\ call'.addr = a /\ call'.voted = call.voted \cup {r} /\ call'.vm = V
  BY <1>0, <1>1 DEF CallType
<1>3. call' \in CallType
  BY <1>0, <1>1 DEF CallType, VmType
<1>4. QED
  BY <1>2, <1>3 DEF Reserved, V, v

\* The call of the next trial.
LEMMA RetriesIs ==
  ASSUME CollType, ReserveRetries
  PROVE  /\ call' \in CallType
         /\ call'.leader \in Failed
         /\ call'.mem = call.mem /\ call'.size = 2 * call.size /\ call'.trial = call.trial + 1
         /\ call'.addr = call.addr /\ call'.voted = {} /\ call'.vm = [r \in Ranks |-> NoVm]
         /\ call'.prev = [r \in Ranks |-> IF r \in Failed THEN call.prev[r] ELSE call.prev[r] \cup {call.vm[r]}]
<1> DEFINE V == [r \in Ranks |-> NoVm]
           P == [r \in Ranks |-> IF r \in Failed THEN call.prev[r] ELSE call.prev[r] \cup {call.vm[r]}]
           L == Max(Failed)
           z == 2 * call.size
           t == call.trial + 1
<1>1. call # NoCall /\ Failed # {}
  BY DEF ReserveRetries, AllVoted
<1>2. /\ call \in CallType /\ call.size \in Nat \ {0} /\ call.trial \in Nat
      /\ call.vm \in [Ranks -> VmType] /\ call.prev \in [Ranks -> SUBSET VmType]
  BY <1>1, CallIs
<1>3. L \in Failed /\ L \in Ranks
  <2>1. Failed \in SUBSET (0..(NRanks - 1)) /\ Failed \subseteq Ranks /\ NRanks - 1 \in Nat
    BY CollFacts DEF Failed, Ranks
  <2>2. \E i \in Failed : \A j \in Failed : j <= i
    BY <1>1, <2>1, Greatest
  <2>3. \E i \in Failed : \A j \in Failed : i >= j
    BY <2>1, <2>2
  <2>4. QED
    BY <2>1, <2>3 DEF Max
<1>4. V \in [Ranks -> VmType]
  BY DEF VmType, NoVm
<1>5. P \in [Ranks -> SUBSET VmType]
  BY <1>2
<1>6. z \in Nat \ {0} /\ t \in Nat
  BY <1>2
<1>7. call' = [call EXCEPT !.leader = L, !.size = z, !.trial = t, !.prev = P, !.voted = {}, !.vm = V]
  BY <1>2 DEF ReserveRetries, CallType
<1>8. V = [r \in Ranks |-> NoVm] /\ z = 2 * call.size /\ t = call.trial + 1
      /\ P = [r \in Ranks |-> IF r \in Failed THEN call.prev[r] ELSE call.prev[r] \cup {call.vm[r]}]
  OBVIOUS
<1> HIDE DEF V, P, L, z, t
<1>9. /\ call'.leader = L /\ call'.mem = call.mem /\ call'.size = z /\ call'.trial = t
      /\ call'.addr = call.addr /\ call'.voted = {} /\ call'.vm = V /\ call'.prev = P
  BY <1>2, <1>7 DEF CallType
<1>10. call' \in CallType
  BY <1>2, <1>3, <1>4, <1>5, <1>6, <1>7 DEF CallType
<1>11. QED
  BY <1>3, <1>8, <1>9, <1>10

\* Every step keeps the types of the collective calls.
LEMMA CollTypeStep ==
  ASSUME CollInv, CollNext
  PROVE  CollType'
<1>0. CollType /\ HomeInv /\ LiveInv /\ TrialInv
  BY DEF CollInv
<1>1. ASSUME cmVars' = cmVars
      PROVE  CollType'
  BY <1>0, <1>1 DEF cmVars, CollType
<1>2. ASSUME NEW m \in Mems, StartReserve(m)
      PROVE  CollType'
  <2> DEFINE V == [r \in Ranks |-> NoVm]
             P == [r \in Ranks |-> {}]
             z == RoundUpPow2(SizeOf(m), VmPage)
  <2>1. z \in Nat \ {0}
    BY SizeIs
  <2>2. V \in [Ranks -> VmType] /\ P \in [Ranks -> SUBSET VmType]
    BY DEF VmType, NoVm
  <2>3. /\ call' = [mem |-> m, leader |-> 0, size |-> z, trial |-> 0, addr |-> -1,
                    vm |-> V, prev |-> P, voted |-> {}]
        /\ tried' = {} /\ pages' = pages /\ collMems' = collMems
    BY <1>2 DEF StartReserve
  <2> HIDE DEF V, P, z
  <2>4. call' \in CallType
    BY <2>1, <2>2, <2>3, CollFacts DEF CallType
  <2>5. IsFiniteSet(tried') /\ tried' \subseteq Nat
    BY <2>3, FS_EmptySet
  <2>6. QED
    BY <1>0, <2>3, <2>4, <2>5 DEF CollType
<1>3. ASSUME call # NoCall, NEW r \in Ranks, NEW a \in Nat, Reserved(r, a), collMems' = collMems,
             tried' = tried \/ tried' = tried \cup {a}
      PROVE  CollType'
  <2>1. call' \in CallType /\ pages' = [pages EXCEPT ![r] = @ \cup PagesOf(a, call.size)]
    BY <1>0, <1>3, ReservedIs
  <2>2. PagesOf(a, call.size) \in SUBSET (0..(Space - 1))
    BY DEF PagesOf
  <2>3. pages' \in [Ranks -> SUBSET (0..(Space - 1))]
    BY <1>0, <2>1, <2>2 DEF CollType
  <2>4. IsFiniteSet(tried') /\ tried' \subseteq Nat
    <3>1. IsFiniteSet(tried) /\ tried \subseteq Nat
      BY <1>0 DEF CollType
    <3>2. IsFiniteSet(tried \cup {a})
      BY <3>1, FS_AddElement
    <3>3. QED
      BY <1>3, <3>1, <3>2
  <2>5. QED
    BY <1>0, <1>3, <2>1, <2>3, <2>4 DEF CollType
<1>4. ASSUME LeaderReserves
      PROVE  CollType'
  <2>1. call # NoCall /\ collMems' = collMems
    BY <1>4 DEF LeaderReserves
  <2>2. PICK a \in FreshStarts(call.leader, call.size) :
          Reserved(call.leader, a) /\ tried' = tried \cup {a}
    BY <1>4 DEF LeaderReserves
  <2>3. call.leader \in Ranks /\ call.size \in Nat
    BY <1>0, <2>1, CallIs
  <2>4. a \in Nat
    BY <2>3, FreshIs
  <2>5. QED
    BY <1>3, <2>1, <2>2, <2>3, <2>4
<1>5. ASSUME NEW r \in Ranks, FollowerReserves(r)
      PROVE  CollType'
  <2>1. call # NoCall /\ collMems' = collMems /\ tried' = tried /\ call.voted # {}
    BY <1>5 DEF FollowerReserves
  <2>2. CASE IsFree(r, call.addr, call.size)
    <3>1. Reserved(r, call.addr)
      BY <1>5, <2>2 DEF FollowerReserves
    <3>2. call.addr \in Nat
      BY <1>0, <2>1, CallIs DEF TrialInv
    <3>3. QED
      BY <1>3, <2>1, <3>1, <3>2
  <2>3. CASE ~IsFree(r, call.addr, call.size)
    <3>1. call' = [call EXCEPT !.voted = @ \cup {r}] /\ pages' = pages
      BY <1>5, <2>3 DEF FollowerReserves
    <3>2. call' \in CallType
      BY <1>0, <2>1, <3>1, CallIs DEF CallType
    <3>3. QED
      BY <1>0, <2>1, <3>1, <3>2 DEF CollType
  <2>4. QED
    BY <2>2, <2>3
<1>6. ASSUME ReserveSucceeds
      PROVE  CollType'
  <2> DEFINE c == [mem |-> call.mem, addr |-> call.addr, size |-> SizeOf(call.mem)]
  <2>1. call # NoCall
    BY <1>6 DEF ReserveSucceeds, AllVoted
  <2>2. c \in MemType
    BY <1>0, <2>1, CallIs, SizeIs DEF MemType
  <2>3. /\ collMems' = Append(collMems, c) /\ call' = NoCall /\ tried' = {}
        /\ pages' = [r \in Ranks |-> Munmap(Shrunk(pages[r], call.vm[r], SizeOf(call.mem)), call.prev[r])]
    BY <1>6 DEF ReserveSucceeds
  <2> HIDE DEF c
  <2>4. collMems' \in Seq(MemType)
    BY <1>0, <2>2, <2>3 DEF CollType
  <2>5. pages' \in [Ranks -> SUBSET (0..(Space - 1))]
    BY <1>0, <2>3 DEF CollType, Munmap, Shrunk
  <2>6. IsFiniteSet(tried') /\ tried' \subseteq Nat
    BY <2>3, FS_EmptySet
  <2>7. QED
    BY <2>3, <2>4, <2>5, <2>6 DEF CollType
<1>7. ASSUME ReserveRetries
      PROVE  CollType'
  <2>1. call' \in CallType /\ pages' = pages /\ tried' = tried /\ collMems' = collMems
    BY <1>0, <1>7, RetriesIs DEF ReserveRetries
  <2>2. QED
    BY <1>0, <2>1 DEF CollType
<1>8. ASSUME NEW m \in Mems, FreeCollective(m)
      PROVE  CollType'
  <2>1. call' = call /\ tried' = tried /\ Destroy(m)
    BY <1>8 DEF FreeCollective
  <2>2. PICK k : collMems' = [collMems EXCEPT ![k] = NoMem]
    BY <2>1 DEF Destroy
  <2>3. NoMem \in MemType
    BY DEF NoMem, MemType
  <2>4. collMems' \in Seq(MemType)
    <3>1. collMems \in [1..Len(collMems) -> MemType] /\ Len(collMems) \in Nat
      BY <1>0 DEF CollType
    <3>2. collMems' \in [1..Len(collMems) -> MemType]
      BY <2>2, <2>3, <3>1
    <3>3. QED
      BY <3>1, <3>2
  <2>5. pages' \in [Ranks -> SUBSET (0..(Space - 1))]
    BY <1>0, <2>1 DEF CollType, Munmap, Destroy
  <2>6. QED
    BY <1>0, <2>1, <2>4, <2>5 DEF CollType
<1>9. ASSUME LeaderDies \/ ReserveDies
      PROVE  cmVars' = cmVars
  BY <1>9 DEF LeaderDies, ReserveDies, cmVars
<1>10. QED
  BY <1>1, <1>2, <1>4, <1>5, <1>6, <1>7, <1>8, <1>9 DEF CollNext

\* A step that leaves the home manager as it is, or dies between its calls.
LEMMA HomeStays ==
  ASSUME HomeInv, <<slot, lru, tlb, toMap, vm, alive, out, op>>' = <<slot, lru, tlb, toMap, vm, alive, out, op>>,
         dead' = dead \/ (dead' = TRUE /\ op = Idle)
  PROVE  HomeInv'
<1>0. HomeType /\ CallInv /\ KeysInv /\ RefsInv /\ MapInv
  BY DEF HomeInv
<1>1. /\ slot' = slot /\ lru' = lru /\ tlb' = tlb /\ toMap' = toMap
      /\ vm' = vm /\ alive' = alive /\ out' = out /\ op' = op
  OBVIOUS
<1>2. HomeType'
  BY <1>0, <1>1 DEF HomeType
<1>3. CallInv'
  BY <1>0, <1>1 DEF CallInv, Lives, In
<1>4. KeysInv'
  BY <1>0, <1>1 DEF KeysInv
<1>5. RefsInv'
  <2>1. \A seg : RefOf(seg)' = RefOf(seg)
    BY <1>1 DEF RefOf, CheckoutsOf, UsersOf, Held, In
  <2>2. dead' = FALSE => dead = FALSE
    BY <1>0 DEF HomeType
  <2>3. QED
    BY <1>0, <1>1, <2>1, <2>2 DEF RefsInv
<1>6. MapInv'
  BY <1>0, <1>1 DEF MapInv, Queued, Touches
<1>7. QED
  BY <1>2, <1>3, <1>4, <1>5, <1>6 DEF HomeInv

\* Every step keeps the home manager's invariant.
LEMMA CollHomeStep ==
  ASSUME CollInv, CollNext
  PROVE  HomeInv'
<1>0. CollType /\ HomeInv /\ TrialInv
  BY DEF CollInv
<1>1. ASSUME vars' = vars
      PROVE  HomeInv'
  <2>1. <<slot, lru, tlb, toMap, vm, alive, out, op>>' = <<slot, lru, tlb, toMap, vm, alive, out, op>> /\ dead' = dead
    BY <1>1 DEF vars
  <2>2. QED
    BY <1>0, <2>1, HomeStays
<1>2. CASE HomeStep
  BY <1>0, <1>2, HomeInvStep
<1>3. CASE \E m \in Mems : StartReserve(m)
  BY <1>1, <1>3 DEF StartReserve
<1>4. CASE \E m \in Mems : FreeCollective(m)
  BY <1>0, <1>4, HomeInvStep DEF FreeCollective
<1>5. CASE LeaderReserves
  BY <1>1, <1>5 DEF LeaderReserves
<1>6. CASE LeaderDies \/ ReserveDies
  <2>1. call # NoCall /\ dead' = TRUE
        /\ <<slot, lru, tlb, toMap, vm, alive, out, op>>' = <<slot, lru, tlb, toMap, vm, alive, out, op>>
    <3>1. CASE LeaderDies
      <4>1. op' = op
        BY <1>0, <3>1 DEF LeaderDies
      <4>2. QED
        BY <3>1, <4>1 DEF LeaderDies
    <3>2. CASE ReserveDies
      BY <3>2 DEF ReserveDies, AllVoted
    <3>3. QED
      BY <1>6, <3>1, <3>2
  <2>2. op = Idle
    BY <1>0, <2>1 DEF TrialInv
  <2>3. QED
    BY <1>0, <2>1, <2>2, HomeStays
<1>7. CASE ReserveSucceeds
  <2>1. call.mem \in Mems
    BY <1>0, <1>7, CallIs DEF ReserveSucceeds, AllVoted
  <2>2. MallocColl(call.mem)
    BY <1>7 DEF ReserveSucceeds
  <2>3. QED
    BY <1>0, <2>1, <2>2, HomeInvStep
<1>8. CASE ReserveRetries
  BY <1>1, <1>8 DEF ReserveRetries
<1>9. CASE \E r \in Ranks : FollowerReserves(r)
  BY <1>1, <1>9 DEF FollowerReserves
<1>10. QED
  BY <1>2, <1>3, <1>4, <1>5, <1>6, <1>7, <1>8, <1>9 DEF CollNext

\* A range has a page.
LEMMA HasPages ==
  ASSUME NEW a \in Nat, NEW n \in Nat \ {0}, a + n <= Space
  PROVE  PagesOf(a, n) # {}
<1>1. a < a + n /\ a < Space
  BY CollFacts
<1>2. a - (a % VmPage) \in PagesOf(a, n)
  BY <1>1, PageOf
<1>3. QED
  BY <1>2

\* The allocations stay while reserved pages only become more.
LEMMA LiveKeeps ==
  ASSUME LiveInv, collMems' = collMems, alive' = alive,
         \A r \in Ranks : pages[r] \subseteq pages'[r],
         call' # NoCall \/ (call = NoCall /\ pages' = pages)
  PROVE  LiveInv' /\ LivePages' = LivePages
<1>1. Live' = Live
  BY DEF Live
<1>2. LivePages' = LivePages
  BY <1>1 DEF LivePages
<1>3. LiveInv'
  BY <1>1, <1>2 DEF LiveInv
<1>4. QED
  BY <1>2, <1>3

\* A rank reserves the range of the trial.
LEMMA TrialReserves ==
  ASSUME CollType, LiveInv, TrialInv, call # NoCall, NEW r \in Ranks, NEW a \in Nat, Reserved(r, a),
         IsFree(r, a, call.size), a % MapBlock = 0, ~HasVoted(r),
         collMems' = collMems, alive' = alive, op' = op,
         \/ call.voted = {} /\ r = call.leader /\ tried' = tried \cup {a}
         \/ call.voted # {} /\ a = call.addr /\ tried' = tried
  PROVE  LiveInv' /\ TrialInv'
<1>1. /\ call' \in CallType
      /\ call'.mem = call.mem /\ call'.leader = call.leader /\ call'.size = call.size
      /\ call'.trial = call.trial /\ call'.prev = call.prev
      /\ call'.addr = a /\ call'.voted = call.voted \cup {r}
      /\ call'.vm = [call.vm EXCEPT ![r] = [addr |-> a, size |-> call.size]]
      /\ pages' = [pages EXCEPT ![r] = @ \cup PagesOf(a, call.size)]
  BY ReservedIs
<1>2. /\ call.size \in Nat \ {0} /\ call.vm \in [Ranks -> VmType] /\ call.trial \in Nat
      /\ pages \in [Ranks -> SUBSET (0..(Space - 1))] /\ IsFiniteSet(tried) /\ tried \subseteq Nat
  BY CallIs DEF CollType
<1>0. PICK n \in Nat \ {0} : n = call.size
  BY <1>2
<1>3. call' # NoCall
  BY <1>1, IsACall
<1>4. \A q \in Ranks : pages[q] \subseteq pages'[q]
  BY <1>1, <1>2
<1>5. LiveInv' /\ LivePages' = LivePages
  BY <1>3, <1>4, LiveKeeps
<1>6. \A q \in Ranks : PrevPages(q)' = PrevPages(q)
  BY <1>1 DEF PrevPages
<1>7. a + call.size <= Space /\ PagesOf(a, call.size) \cap (pages[r] \cup Foreign[r]) = {}
  BY <1>2, FreeWithin DEF IsFree
<1>8. \A q \in Ranks : HasVoted(q)' <=> HasVoted(q) \/ q = r
  BY <1>1 DEF HasVoted
<1>9. call'.voted # {} /\ call'.leader \in call'.voted
  BY <1>1 DEF TrialInv
<1>10. call.vm[r] = NoVm /\ RangePages(call.vm[r]) = {}
  BY NoPages DEF TrialInv
<1>11. Cardinality(tried') = call'.trial + 1
  <2>1. CASE call.voted = {} /\ r = call.leader /\ tried' = tried \cup {a}
    <3>1. a \notin tried
      BY <2>1 DEF TrialInv
    <3>2. IsFiniteSet(tried)
      BY <1>2
    <3>3. Cardinality(tried \cup {a}) = Cardinality(tried) + 1
      BY <3>1, <3>2, FS_AddElement
    <3>4. Cardinality(tried) = call.trial
      BY <1>2, <2>1 DEF TrialInv
    <3>5. QED
      BY <1>1, <2>1, <3>3, <3>4
  <2>2. CASE call.voted # {} /\ a = call.addr /\ tried' = tried
    BY <1>1, <2>2 DEF TrialInv
  <2>3. QED
    BY <2>1, <2>2
<1>12. ASSUME NEW q \in Ranks
       PROVE  /\ pages'[q] = LivePages' \cup PrevPages(q)' \cup RangePages(call'.vm[q])
              /\ LivePages' \cap PrevPages(q)' = {}
              /\ RangePages(call'.vm[q]) \cap (LivePages' \cup PrevPages(q)' \cup Foreign[q]) = {}
              /\ call'.vm[q] # NoVm =>
                   /\ HasVoted(q)'
                   /\ call'.vm[q] = [addr |-> call'.addr, size |-> call'.size]
                   /\ call'.addr + call'.size <= Space
  <2>1. /\ pages[q] = LivePages \cup PrevPages(q) \cup RangePages(call.vm[q])
        /\ LivePages \cap PrevPages(q) = {}
        /\ RangePages(call.vm[q]) \cap (LivePages \cup PrevPages(q) \cup Foreign[q]) = {}
        /\ call.vm[q] # NoVm =>
             /\ HasVoted(q)
             /\ call.vm[q] = [addr |-> call.addr, size |-> call.size]
             /\ call.addr + call.size <= Space
    BY DEF TrialInv
  <2>2. CASE q = r
    <3>1. call'.vm[q] = [addr |-> a, size |-> call.size]
      BY <1>1, <1>2, <2>2
    <3>2. RangePages(call'.vm[q]) = PagesOf(a, call.size)
      BY <3>1 DEF RangePages
    <3>3. pages'[q] = pages[q] \cup PagesOf(a, call.size)
      BY <1>1, <1>2, <2>2
    <3>4. /\ pages'[q] = LivePages' \cup PrevPages(q)' \cup RangePages(call'.vm[q])
          /\ LivePages' \cap PrevPages(q)' = {}
          /\ RangePages(call'.vm[q]) \cap (LivePages' \cup PrevPages(q)' \cup Foreign[q]) = {}
      BY <1>5, <1>6, <1>7, <1>10, <2>1, <2>2, <3>2, <3>3
    <3>5. QED
      BY <1>1, <1>7, <1>8, <2>2, <3>1, <3>4
  <2>3. CASE q # r
    <3>1. call'.vm[q] = call.vm[q] /\ pages'[q] = pages[q]
      BY <1>1, <1>2, <2>3
    <3>2. call.vm[q] # NoVm => call.addr = a
      BY <2>1 DEF HasVoted
    <3>3. QED
      BY <1>1, <1>5, <1>6, <1>8, <2>1, <3>1, <3>2
  <2>4. QED
    BY <2>2, <2>3
<1>13. ASSUME NEW b \in tried', NEW q \in Ranks
       PROVE  ~IsFree(q, b, n)' \/ (b = call'.addr /\ call'.voted # {} /\ ~HasVoted(q)')
  <2>1. ASSUME b = a, q = r
        PROVE  ~IsFree(q, b, n)'
    <3>1. PagesOf(a, n) # {}
      BY <1>0, <1>7, HasPages
    <3>2. PagesOf(a, n) \subseteq pages'[r]
      BY <1>0, <1>1, <1>2
    <3>3. QED
      BY <2>1, <3>1, <3>2 DEF IsFree
  <2>2. CASE b \in tried
    <3>1. CASE ~IsFree(q, b, call.size)
      <4>1. pages[q] \subseteq pages'[q] /\ b \in Nat /\ ~IsFree(q, b, n)
        BY <1>0, <1>2, <1>4, <2>2, <3>1
      <4>2. QED
        BY <4>1, StaysTaken
    <3>2. CASE b = call.addr /\ call.voted # {} /\ ~HasVoted(q)
      <4>1. b = a
        BY <3>2
      <4>2. CASE q = r
        BY <2>1, <4>1, <4>2
      <4>3. CASE q # r
        BY <1>1, <1>8, <1>9, <3>2, <4>1, <4>3
      <4>4. QED
        BY <4>2, <4>3
    <3>3. QED
      BY <2>2, <3>1, <3>2 DEF TrialInv
  <2>3. CASE b \notin tried
    <3>1. b = a /\ call.voted = {}
      BY <2>3
    <3>2. CASE q = r
      BY <2>1, <3>1, <3>2
    <3>3. CASE q # r
      <4>1. ~HasVoted(q)
        BY <3>1 DEF HasVoted
      <4>2. QED
        BY <1>1, <1>8, <1>9, <3>1, <3>3, <4>1
    <3>4. QED
      BY <3>2, <3>3
  <2>4. QED
    BY <2>2, <2>3
<1>14. /\ op' = Idle /\ call'.mem \notin alive'
       /\ SizeOf(call'.mem) <= call'.size
       /\ Cardinality(tried') = call'.trial + (IF call'.voted = {} THEN 0 ELSE 1)
       /\ call'.voted # {} => call'.leader \in call'.voted /\ call'.addr >= 0 /\ call'.addr % MapBlock = 0
  <2>1. op = Idle /\ call.mem \notin alive /\ SizeOf(call.mem) <= call.size
    BY DEF TrialInv
  <2>2. QED
    BY <1>1, <1>9, <1>11, <2>1
<1>15. TrialInv'
  <2>1. n = call'.size
    BY <1>0, <1>1
  <2>2. \A b \in tried', q \in Ranks :
          ~IsFree(q, b, call.size)' \/ (b = call'.addr /\ call'.voted # {} /\ ~HasVoted(q)')
    BY <1>13, <2>1 DEF IsFree
  <2>3. QED
    BY <1>12, <1>14, <2>2 DEF TrialInv
<1>16. QED
  BY <1>5, <1>15

\* An allocation starts.
LEMMA StartTrial ==
  ASSUME CollInv, NEW m \in Mems, StartReserve(m), call' \in CallType
  PROVE  LiveInv' /\ TrialInv'
<1>0. CollType /\ LiveInv
  BY DEF CollInv
<1> DEFINE z == RoundUpPow2(SizeOf(m), VmPage)
<1>1. /\ op = Idle /\ call = NoCall /\ m \notin alive
      /\ call' = [mem |-> m, leader |-> 0, size |-> z, trial |-> 0, addr |-> -1,
                  vm |-> [r \in Ranks |-> NoVm], prev |-> [r \in Ranks |-> {}], voted |-> {}]
      /\ tried' = {} /\ pages' = pages /\ collMems' = collMems /\ alive' = alive /\ op' = op
  BY DEF StartReserve, vars
<1>2. z = SizeOf(m) /\ SizeOf(m) \in Nat
  BY SizeIs
<1> HIDE DEF z
<1>3. LiveInv' /\ LivePages' = LivePages
  <2>1. call' # NoCall /\ \A r \in Ranks : pages[r] \subseteq pages'[r]
    BY <1>1, IsACall
  <2>2. QED
    BY <1>0, <1>1, <2>1, LiveKeeps
<1>4. call'.mem = m /\ call'.size = z /\ call'.trial = 0 /\ call'.voted = {}
      /\ call'.vm = [r \in Ranks |-> NoVm] /\ call'.prev = [r \in Ranks |-> {}]
  BY <1>1
<1>5. ASSUME NEW r \in Ranks
      PROVE  call'.vm[r] = NoVm /\ RangePages(call'.vm[r]) = {} /\ PrevPages(r)' = {} /\ pages'[r] = LivePages'
  <2>1. call'.vm[r] = NoVm /\ call'.prev[r] = {}
    BY <1>4
  <2>2. pages'[r] = LivePages'
    BY <1>0, <1>1, <1>3 DEF LiveInv
  <2>3. PrevPages(r)' = {}
    BY <2>1 DEF PrevPages
  <2>4. QED
    BY <2>1, <2>2, <2>3, NoPages
<1>6. /\ op' = Idle /\ call'.mem \notin alive'
      /\ SizeOf(call'.mem) <= call'.size
      /\ Cardinality(tried') = call'.trial + 0
  BY <1>1, <1>2, <1>4, FS_EmptySet
<1>7. QED
  BY <1>1, <1>3, <1>4, <1>5, <1>6 DEF TrialInv

\* The leader reserves an aligned range where it has room: a new address.
LEMMA LeaderTrial ==
  ASSUME CollInv, LeaderReserves
  PROVE  LiveInv' /\ TrialInv'
<1>0. CollType /\ LiveInv /\ TrialInv
  BY DEF CollInv
<1>1. call # NoCall /\ call.voted = {} /\ collMems' = collMems /\ alive' = alive /\ op' = op
  BY DEF LeaderReserves, vars
<1>2. PICK a \in FreshStarts(call.leader, call.size) :
        Reserved(call.leader, a) /\ tried' = tried \cup {a}
  BY DEF LeaderReserves
<1>3. PICK r \in Ranks, n \in Nat \ {0} : r = call.leader /\ n = call.size
  BY <1>0, <1>1, CallIs
<1>4. a \in Nat /\ a % MapBlock = 0 /\ IsFree(r, a, n)
  <2>1. a \in FreshStarts(r, n)
    BY <1>3
  <2>2. QED
    BY <1>3, <2>1, FreshIs
<1>5. Reserved(r, a) /\ IsFree(r, a, call.size)
  BY <1>2, <1>3, <1>4
<1>6. ~HasVoted(r)
  BY <1>1 DEF HasVoted
<1>7. QED
  BY <1>0, <1>1, <1>2, <1>3, <1>4, <1>5, <1>6, TrialReserves

\* Another rank votes on the range.
LEMMA FollowerTrial ==
  ASSUME CollInv, NEW r \in Ranks, FollowerReserves(r)
  PROVE  LiveInv' /\ TrialInv'
<1>0. CollType /\ LiveInv /\ TrialInv
  BY DEF CollInv
<1>1. /\ call # NoCall /\ call.voted # {} /\ ~HasVoted(r)
      /\ tried' = tried /\ collMems' = collMems /\ alive' = alive /\ op' = op
  BY DEF FollowerReserves, HasVoted, vars
<1>2. PICK a \in Nat : a = call.addr /\ a % MapBlock = 0
  BY <1>0, <1>1, CallIs DEF TrialInv
<1>3. CASE IsFree(r, call.addr, call.size)
  <2>1. Reserved(r, a) /\ IsFree(r, a, call.size)
    BY <1>2, <1>3 DEF FollowerReserves
  <2>2. QED
    BY <1>0, <1>1, <1>2, <2>1, TrialReserves
<1>4. CASE ~IsFree(r, call.addr, call.size)
  <2>1. call' = [call EXCEPT !.voted = @ \cup {r}] /\ pages' = pages
    BY <1>4 DEF FollowerReserves
  <2>2. /\ call' \in CallType
        /\ call'.mem = call.mem /\ call'.leader = call.leader /\ call'.size = call.size
        /\ call'.trial = call.trial /\ call'.prev = call.prev /\ call'.addr = call.addr
        /\ call'.voted = call.voted \cup {r} /\ call'.vm = call.vm
    BY <1>0, <1>1, <2>1, CallIs DEF CallType
  <2>3. LiveInv' /\ LivePages' = LivePages
    <3>1. call' # NoCall /\ \A q \in Ranks : pages[q] \subseteq pages'[q]
      BY <2>1, <2>2, IsACall
    <3>2. QED
      BY <1>0, <1>1, <3>1, LiveKeeps
  <2>4. \A q \in Ranks : (HasVoted(q)' <=> HasVoted(q) \/ q = r) /\ PrevPages(q)' = PrevPages(q)
    BY <2>2 DEF HasVoted, PrevPages
  <2>5. \A q \in Ranks :
         /\ pages'[q] = LivePages' \cup PrevPages(q)' \cup RangePages(call'.vm[q])
         /\ LivePages' \cap PrevPages(q)' = {}
         /\ RangePages(call'.vm[q]) \cap (LivePages' \cup PrevPages(q)' \cup Foreign[q]) = {}
         /\ call'.vm[q] # NoVm =>
              /\ HasVoted(q)'
              /\ call'.vm[q] = [addr |-> call'.addr, size |-> call'.size]
              /\ call'.addr + call'.size <= Space
    BY <1>0, <1>1, <2>1, <2>2, <2>3, <2>4 DEF TrialInv
  <2>6. \A b \in tried', q \in Ranks :
          ~IsFree(q, b, call.size)' \/ (b = call'.addr /\ call'.voted # {} /\ ~HasVoted(q)')
    <3>1. \A b, q : IsFree(q, b, call.size)' <=> IsFree(q, b, call.size)
      BY <2>1, <2>2 DEF IsFree
    <3>2. TAKE b \in tried', q \in Ranks
    <3>3. ~IsFree(q, b, call.size) \/ (b = call.addr /\ ~HasVoted(q))
      BY <1>0, <1>1, <3>2 DEF TrialInv
    <3>4. CASE q = r /\ b = call.addr
      BY <1>4, <3>1, <3>4
    <3>5. CASE ~(q = r /\ b = call.addr)
      BY <2>2, <2>4, <3>1, <3>3, <3>5
    <3>6. QED
      BY <3>4, <3>5
  <2>7. /\ op' = Idle /\ call'.mem \notin alive'
        /\ SizeOf(call'.mem) <= call'.size
        /\ Cardinality(tried') = call'.trial + (IF call'.voted = {} THEN 0 ELSE 1)
        /\ call'.voted # {} => call'.leader \in call'.voted /\ call'.addr >= 0 /\ call'.addr % MapBlock = 0
    BY <1>0, <1>1, <2>2 DEF TrialInv
  <2>8. QED
    BY <2>3, <2>5, <2>6, <2>7 DEF TrialInv
<1>5. QED
  BY <1>3, <1>4

\* The next trial: the ranges that did not suit all ranks are kept, so that no
\* address that was taken is free again.
LEMMA NextTrial ==
  ASSUME CollInv, ReserveRetries
  PROVE  LiveInv' /\ TrialInv'
<1>0. CollType /\ LiveInv /\ TrialInv
  BY DEF CollInv
<1>1. /\ call # NoCall /\ call.voted = Ranks
      /\ pages' = pages /\ tried' = tried /\ collMems' = collMems /\ alive' = alive /\ op' = op
  BY DEF ReserveRetries, AllVoted, vars
<1>2. /\ call' \in CallType
      /\ call'.mem = call.mem /\ call'.size = 2 * call.size /\ call'.trial = call.trial + 1
      /\ call'.voted = {} /\ call'.vm = [r \in Ranks |-> NoVm]
      /\ call'.prev = [r \in Ranks |-> IF r \in Failed THEN call.prev[r] ELSE call.prev[r] \cup {call.vm[r]}]
  BY <1>0, RetriesIs
<1>3. PICK n \in Nat \ {0}, k \in Nat : n = call.size /\ k = 2 * n
  BY <1>0, <1>1, CallIs
<1>4. LiveInv' /\ LivePages' = LivePages
  <2>1. call' # NoCall /\ \A q \in Ranks : pages[q] \subseteq pages'[q]
    BY <1>1, <1>2, IsACall
  <2>2. QED
    BY <1>0, <1>1, <2>1, LiveKeeps
<1>5. ASSUME NEW r \in Ranks
      PROVE  PrevPages(r)' = PrevPages(r) \cup RangePages(call.vm[r])
  <2>1. CASE r \in Failed
    <3>1. call'.prev[r] = call.prev[r]
      BY <1>2, <2>1
    <3>2. RangePages(call.vm[r]) = {}
      BY <2>1, NoPages DEF Failed
    <3>3. QED
      BY <3>1, <3>2 DEF PrevPages
  <2>2. CASE r \notin Failed
    <3>1. call'.prev[r] = call.prev[r] \cup {call.vm[r]}
      BY <1>2, <2>2
    <3>2. QED
      BY <3>1 DEF PrevPages
  <2>3. QED
    BY <2>1, <2>2
<1>6. ASSUME NEW r \in Ranks
      PROVE  /\ call'.vm[r] = NoVm
             /\ pages'[r] = LivePages' \cup PrevPages(r)' \cup RangePages(call'.vm[r])
             /\ LivePages' \cap PrevPages(r)' = {}
             /\ RangePages(call'.vm[r]) \cap (LivePages' \cup PrevPages(r)' \cup Foreign[r]) = {}
  <2>1. call'.vm[r] = NoVm /\ RangePages(call'.vm[r]) = {}
    BY <1>2, NoPages
  <2>2. /\ pages[r] = LivePages \cup PrevPages(r) \cup RangePages(call.vm[r])
        /\ LivePages \cap PrevPages(r) = {}
        /\ RangePages(call.vm[r]) \cap LivePages = {}
    BY <1>0, <1>1 DEF TrialInv
  <2>3. QED
    BY <1>1, <1>4, <1>5, <2>1, <2>2
<1>7. \A b \in tried', r \in Ranks : ~IsFree(r, b, call.size)'
  <2>1. TAKE b \in tried', r \in Ranks
  <2>2. ~IsFree(r, b, n)
    BY <1>0, <1>1, <1>3, <2>1 DEF TrialInv, HasVoted
  <2>3. b \in Nat /\ pages[r] \subseteq pages'[r]
    <3>1. tried \subseteq Nat
      BY <1>0 DEF CollType
    <3>2. QED
      BY <1>1, <2>1, <3>1
  <2>4. n <= k
    BY <1>3
  <2>5. ~IsFree(r, b, k)'
    BY <1>3, <2>2, <2>3, <2>4, StaysTaken
  <2>6. call'.size = k
    BY <1>2, <1>3
  <2>7. QED
    BY <2>5, <2>6 DEF IsFree
<1>8. /\ op' = Idle /\ call'.mem \notin alive'
      /\ SizeOf(call'.mem) <= call'.size
      /\ Cardinality(tried') = call'.trial + 0
  <2>1. /\ op = Idle /\ call.mem \notin alive
        /\ SizeOf(call.mem) <= call.size /\ call.mem \in Mems
    BY <1>0, <1>1, CallIs DEF TrialInv
  <2>2. SizeOf(call.mem) \in Nat
    BY <2>1, SizeIs
  <2>3. SizeOf(call'.mem) <= call'.size
    BY <1>2, <1>3, <2>1, <2>2
  <2>4. call.voted # {} /\ call.trial \in Nat
    BY <1>0, <1>1, CollFacts, CallIs
  <2>5. Cardinality(tried) = call.trial + 1
    BY <1>0, <1>1, <2>4 DEF TrialInv
  <2>6. QED
    BY <1>1, <1>2, <2>1, <2>3, <2>4, <2>5
<1>9. QED
  BY <1>2, <1>4, <1>6, <1>7, <1>8 DEF TrialInv

\* An allocation by its id.
LEMMA LiveIs ==
  /\ \A i \in DOMAIN collMems : collMems[i] # NoMem => collMems[i] \in Live
  /\ \A c \in Live : c # NoMem /\ \E i \in DOMAIN collMems : c = collMems[i]
BY DEF Live, Range

\* The range of the last trial suits all ranks: its first part becomes the
\* allocation, and what the rest of the trials has reserved goes.
LEMMA TrialSucceeds ==
  ASSUME CollInv, ReserveSucceeds
  PROVE  LiveInv' /\ TrialInv'
<1>0. CollType /\ LiveInv /\ TrialInv
  BY DEF CollInv
<1> DEFINE S == SizeOf(call.mem)
           e == [mem |-> call.mem, addr |-> call.addr, size |-> S]
<1>1. /\ call # NoCall /\ call.voted = Ranks /\ Failed = {}
      /\ pages' = [r \in Ranks |-> Munmap(Shrunk(pages[r], call.vm[r], S), call.prev[r])]
      /\ collMems' = Append(collMems, e) /\ call' = NoCall
      /\ alive' = alive \cup {call.mem}
  BY DEF ReserveSucceeds, AllVoted, MallocColl
<1>2. /\ call.mem \in Mems /\ call.mem # {} /\ call.mem \notin alive
      /\ S \in Nat \ {0} /\ RoundUpPow2(S, VmPage) = S /\ S <= call.size /\ call.size \in Nat
  BY <1>0, <1>1, CallIs, SizeIs, HomeAssumption DEF TrialInv
<1>3. call.addr \in Nat /\ call.addr % MapBlock = 0
  BY <1>0, <1>1, CollFacts, CallIs DEF TrialInv
<1>4. e.mem = call.mem /\ e.addr = call.addr /\ e.size = S
  OBVIOUS
<1>5. e # NoMem
  BY <1>2, <1>4 DEF NoMem
<1> HIDE DEF S, e
<1>6. \A r \in Ranks : call.vm[r] = [addr |-> call.addr, size |-> call.size] /\ call.addr + call.size <= Space
  <2>1. \A r \in Ranks : call.vm[r] # NoVm
    BY <1>1 DEF Failed
  <2>2. QED
    BY <1>0, <1>1, <2>1 DEF TrialInv
<1>7. call.addr + S <= Space
  <2>1. call.addr + call.size <= Space
    BY <1>6, CollFacts
  <2>2. QED
    BY <1>2, <1>3, <2>1, CollFacts
<1>8. \A r \in Ranks : RangePages(e) \subseteq RangePages(call.vm[r])
  <2>1. PagesOf(call.addr, S) \subseteq PagesOf(call.addr, call.size)
    BY <1>2, <1>3, PagesWithin
  <2>2. QED
    BY <1>4, <1>6, <2>1 DEF RangePages
<1>9. \A r \in Ranks : RangePages(e) \cap LivePages = {} /\ RangePages(e) \cap Foreign[r] = {}
  BY <1>0, <1>1, <1>8 DEF TrialInv
<1>10. ASSUME NEW r \in Ranks
       PROVE  pages'[r] = LivePages \cup RangePages(e)
  <2>1. /\ pages[r] = LivePages \cup PrevPages(r) \cup RangePages(call.vm[r])
        /\ LivePages \cap PrevPages(r) = {}
        /\ RangePages(call.vm[r]) \cap (LivePages \cup PrevPages(r)) = {}
    BY <1>0, <1>1 DEF TrialInv
  <2>2. PagesOf(call.vm[r].addr, RoundUpPow2(S, VmPage)) = RangePages(e)
    BY <1>2, <1>4, <1>6 DEF RangePages
  <2>3. Shrunk(pages[r], call.vm[r], S) = pages[r] \ (RangePages(call.vm[r]) \ RangePages(e))
    BY <2>2 DEF Shrunk
  <2>4. pages'[r] = Shrunk(pages[r], call.vm[r], S) \ PrevPages(r)
    BY <1>1 DEF Munmap, PrevPages
  <2>5. QED
    BY <1>8, <2>1, <2>3, <2>4
<1>11. PICK n \in Nat : n = Len(collMems)
  BY <1>0 DEF CollType
<1>12. /\ DOMAIN collMems = 1..n /\ DOMAIN collMems' = 1..(n + 1)
       /\ \A i \in 1..n : collMems'[i] = collMems[i]
       /\ collMems'[n + 1] = e
  BY <1>0, <1>1, <1>11 DEF CollType
<1>13. Live' = Live \cup {e}
  <2>1. ASSUME NEW c \in Live'
        PROVE  c \in Live \cup {e}
    <3>1. PICK i \in 1..(n + 1) : c = collMems'[i] /\ c # NoMem
      BY <1>12 DEF Live, Range
    <3>2. i \in 1..n \/ i = n + 1
      OBVIOUS
    <3>3. QED
      BY <1>12, <3>1, <3>2, LiveIs
  <2>2. ASSUME NEW c \in Live
        PROVE  c \in Live'
    <3>1. PICK i \in 1..n : c = collMems[i] /\ c # NoMem
      BY <1>12, LiveIs
    <3>2. i \in DOMAIN collMems' /\ collMems'[i] = c
      BY <1>12, <3>1
    <3>3. QED
      BY <3>1, <3>2 DEF Live, Range
  <2>3. e \in Live'
    <3>1. n + 1 \in DOMAIN collMems'
      BY <1>12
    <3>2. QED
      BY <1>5, <1>12, <3>1 DEF Live, Range
  <2>4. QED
    BY <2>1, <2>2, <2>3
<1>14. LivePages' = LivePages \cup RangePages(e)
  BY <1>13 DEF LivePages
<1>15. ASSUME NEW c \in Live'
       PROVE  c.addr >= 0 /\ c.addr % MapBlock = 0 /\ c.size = SizeOf(c.mem) /\ c.mem # {}
              /\ c.addr + c.size <= Space
  <2>1. CASE c = e
    BY <1>2, <1>3, <1>4, <1>7, <2>1 DEF S
  <2>2. CASE c \in Live
    BY <1>0, <2>2 DEF LiveInv
  <2>3. QED
    BY <1>13, <2>1, <2>2
<1>16. {c.mem : c \in Live'} = alive'
  BY <1>0, <1>1, <1>4, <1>13 DEF LiveInv
<1>17. \A i \in 1..n : collMems[i].mem # call.mem
  <2>1. TAKE i \in 1..n
  <2>2. CASE collMems[i] = NoMem
    BY <1>2, <2>2 DEF NoMem
  <2>3. CASE collMems[i] # NoMem
    <3>1. collMems[i] \in Live
      BY <1>12, <2>3, LiveIs
    <3>2. collMems[i].mem \in alive
      BY <1>0, <3>1 DEF LiveInv
    <3>3. QED
      BY <1>2, <3>2
  <2>4. QED
    BY <2>2, <2>3
<1>18. ASSUME NEW i \in DOMAIN collMems', NEW j \in DOMAIN collMems',
              collMems'[i] # NoMem, collMems'[i].mem = collMems'[j].mem
       PROVE  i = j
  <2>1. (i \in 1..n \/ i = n + 1) /\ (j \in 1..n \/ j = n + 1)
    BY <1>12
  <2>2. CASE i \in 1..n /\ j \in 1..n
    BY <1>0, <1>12, <1>18, <2>2 DEF LiveInv
  <2>3. CASE ~(i \in 1..n /\ j \in 1..n)
    BY <1>4, <1>12, <1>17, <1>18, <2>1, <2>3
  <2>4. QED
    BY <2>2, <2>3
<1>19. ASSUME NEW i \in DOMAIN collMems', NEW j \in DOMAIN collMems',
              collMems'[i] # NoMem, collMems'[j] # NoMem, i # j
       PROVE  RangePages(collMems'[i]) \cap RangePages(collMems'[j]) = {}
  <2>1. (i \in 1..n \/ i = n + 1) /\ (j \in 1..n \/ j = n + 1)
    BY <1>12
  <2>2. ASSUME NEW k \in 1..n, collMems[k] # NoMem
        PROVE  RangePages(collMems[k]) \cap RangePages(e) = {}
    <3>1. collMems[k] \in Live
      BY <1>12, <2>2, LiveIs
    <3>2. RangePages(collMems[k]) \subseteq LivePages
      BY <3>1 DEF LivePages
    <3>3. QED
      BY <1>9, <3>2, CollFacts
  <2>3. CASE i \in 1..n /\ j \in 1..n
    BY <1>0, <1>12, <1>19, <2>3 DEF LiveInv
  <2>4. CASE i \in 1..n /\ j = n + 1
    BY <1>12, <1>19, <2>2, <2>4
  <2>5. CASE i = n + 1 /\ j \in 1..n
    BY <1>12, <1>19, <2>2, <2>5
  <2>6. QED
    BY <1>19, <2>1, <2>3, <2>4, <2>5
<1>20. \A r \in Ranks : pages'[r] = LivePages' /\ LivePages' \cap Foreign[r] = {}
  BY <1>0, <1>9, <1>10, <1>14 DEF LiveInv
<1>21. LiveInv'
  BY <1>15, <1>16, <1>18, <1>19, <1>20 DEF LiveInv
<1>22. QED
  BY <1>1, <1>21 DEF TrialInv

\* free_coll: the allocation's entry, its name and its pages go, and no more.
LEMMA FreeKeeps ==
  ASSUME CollInv, NEW m \in Mems, FreeCollective(m)
  PROVE  LiveInv' /\ TrialInv'
<1>0. CollType /\ LiveInv
  BY DEF CollInv
<1>1. call = NoCall /\ call' = NoCall /\ Destroy(m) /\ m \in alive /\ alive' = alive \ {m}
  BY DEF FreeCollective, FreeColl
<1> DEFINE k == CHOOSE i \in DOMAIN collMems : collMems[i].mem = m
<1>2. /\ collMems' = [collMems EXCEPT ![k] = NoMem]
      /\ pages' = [r \in Ranks |-> Munmap(pages[r], {[addr |-> collMems[k].addr, size |-> collMems[k].size]})]
  BY <1>1 DEF Destroy
<1>3. PICK c \in Live : c.mem = m
  BY <1>0, <1>1 DEF LiveInv
<1>4. PICK i \in DOMAIN collMems : c = collMems[i] /\ collMems[i] # NoMem
  BY LiveIs
<1>5. k \in DOMAIN collMems /\ collMems[k].mem = m
  BY <1>3, <1>4
<1> HIDE DEF k
<1>6. collMems[k] = c /\ k = i
  BY <1>0, <1>3, <1>4, <1>5 DEF LiveInv
<1>7. /\ DOMAIN collMems' = DOMAIN collMems /\ collMems'[k] = NoMem
      /\ \A j \in DOMAIN collMems : j # k => collMems'[j] = collMems[j]
  BY <1>2, <1>5
<1>8. Live' = Live \ {c}
  <2>1. ASSUME NEW d \in Live'
        PROVE  d \in Live /\ d # c
    <3>1. PICK j \in DOMAIN collMems : d = collMems'[j] /\ d # NoMem
      BY <1>7 DEF Live, Range
    <3>2. j # k /\ d = collMems[j]
      BY <1>7, <3>1
    <3>3. collMems[j] # collMems[k]
      BY <1>0, <1>5, <3>1, <3>2 DEF LiveInv
    <3>4. QED
      BY <1>6, <3>1, <3>2, <3>3, LiveIs
  <2>2. ASSUME NEW d \in Live, d # c
        PROVE  d \in Live'
    <3>1. PICK j \in DOMAIN collMems : d = collMems[j] /\ d # NoMem
      BY LiveIs
    <3>2. j # k
      BY <1>6, <2>2, <3>1
    <3>3. j \in DOMAIN collMems' /\ collMems'[j] = d
      BY <1>7, <3>1, <3>2
    <3>4. QED
      BY <3>1, <3>3 DEF Live, Range
  <2>3. QED
    BY <2>1, <2>2
<1>9. ASSUME NEW d \in Live, d # c
      PROVE  RangePages(d) \cap RangePages(c) = {} /\ d.mem # m
  <2>1. PICK j \in DOMAIN collMems : d = collMems[j] /\ d # NoMem
    BY LiveIs
  <2>2. j # i
    BY <1>4, <1>9, <2>1
  <2>3. RangePages(d) \cap RangePages(c) = {}
    BY <1>0, <1>4, <2>1, <2>2 DEF LiveInv
  <2>4. d.mem # m
    BY <1>0, <1>3, <1>4, <2>1, <2>2 DEF LiveInv
  <2>5. QED
    BY <2>3, <2>4
<1>10. LivePages' = LivePages \ RangePages(c)
  BY <1>8, <1>9 DEF LivePages
<1>11. \A r \in Ranks : pages'[r] = LivePages'
  <2>1. TAKE r \in Ranks
  <2>2. pages'[r] = pages[r] \ RangePages(c)
    BY <1>2, <1>6 DEF Munmap, RangePages
  <2>3. pages[r] = LivePages
    BY <1>0, <1>1 DEF LiveInv
  <2>4. QED
    BY <1>10, <2>2, <2>3
<1>12. {d.mem : d \in Live'} = alive'
  <2>1. {d.mem : d \in Live} = alive
    BY <1>0 DEF LiveInv
  <2>2. QED
    BY <1>1, <1>3, <1>8, <1>9, <2>1
<1>13. \A h, j \in DOMAIN collMems' : collMems'[h] # NoMem /\ collMems'[h].mem = collMems'[j].mem => h = j
  <2>1. TAKE h \in DOMAIN collMems', j \in DOMAIN collMems'
  <2>2. HAVE collMems'[h] # NoMem /\ collMems'[h].mem = collMems'[j].mem
  <2>3. h # k /\ collMems'[h] = collMems[h]
    BY <1>7, <2>2
  <2>4. collMems[h].mem # {}
    <3>1. collMems[h] \in Live
      BY <1>7, <2>2, <2>3, LiveIs
    <3>2. QED
      BY <1>0, <3>1 DEF LiveInv
  <2>5. j # k
    BY <1>7, <2>2, <2>3, <2>4 DEF NoMem
  <2>6. collMems'[j] = collMems[j]
    BY <1>7, <2>5
  <2>7. QED
    BY <1>0, <1>7, <2>2, <2>3, <2>6 DEF LiveInv
<1>14. \A h, j \in DOMAIN collMems' : collMems'[h] # NoMem /\ collMems'[j] # NoMem /\ h # j =>
         RangePages(collMems'[h]) \cap RangePages(collMems'[j]) = {}
  BY <1>0, <1>7 DEF LiveInv
<1>15. \A d \in Live' : d.addr >= 0 /\ d.addr % MapBlock = 0 /\ d.size = SizeOf(d.mem) /\ d.mem # {}
                        /\ d.addr + d.size <= Space
  BY <1>0, <1>8 DEF LiveInv
<1>16. \A r \in Ranks : LivePages' \cap Foreign[r] = {}
  BY <1>0, <1>10 DEF LiveInv
<1>17. LiveInv'
  BY <1>11, <1>12, <1>13, <1>14, <1>15, <1>16 DEF LiveInv
<1>18. QED
  BY <1>1, <1>17 DEF TrialInv

LEMMA CollInvInit == CollInit => CollInv
<1> SUFFICES ASSUME CollInit
    PROVE  CollInv
  OBVIOUS
<1>1. Init /\ pages = [r \in Ranks |-> {}] /\ call = NoCall /\ tried = {} /\ collMems = <<>>
  BY DEF CollInit
<1>2. HomeInv
  BY <1>1, HomeInit
<1>3. CollType
  BY <1>1, FS_EmptySet DEF CollType
<1>4. Live = {} /\ LivePages = {}
  <2>1. Live = {}
    BY <1>1 DEF Live, Range
  <2>2. QED
    BY <2>1 DEF LivePages
<1>5. LiveInv
  BY <1>1, <1>4 DEF LiveInv, Init
<1>6. TrialInv
  BY <1>1 DEF TrialInv
<1>7. QED
  BY <1>2, <1>3, <1>5, <1>6 DEF CollInv

LEMMA CollInvStep ==
  ASSUME CollInv, CollNext
  PROVE  CollInv'
<1>0. CollType /\ HomeInv /\ LiveInv /\ TrialInv
  BY DEF CollInv
<1>1. CollType'
  BY CollTypeStep
<1>2. LiveInv' /\ TrialInv'
  <2>1. CASE call = NoCall /\ HomeStep /\ UNCHANGED cmVars
    <3>1. collMems' = collMems /\ call' = NoCall /\ call = NoCall /\ pages' = pages
      BY <2>1 DEF cmVars
    <3>2. alive' = alive
      BY <2>1 DEF HomeStep, CheckinCall, CheckoutCall, CheckoutFast, CheckoutHit, CheckoutMiss, Attach,
                  CheckoutDies, CheckoutReturns, CheckoutComplete, Copy, CheckinStep, CheckinReturns
    <3>3. LiveInv'
      BY <1>0, <3>1, <3>2, LiveKeeps
    <3>4. QED
      BY <3>1, <3>3 DEF TrialInv
  <2>2. CASE \E m \in Mems : StartReserve(m)
    <3>1. PICK m \in Mems : StartReserve(m)
      BY <2>2
    <3>2. call' # NoCall
      <4>1. "mem" \in DOMAIN call'
        BY <3>1 DEF StartReserve
      <4>2. DOMAIN <<>> = {}
        OBVIOUS
      <4>3. QED
        BY <4>1, <4>2 DEF NoCall
    <3>3. call' \in CallType
      BY <1>1, <3>2 DEF CollType
    <3>4. QED
      BY <3>1, <3>3, StartTrial
  <2>3. CASE \E m \in Mems : FreeCollective(m)
    BY <2>3, FreeKeeps
  <2>4. CASE LeaderReserves
    BY <2>4, LeaderTrial
  <2>5. CASE LeaderDies \/ ReserveDies
    <3>1. collMems' = collMems /\ call' = call /\ pages' = pages /\ tried' = tried /\ alive' = alive /\ op' = op
      <4>1. CASE LeaderDies
        BY <4>1 DEF LeaderDies, cmVars
      <4>2. CASE ReserveDies
        BY <4>2 DEF ReserveDies, cmVars
      <4>3. QED
        BY <2>5, <4>1, <4>2
    <3>2. LiveInv' /\ LivePages' = LivePages
      BY <1>0, <3>1, LiveKeeps
    <3>3. \A r \in Ranks : PrevPages(r)' = PrevPages(r) /\ (HasVoted(r)' <=> HasVoted(r))
      BY <3>1 DEF PrevPages, HasVoted
    <3>4. \A a, r : IsFree(r, a, call.size)' <=> IsFree(r, a, call.size)
      BY <3>1 DEF IsFree
    <3>5. TrialInv'
      BY <1>0, <3>1, <3>2, <3>3, <3>4 DEF TrialInv
    <3>6. QED
      BY <3>2, <3>5
  <2>6. CASE ReserveSucceeds
    BY <2>6, TrialSucceeds
  <2>7. CASE ReserveRetries
    BY <2>7, NextTrial
  <2>8. CASE \E r \in Ranks : FollowerReserves(r)
    BY <2>8, FollowerTrial
  <2>9. QED
    BY <2>1, <2>2, <2>3, <2>4, <2>5, <2>6, <2>7, <2>8 DEF CollNext
<1>3. QED
  BY <1>1, <1>2, CollHomeStep DEF CollInv

\* A step that changes nothing.
LEMMA CollStutter ==
  ASSUME CollInv, UNCHANGED allVars
  PROVE  CollInv'
<1>0. CollType /\ HomeInv /\ LiveInv /\ TrialInv
  BY DEF CollInv
<1>1. /\ collMems' = collMems /\ call' = call /\ pages' = pages /\ tried' = tried
      /\ <<slot, lru, tlb, toMap, vm, alive, out, op>>' = <<slot, lru, tlb, toMap, vm, alive, out, op>>
      /\ dead' = dead
  BY DEF allVars, vars, cmVars
<1>2. CollType'
  BY <1>0, <1>1 DEF CollType
<1>3. HomeInv'
  BY <1>0, <1>1, HomeStays
<1>4. LiveInv' /\ LivePages' = LivePages
  <2>1. alive' = alive
    BY <1>1
  <2>2. LivePages' = LivePages
    BY <1>1 DEF LivePages, Live
  <2>3. QED
    BY <1>0, <1>1, <2>1, <2>2 DEF LiveInv, Live
<1>5. TrialInv'
  <2>1. \A r \in Ranks : PrevPages(r)' = PrevPages(r) /\ (HasVoted(r)' <=> HasVoted(r))
    BY <1>1 DEF PrevPages, HasVoted
  <2>2. \A a, r : IsFree(r, a, call.size)' <=> IsFree(r, a, call.size)
    BY <1>1 DEF IsFree
  <2>3. op' = op /\ alive' = alive
    BY <1>1
  <2>4. QED
    BY <1>0, <1>1, <1>4, <2>1, <2>2, <2>3 DEF TrialInv
<1>6. QED
  BY <1>2, <1>3, <1>4, <1>5 DEF CollInv

\* The addresses of an allocation are its own: their page is, and no other
\* allocation has it.
LEMMA CollInvAgrees == CollInv => AllocationsAgree
<1> SUFFICES ASSUME CollInv
    PROVE  AllocationsAgree
  OBVIOUS
<1>0. CollType /\ LiveInv
  BY DEF CollInv
<1>1. \A i \in DOMAIN collMems : collMems[i] \in MemType
  BY <1>0 DEF CollType
<1>2. ASSUME NEW i \in DOMAIN collMems, collMems[i] # NoMem,
             NEW a \in Int, collMems[i].addr <= a, a < collMems[i].addr + collMems[i].size
      PROVE  a \in Nat /\ a - (a % VmPage) \in RangePages(collMems[i])
  <2>1. collMems[i] \in Live /\ collMems[i] \in MemType
    BY <1>1, <1>2, LiveIs
  <2>2. PICK b \in Nat, n \in Nat : b = collMems[i].addr /\ n = collMems[i].size /\ b + n <= Space
    BY <1>0, <2>1 DEF LiveInv, MemType
  <2>3. a \in Nat /\ b <= a /\ a < b + n /\ a < Space
    BY <1>2, <2>2, CollFacts
  <2>4. a - (a % VmPage) \in PagesOf(b, n)
    BY <2>2, <2>3, PageOf
  <2>5. QED
    BY <2>2, <2>3, <2>4 DEF RangePages
<1>3. ASSUME NEW c \in Live, NEW a \in c.addr..(c.addr + c.size - 1)
      PROVE  {collMems[i] : i \in MemsAt(a)} = {c}
  <2>1. PICK k \in DOMAIN collMems : c = collMems[k] /\ c # NoMem
    BY LiveIs
  <2>2. c.addr \in Int /\ c.size \in Nat
    BY <1>1, <2>1 DEF MemType
  <2>3. a \in Int /\ c.addr <= a /\ a < c.addr + c.size
    BY <2>2
  <2>4. k \in MemsAt(a)
    BY <2>1, <2>3 DEF MemsAt
  <2>5. ASSUME NEW i \in MemsAt(a)
        PROVE  i = k
    <3>1. /\ i \in DOMAIN collMems /\ collMems[i] # NoMem
          /\ collMems[i].addr <= a /\ a < collMems[i].addr + collMems[i].size
      BY DEF MemsAt
    <3>2. a - (a % VmPage) \in RangePages(collMems[i])
      BY <1>2, <2>3, <3>1
    <3>3. a - (a % VmPage) \in RangePages(collMems[k])
      BY <1>2, <2>1, <2>3
    <3>4. QED
      BY <1>0, <2>1, <3>1, <3>2, <3>3 DEF LiveInv
  <2>6. QED
    BY <2>1, <2>4, <2>5
<1>4. \A c \in Live, r \in Ranks : RangePages(c) \subseteq pages[r] \ Foreign[r]
  BY <1>0 DEF LiveInv, LivePages
<1>5. QED
  BY <1>0, <1>3, <1>4 DEF AllocationsAgree, LiveInv, LivePages

LEMMA CollInvNoTwice == CollInv => NoAddressTwice
BY DEF CollInv, TrialInv, NoAddressTwice

-----------------------------------------------------------------------------
(* The theorems.                                                            *)

\* CollInv holds whatever malloc_coll, free_coll, checkouts and checkins do.
THEOREM CollInvariant == CollSpec => []CollInv
<1>1. CollInv /\ [CollNext]_allVars => CollInv'
  BY CollInvStep, CollStutter
<1>2. QED
  BY <1>1, CollInvInit, PTL DEF CollSpec

\* Whatever the program uses is mapped: update_mapping in the order of the
\* queue, the pins of checkout_seg and the eviction of home segments never
\* unmap what a checkout, a get or a put uses.
THEOREM UsedSegmentsMapped == CollSpec => []UsedIsMapped
<1>1. CollInv => UsedIsMapped
  BY HomeInvUsed DEF CollInv
<1>2. QED
  BY <1>1, CollInvariant, PTL

\* The mapping entries agree with the checkouts and with the kernel: reference
\* counts match over the fast and slow paths, on_evict's check holds, and
\* nothing stays mapped behind an evicted or freed entry.
THEOREM HomeEntriesSound == CollSpec => []EntriesSound
<1>1. CollInv => EntriesSound
  BY HomeInvSound DEF CollInv
<1>2. QED
  BY <1>1, CollInvariant, PTL

\* Whatever trials a collective allocation takes (reserve_same_vm_coll), it has
\* the same range on all ranks, of its own, and nothing else stays reserved.
THEOREM CollAllocationsAgree == CollSpec => []AllocationsAgree
<1>1. QED
  BY CollInvAgrees, CollInvariant, PTL

\* The ranges of failed trials are kept until the call returns, so that no
\* leader tries an address twice.
THEOREM NoAddressTriedTwice == CollSpec => []NoAddressTwice
<1>1. QED
  BY CollInvNoTwice, CollInvariant, PTL
=============================================================================
