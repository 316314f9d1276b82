------------------------- MODULE CacheManagerProofs -------------------------
(***************************************************************************)
(* Mapping, eviction and transfers of the software cache, and coherence of *)
(* what its users read, for every set of ranks, blocks, regions and        *)
(* requests and every number of slots.                                     *)
(*                                                                         *)
(* Each part of the first invariant speaks of one rank, and the later ones *)
(* rest on the earlier ones.  The second, CoherenceInv, rests on it, and   *)
(* follows each location from the rank that has written it, through its    *)
(* cache and the writeback home, to the next rank that may use it.         *)
(***************************************************************************)
EXTENDS CacheManager, FiniteSetTheorems, WellFoundedInduction, TLAPS

-----------------------------------------------------------------------------
(* The inductive invariant.                                                 *)

Pcs == {"idle", "checkout", "writeback", "flush", "checkin", "acquire", "dead"}
Thens == {"idle", "checkout", "checkin", "acquire"}

Parts == Blocks \X SUBSET Regions
Keys == Blocks \cup {NoBlock}
SlotType == [key : Keys, addr : Keys, mapped : Keys, ref : Int, wbe : Nat,
             valid : SUBSET Regions, dirty : SUBSET Regions]
RequestType == [blks : Seq(Parts), mode : Modes]
HandlerType == [rank : Ranks \cup {0}, epoch : Nat]

\* The type of the state.
TypeOK ==
  /\ setup \in DOMAIN Setups
  /\ memory \in [Locs -> Int]
  /\ slot \in [Ranks -> [Slots -> SlotType]]
  /\ data \in [Ranks -> [Slots -> [Regions -> Int]]]
  /\ lru \in [Ranks -> [Slots -> Slots]]
  /\ tlb \in [Ranks -> SUBSET (Blocks \X Slots)]
  /\ vm \in [Ranks -> [Blocks -> Slots \cup {NoSlot}]]
  /\ toMap \in [Ranks -> Seq(Slots)]
  /\ gets \in [Ranks -> SUBSET (Slots \X Regions)]
  /\ puts \in [Ranks -> SUBSET (Slots \X Regions)]
  /\ wins \in [Ranks -> BOOLEAN]
  /\ dirtyList \in [Ranks -> Seq(Slots)]
  /\ hasDirty \in [Ranks -> BOOLEAN]
  /\ wbEpoch \in [Ranks -> Nat \ {0}]
  /\ epoch \in [Ranks -> Nat \ {0}]
  /\ pc \in [Ranks -> Pcs]
  /\ then \in [Ranks -> Thens]
  /\ todo \in [Ranks -> Seq(Parts)]
  /\ req \in [Ranks -> RequestType]
  /\ out \in [Ranks -> SUBSET [blks : Requests, mode : Modes]]
  /\ perm \in [Locs -> [rank : Ranks, h : HandlerType, ok : BOOLEAN]]
  /\ latest \in [Locs -> Nat]

\* The rank is inside checkout (for good, if it has died), or inside checkin.
CheckingOut(r) ==
  pc[r] \in {"checkout", "dead"} \/ (pc[r] \in {"writeback", "flush"} /\ then[r] = "checkout")
CheckingIn(r) == pc[r] = "checkin" \/ (pc[r] = "writeback" /\ then[r] = "checkin")

\* How many parts of its request the call has done.
Done(r) == Len(req[r].blks) - Len(todo[r])

\* Where a rank is agrees with what it has still to do: the loops go through the
\* parts of the request, and only checkout collects blocks to map and to fetch.
ControlInv(r) ==
  /\ pc[r] = "idle" => then[r] = "idle"
  /\ pc[r] = "checkout" => then[r] \in {"idle", "checkout"}
  /\ pc[r] = "dead" => then[r] = "checkout"
  /\ pc[r] = "checkin" => then[r] \in {"idle", "checkin"}
  /\ pc[r] = "flush" => then[r] # "checkin"
  /\ (pc[r] = "acquire") => then[r] = "acquire"
  /\ ~CheckingOut(r) => toMap[r] = <<>> /\ gets[r] = {}
  /\ ~CheckingOut(r) /\ ~CheckingIn(r) => todo[r] = <<>>
  /\ CheckingOut(r) \/ CheckingIn(r) =>
       /\ req[r].blks \in Requests
       /\ req[r] \notin out[r]
       /\ Len(todo[r]) <= Len(req[r].blks)
       /\ \A i \in 1..Len(todo[r]) : todo[r][i] = req[r].blks[Done(r) + i]
  /\ then[r] = "acquire" =>
       /\ out[r] = {}
       /\ \E b \in Blocks, x \in Regions : req[r].blks = <<<<b, {x}>>>>
  /\ IsFiniteSet(out[r])

\* The parts that the current call holds: those done by a checkout, those not
\* done by a checkin.
HeldNow(r) ==
  {i \in DOMAIN req[r].blks : \/ CheckingOut(r) /\ i <= Done(r)
                              \/ CheckingIn(r) /\ i > Done(r)}

Has(q, b) == \E i \in DOMAIN q.blks : q.blks[i][1] = b
HeldBlock(r, b) == \E i \in HeldNow(r) : req[r].blks[i][1] = b

\* The requests that pin block b.
Users(r, b) == {q \in out[r] \cup {req[r]} :
                  (q \in out[r] /\ Has(q, b)) \/ (q = req[r] /\ HeldBlock(r, b))}

\* A slot is found under one key only, and a key in one slot only.
KeysInv(r) ==
  /\ \A s, t \in Slots : slot[r][s].key = slot[r][t].key /\ slot[r][s].key # NoBlock => s = t
  /\ \A s \in Slots : slot[r][s].key # NoBlock => slot[r][s].addr = slot[r][s].key
  /\ \A s \in Slots : slot[r][s].key = NoBlock => slot[r][s] = EmptySlot
  /\ \A b \in Blocks, s \in Slots : <<b, s>> \in tlb[r] => slot[r][s].key = b
  /\ \A s \in Slots : \E i \in Slots : lru[r][i] = s

\* The reference count is the number of requests that pin the block, and what
\* they pin is in the cache and valid.
RefsInv(r) ==
  /\ \A s \in Slots : slot[r][s].ref = Cardinality(Users(r, slot[r][s].key))
  /\ \A q \in out[r] : \A i \in DOMAIN q.blks : \E s \in Slots :
       slot[r][s].key = q.blks[i][1] /\ q.blks[i][2] \subseteq slot[r][s].valid
  /\ \A i \in HeldNow(r) : \E s \in Slots :
       slot[r][s].key = req[r].blks[i][1] /\ req[r].blks[i][2] \subseteq slot[r][s].valid

\* The mapping of addresses agrees with the slots; the slots to be mapped anew
\* are pinned by the current checkout alone, and a slot that loses its addresses
\* to another one comes before it.
MapInv(r) ==
  /\ \A b \in Blocks, s \in Slots : vm[r][b] = s <=> slot[r][s].mapped = b
  /\ \A s \in Slots : slot[r][s].addr # slot[r][s].mapped => \E i \in DOMAIN toMap[r] : toMap[r][i] = s
  /\ \A i, j \in DOMAIN toMap[r] : toMap[r][i] = toMap[r][j] => i = j
  /\ \A i \in DOMAIN toMap[r] :
       /\ HeldBlock(r, slot[r][toMap[r][i]].key)
       /\ \A q \in out[r] : ~Has(q, slot[r][toMap[r][i]].key)
       /\ \A t \in Slots : slot[r][t].mapped = slot[r][toMap[r][i]].addr /\ t # toMap[r][i] =>
            \E j \in 1..(i - 1) : t = toMap[r][j]

\* Writebacks: what is dirty is listed, what is put is marked until the flush.
WritebackInv(r) ==
  /\ \A s \in Slots :
       /\ slot[r][s].dirty \subseteq slot[r][s].valid
       /\ slot[r][s].wbe <= wbEpoch[r]
       /\ slot[r][s].wbe = wbEpoch[r] => wins[r] = TRUE
       /\ slot[r][s].dirty # {} =>
            hasDirty[r] = TRUE /\ \E i \in DOMAIN dirtyList[r] : dirtyList[r][i] = s
       /\ pc[r] \in {"flush", "acquire"} => slot[r][s].dirty = {}
       /\ pc[r] = "acquire" => slot[r][s].wbe < wbEpoch[r]
       /\ pc[r] \in {"checkout", "dead"} /\ then[r] = "checkout" =>
            slot[r][s].dirty = {} /\ slot[r][s].wbe < wbEpoch[r]
  /\ \A s \in Slots, x \in Regions : <<s, x>> \in puts[r] =>
       /\ slot[r][s].wbe = wbEpoch[r]
       /\ x \in slot[r][s].valid
       /\ hasDirty[r] = TRUE

\* A get in flight fills bytes of a block that the current checkout holds, which
\* are not dirty, not being put and not in use by another request.
GetsInv(r) ==
  \A s \in Slots, x \in Regions : <<s, x>> \in gets[r] =>
    /\ HeldBlock(r, slot[r][s].key)
    /\ x \in slot[r][s].valid /\ x \notin slot[r][s].dirty
    /\ <<s, x>> \notin puts[r]
    /\ \A q \in out[r] : <<slot[r][s].key, x>> \notin LocsOf(q.blks)

\* DiesOnlyWhenPinned, by the slot.
DeadInv(r) == pc[r] = "dead" => EmptySlots(r) = {}

RankInv(r) ==
  /\ ControlInv(r) /\ KeysInv(r) /\ RefsInv(r) /\ MapInv(r) /\ WritebackInv(r)
  /\ GetsInv(r) /\ DeadInv(r)

CacheInv == TypeOK /\ \A r \in Ranks : RankInv(r)

-----------------------------------------------------------------------------
(* Facts about an instance.                                                 *)

\* What is assumed of an instance.
LEMMA SetupFacts ==
  ASSUME setup \in DOMAIN Setups
  PROVE  /\ NoBlock \notin Blocks
         /\ UNION SubBlocks = Regions
         /\ NSlots \in Nat \ {0} /\ MaxDirty \in Nat \ {0}
         /\ Requests \subseteq Seq(Parts)
         /\ \A q \in Requests : \A j, k \in DOMAIN q : q[j][1] = q[k][1] => j = k
BY SetupAssumption DEF Blocks, SubBlocks, Regions, NSlots, MaxDirty, Requests, Parts

\* The instance stays.
LEMMA SameSetup ==
  ASSUME setup' = setup
  PROVE  /\ Ranks' = Ranks /\ Blocks' = Blocks /\ Regions' = Regions /\ SubBlocks' = SubBlocks
         /\ NSlots' = NSlots /\ Slots' = Slots /\ Locs' = Locs /\ Requests' = Requests
         /\ Keys' = Keys /\ Parts' = Parts /\ SlotType' = SlotType
         /\ RequestType' = RequestType /\ HandlerType' = HandlerType
<1>1. /\ Ranks' = Ranks /\ Blocks' = Blocks /\ Regions' = Regions /\ SubBlocks' = SubBlocks
      /\ NSlots' = NSlots /\ Requests' = Requests
  BY DEF Ranks, Blocks, Regions, SubBlocks, NSlots, Requests
<1>2. Slots' = Slots /\ Locs' = Locs /\ Keys' = Keys /\ Parts' = Parts
  BY <1>1 DEF Slots, Locs, Keys, Parts
<1>3. QED
  BY <1>1, <1>2 DEF SlotType, RequestType, HandlerType

-----------------------------------------------------------------------------
(* Types.                                                                   *)

\* The initial state has its type.
LEMMA InitType == Init => TypeOK
<1> SUFFICES ASSUME Init
    PROVE  TypeOK
  OBVIOUS
<1>0. setup \in DOMAIN Setups
  BY DEF Init
<1>1. NSlots \in Nat \ {0} /\ NoBlock \notin Blocks
  BY <1>0, SetupFacts
<1>2. EmptySlot \in SlotType
  BY DEF EmptySlot, SlotType, Keys
<1>3. NoRequest \in RequestType
  BY DEF NoRequest, RequestType, Modes
<1>4. perm \in [Locs -> [rank : Ranks, h : HandlerType, ok : BOOLEAN]]
  <2> DEFINE S == {[rank |-> r, h |-> DummyHandler, ok |-> TRUE] : r \in Ranks}
             T == [rank : Ranks, h : HandlerType, ok : BOOLEAN]
  <2>1. perm \in [Locs -> S]
    BY DEF Init
  <2>2. DummyHandler \in HandlerType
    BY DEF DummyHandler, HandlerType
  <2>3. ASSUME NEW e \in S
        PROVE  e \in T
    <3>1. PICK r \in Ranks : e = [rank |-> r, h |-> DummyHandler, ok |-> TRUE]
      OBVIOUS
    <3>2. QED
      BY <3>1, <2>2
  <2> HIDE DEF S
  <2>5. perm \in [Locs -> T]
    BY <2>1, <2>3
  <2>4. QED
    BY <2>5
<1>5. slot \in [Ranks -> [Slots -> SlotType]] /\ req \in [Ranks -> RequestType]
  BY <1>2, <1>3 DEF Init
<1>6. QED
  BY <1>0, <1>1, <1>4, <1>5 DEF Init, TypeOK, NoSlot, Pcs, Thens

\* The LRU list is a sequence of all slots.
LEMMA LruIsSeq ==
  ASSUME NSlots \in Nat \ {0}, NEW seq \in [Slots -> Slots]
  PROVE  Len(seq) = NSlots /\ seq \in Seq(Slots)
BY DEF Slots

\* move_to_back_lru permutes.
LEMMA ToBackType ==
  ASSUME NSlots \in Nat \ {0}, NEW s \in Slots, NEW seq \in [Slots -> Slots]
  PROVE  ToBack(s, seq) \in [Slots -> Slots]
<1>1. Len(seq) = NSlots /\ seq \in Seq(Slots)
  BY LruIsSeq
<1>2. QED
  BY <1>1 DEF ToBack, Slots

\* The variables of a rank, other than data, are not touched.
SameRank(p) ==
  /\ slot'[p] = slot[p] /\ lru'[p] = lru[p] /\ tlb'[p] = tlb[p] /\ vm'[p] = vm[p]
  /\ toMap'[p] = toMap[p] /\ gets'[p] = gets[p] /\ puts'[p] = puts[p]
  /\ wins'[p] = wins[p] /\ dirtyList'[p] = dirtyList[p] /\ hasDirty'[p] = hasDirty[p]
  /\ wbEpoch'[p] = wbEpoch[p] /\ epoch'[p] = epoch[p]
  /\ pc'[p] = pc[p] /\ then'[p] = then[p] /\ todo'[p] = todo[p] /\ req'[p] = req[p]
  /\ out'[p] = out[p]

\* One step of rank r.
RankNext(r) ==
  \/ \E blks \in Requests, mode \in Modes : CheckoutCall(r, blks, mode)
  \/ \E q \in out[r] : CheckinCall(r, q)
  \/ ReleaseCall(r)
  \/ \E q \in Ranks, l \in Locs : Give(r, q, l)
  \/ \E l \in Locs : AcquireCall(r, l)
  \/ RankStep(r)

\* A fetch stays within the block and contains what it is for.
LEMMA FetchType ==
  ASSUME setup \in DOMAIN Setups, NEW c \in SlotType, NEW X \in SUBSET Regions
  PROVE  /\ FetchRegions(c, X) \in SUBSET Regions
         /\ FetchRegions(c, X) \cap c.valid = {}
         /\ X \subseteq c.valid \cup FetchRegions(c, X)
<1>1. UNION SubBlocks = Regions
  BY SetupFacts
<1>2. PadFetchRegion(X) \subseteq Regions /\ X \subseteq PadFetchRegion(X)
  BY <1>1 DEF PadFetchRegion
<1>3. QED
  BY <1>2 DEF FetchRegions

\* Pin changes one slot of the rank, and adds gets for it.
LEMMA PinType ==
  ASSUME TypeOK, setup' = setup, NEW r \in Ranks, NEW s \in Slots, NEW X \in SUBSET Regions,
         NEW mode \in Modes, NEW c \in SlotType, Pin(r, s, X, mode, c)
  PROVE  /\ slot' \in [Ranks -> [Slots -> SlotType]]
         /\ gets' \in [Ranks -> SUBSET (Slots \X Regions)]
<1> DEFINE fetch == IF mode = "write" THEN {} ELSE FetchRegions(c, X)
           v == c.valid \cup X \cup fetch
           k == c.ref + 1
           n == [c EXCEPT !.valid = v, !.ref = k]
<1>1. fetch \in SUBSET Regions
  BY FetchType DEF TypeOK
<1> HIDE DEF fetch
<1>2. v \in SUBSET Regions /\ k \in Int
  BY <1>1 DEF SlotType
<1>3. slot' = [slot EXCEPT ![r][s] = n] /\ gets' = [gets EXCEPT ![r] = @ \cup ({s} \X fetch)]
  BY DEF Pin, fetch
<1> HIDE DEF v, k
<1>7. n \in SlotType
  BY <1>2 DEF SlotType
<1> HIDE DEF n
<1>4. slot' \in [Ranks -> [Slots -> SlotType]]
  BY <1>7, <1>3 DEF TypeOK
<1>5. gets' \in [Ranks -> SUBSET (Slots \X Regions)]
  BY <1>1, <1>3 DEF TypeOK
<1>6. QED
  BY <1>4, <1>5

\* A set of natural numbers has a least element,
LEMMA Least ==
  ASSUME NEW S \in SUBSET Nat, S # {}
  PROVE  \E i \in S : \A j \in S : i <= j
<1>1. \E x \in S : \A y \in S : ~ (<<y, x>> \in OpToRel(<, Nat))
  BY WFMin, NatLessThanWellFounded, Zenon
<1>2. PICK x \in S : \A y \in S : ~ (<<y, x>> \in OpToRel(<, Nat))
  BY <1>1
<1>3. \A y \in S : ~(y < x)
  BY <1>2 DEF OpToRel
<1>4. QED
  BY <1>3

\* and a set of indices of a sequence a greatest one.
LEMMA Greatest ==
  ASSUME NEW n \in Nat, NEW S \in SUBSET (1..n), S # {}
  PROVE  \E i \in S : \A j \in S : j <= i
<1> DEFINE T == {k \in 0..n : n - k \in S}
<1>1. \A i \in S : i \in Int /\ n - i \in 0..n /\ n - (n - i) = i
  OBVIOUS
<1>2. \A i \in S : n - i \in T
  BY <1>1
<1>3. T \in SUBSET Nat
  OBVIOUS
<1>10. T # {}
  <2>1. PICK i \in S : TRUE
    OBVIOUS
  <2>2. n - i \in T
    BY <1>2
  <2> HIDE DEF T
  <2>3. QED
    BY <2>2
<1>4. PICK m \in T : \A k \in T : m <= k
  BY <1>3, <1>10, Least
<1>5. \A j \in S : m <= n - j
  BY <1>2, <1>4
<1>6. n - m \in S /\ \A j \in S : j <= n - m
  BY <1>1, <1>5
<1>7. QED
  BY <1>6

\* get_empty_slot returns a slot that is free or evictable.
LEMMA FirstEmptyIs ==
  ASSUME TypeOK, NEW r \in Ranks, EmptySlots(r) # {}
  PROVE  /\ FirstEmpty(r) \in Slots
         /\ slot[r][FirstEmpty(r)].key = NoBlock \/ IsEvictable(r, FirstEmpty(r))
<1>1. EmptySlots(r) \in SUBSET Nat
  BY SetupFacts DEF EmptySlots, Slots, TypeOK
<1>2. \E i \in EmptySlots(r) : \A j \in EmptySlots(r) : i <= j
  BY <1>1, Least
<1> DEFINE i == CHOOSE i \in EmptySlots(r) : \A j \in EmptySlots(r) : i <= j
<1>3. i \in EmptySlots(r) /\ FirstEmpty(r) = lru[r][i]
  BY <1>2 DEF FirstEmpty
<1> HIDE DEF i
<1>4. QED
  BY <1>3 DEF EmptySlots, TypeOK

\* writeback_begin takes a dirty block of the list.
LEMMA FirstDirtyIs ==
  ASSUME TypeOK, NEW r \in Ranks, PendingDirty(r) # {}
  PROVE  /\ FirstDirty(r) \in Slots
         /\ slot[r][FirstDirty(r)].dirty # {}
<1>1. PendingDirty(r) \in SUBSET Nat
  BY DEF PendingDirty, TypeOK
<1>2. \E i \in PendingDirty(r) : \A j \in PendingDirty(r) : i <= j
  BY <1>1, Least
<1> DEFINE i == CHOOSE i \in PendingDirty(r) : \A j \in PendingDirty(r) : i <= j
<1>3. i \in PendingDirty(r) /\ FirstDirty(r) = dirtyList[r][i]
  BY <1>2 DEF FirstDirty
<1> HIDE DEF i
<1>4. QED
  BY <1>3 DEF PendingDirty, TypeOK

\* The part that a loop comes to next.
LEMMA NextPart ==
  ASSUME TypeOK, NEW r \in Ranks, todo[r] # <<>>
  PROVE  /\ todo[r][1][1] \in Blocks /\ todo[r][1][2] \in SUBSET Regions
         /\ Tail(todo[r]) \in Seq(Parts) /\ Len(Tail(todo[r])) = Len(todo[r]) - 1
         /\ Len(todo[r]) > 0
         /\ \A i \in 1..(Len(todo[r]) - 1) : Tail(todo[r])[i] = todo[r][i + 1]
<1>1. todo[r] \in Seq(Parts) /\ Len(todo[r]) > 0
  BY DEF TypeOK
<1>2. todo[r][1] \in Parts
  BY <1>1
<1>3. QED
  BY <1>1, <1>2 DEF Parts

\* Attach pins one slot, and queues it if it is mapped elsewhere.
LEMMA AttachType ==
  ASSUME TypeOK, setup' = setup, NEW r \in Ranks, NEW s \in Slots, NEW b \in Blocks,
         NEW X \in SUBSET Regions, NEW mode \in Modes, NEW c \in SlotType, todo[r] # <<>>,
         Attach(r, s, b, X, mode, c)
  PROVE  /\ slot' \in [Ranks -> [Slots -> SlotType]]
         /\ gets' \in [Ranks -> SUBSET (Slots \X Regions)]
         /\ toMap' \in [Ranks -> Seq(Slots)]
         /\ lru' \in [Ranks -> [Slots -> Slots]]
         /\ todo' \in [Ranks -> Seq(Parts)]
         /\ then' \in [Ranks -> Thens]
<1> DEFINE a == IF b # c.mapped THEN b ELSE c.addr
           d == [c EXCEPT !.key = b, !.addr = a]
<1>1. Pin(r, s, X, mode, d)
  BY DEF Attach
<1>2. a \in Keys /\ b \in Keys
  BY DEF SlotType, Keys
<1> HIDE DEF a
<1>3. d \in SlotType
  BY <1>2 DEF SlotType
<1> HIDE DEF d
<1>4. slot' \in [Ranks -> [Slots -> SlotType]] /\ gets' \in [Ranks -> SUBSET (Slots \X Regions)]
  BY <1>1, <1>3, PinType
<1>5. toMap' \in [Ranks -> Seq(Slots)]
  BY DEF Attach, TypeOK
<1>6. ToBack(s, lru[r]) \in [Slots -> Slots]
  BY ToBackType, SetupFacts DEF TypeOK
<1>7. lru' \in [Ranks -> [Slots -> Slots]]
  BY <1>6 DEF Attach, TypeOK
<1>8. todo' \in [Ranks -> Seq(Parts)] /\ then' \in [Ranks -> Thens]
  BY NextPart DEF Attach, TypeOK, Thens
<1>9. QED
  BY <1>4, <1>5, <1>7, <1>8

\* Evicting a slot keeps its type.
LEMMA EvictedType ==
  ASSUME NEW c \in SlotType
  PROVE  [c EXCEPT !.valid = {}] \in SlotType
BY DEF SlotType

\* A slot with valid bytes holds a block.
LEMMA ValidHasBlock ==
  ASSUME TypeOK, NEW r \in Ranks, RankInv(r), NEW s \in Slots, slot[r][s].valid # {}
  PROVE  slot[r][s].key \in Blocks /\ slot[r][s].addr = slot[r][s].key /\ slot[r][s].addr \in Blocks
<1>1. slot[r][s].key # NoBlock
  BY DEF RankInv, KeysInv, EmptySlot
<1>2. slot[r][s].key \in Keys
  BY DEF TypeOK, SlotType
<1>3. QED
  BY <1>1, <1>2 DEF RankInv, KeysInv, Keys

\* Every step of a rank keeps the type.
LEMMA TypeStep ==
  ASSUME TypeOK, setup' = setup, NEW r \in Ranks, RankInv(r), RankNext(r)
  PROVE  TypeOK'
<1> USE DEF cacheVars, rmaVars, wbVars, ctlVars, userVars, Goto
<1>0. /\ Ranks' = Ranks /\ Blocks' = Blocks /\ Regions' = Regions
      /\ Slots' = Slots /\ Locs' = Locs /\ Requests' = Requests
      /\ Keys' = Keys /\ Parts' = Parts /\ SlotType' = SlotType
      /\ RequestType' = RequestType /\ HandlerType' = HandlerType
  BY SameSetup
<1>r. Requests \subseteq Seq(Parts)
  BY SetupFacts DEF TypeOK
<1>1. ASSUME NEW blks \in Requests, NEW mode \in Modes, CheckoutCall(r, blks, mode)
      PROVE  TypeOK'
  <2>1. [blks |-> blks, mode |-> mode] \in RequestType /\ blks \in Seq(Parts)
    BY <1>r DEF RequestType
  <2>2. /\ pc' \in [Ranks -> Pcs] /\ then' \in [Ranks -> Thens] /\ todo' \in [Ranks -> Seq(Parts)]
        /\ req' \in [Ranks -> RequestType]
    BY <1>1, <2>1 DEF CheckoutCall, TypeOK, Pcs, Thens
  <2>3. QED
    BY <1>0, <1>1, <2>2 DEF CheckoutCall, TypeOK
<1>2. ASSUME NEW q \in out[r], CheckinCall(r, q)
      PROVE  TypeOK'
  <2>1. q \in RequestType /\ q.blks \in Seq(Parts) /\ q.blks \in Requests /\ q.mode \in Modes
    BY <1>r DEF RequestType, TypeOK
  <2>2. WrittenBy(q) \subseteq Locs
    BY <2>1 DEF WrittenBy, LocsOf, Locs, Parts
  <2>3. latest' \in [Locs -> Nat]
    BY <1>2, <2>2 DEF CheckinCall, TypeOK
  <2> DEFINE L(s, x) == {l \in WrittenBy(q) : l[2] = x /\ vm[r][l[1]] = s}
             new == [s \in Slots |-> [x \in Regions |->
                       IF L(s, x) = {} THEN data[r][s][x]
                       ELSE latest[CHOOSE l \in L(s, x) : TRUE] + 1]]
  <2>4. data' = [data EXCEPT ![r] = new]
    BY <1>2 DEF CheckinCall
  <2>5. \A s \in Slots, x \in Regions : L(s, x) # {} => (CHOOSE l \in L(s, x) : TRUE) \in Locs
    BY <2>2
  <2>6. \A s \in Slots, x \in Regions : data[r][s][x] \in Int
    BY DEF TypeOK
  <2>7. \A l \in Locs : latest[l] + 1 \in Int
    BY DEF TypeOK
  <2> HIDE DEF L
  <2>8. new \in [Slots -> [Regions -> Int]]
    BY <2>5, <2>6, <2>7
  <2> HIDE DEF new
  <2>9. data' \in [Ranks -> [Slots -> [Regions -> Int]]]
    BY <2>4, <2>8 DEF TypeOK
  <2>10. /\ pc' \in [Ranks -> Pcs] /\ todo' \in [Ranks -> Seq(Parts)]
         /\ req' \in [Ranks -> RequestType]
         /\ out' \in [Ranks -> SUBSET [blks : Requests, mode : Modes]]
    BY <1>2, <2>1 DEF CheckinCall, TypeOK, Pcs
  <2>11. QED
    BY <1>0, <1>2, <2>3, <2>9, <2>10 DEF CheckinCall, TypeOK
<1>3. ASSUME ReleaseCall(r)
      PROVE  TypeOK'
  <2>1. pc' \in [Ranks -> Pcs] /\ then' \in [Ranks -> Thens]
    BY <1>3 DEF ReleaseCall, TypeOK, Pcs, Thens
  <2>2. QED
    BY <1>0, <1>3, <2>1 DEF ReleaseCall, TypeOK
<1>4. ASSUME NEW q \in Ranks, NEW l \in Locs, Give(r, q, l)
      PROVE  TypeOK'
  <2>1. ReleaseLazy(r) \in HandlerType
    BY SMTT(20) DEF ReleaseLazy, HandlerType, DummyHandler, TypeOK
  <2>2. perm' \in [Locs -> [rank : Ranks, h : HandlerType, ok : BOOLEAN]]
    BY <1>4, <2>1 DEF Give, TypeOK
  <2>3. QED
    BY <1>0, <1>4, <2>2 DEF Give, TypeOK
<1>5. ASSUME NEW l \in Locs, AcquireCall(r, l)
      PROVE  TypeOK'
  <2>1. <<<<l[1], {l[2]}>>>> \in Seq(Parts)
    BY DEF Locs, Parts
  <2>2. [blks |-> <<<<l[1], {l[2]}>>>>, mode |-> "read"] \in RequestType
    BY <2>1 DEF RequestType, Modes
  <2>3. pc' \in [Ranks -> Pcs] /\ then' \in [Ranks -> Thens] /\ req' \in [Ranks -> RequestType]
    BY <1>5, <2>2 DEF AcquireCall, TypeOK, Pcs, Thens
  <2>4. QED
    BY <1>0, <1>5, <2>3 DEF AcquireCall, TypeOK
<1>6. ASSUME CheckoutFast(r)
      PROVE  TypeOK'
  <2>1. PICK s \in TlbGet(r, todo[r][1][1]) :
          Pin(r, s, todo[r][1][2], req[r].mode, slot[r][s])
    BY <1>6 DEF CheckoutFast
  <2>2. s \in Slots /\ slot[r][s] \in SlotType /\ req[r].mode \in Modes
    BY DEF TlbGet, TypeOK, RequestType
  <2>3. todo[r] # <<>> /\ todo[r][1][2] \in SUBSET Regions /\ Tail(todo[r]) \in Seq(Parts)
    BY <1>6, NextPart DEF CheckoutFast
  <2>4. slot' \in [Ranks -> [Slots -> SlotType]] /\ gets' \in [Ranks -> SUBSET (Slots \X Regions)]
    BY <2>1, <2>2, <2>3, PinType
  <2>5. todo' \in [Ranks -> Seq(Parts)]
    BY <1>6, <2>3 DEF CheckoutFast, TypeOK
  <2>6. QED
    BY <1>0, <1>6, <2>4, <2>5 DEF CheckoutFast, TypeOK
<1>7. ASSUME CheckoutHit(r)
      PROVE  TypeOK'
  <2> DEFINE b == todo[r][1][1]
  <2>1. PICK s \in SlotOf(r, b) :
          /\ Attach(r, s, b, todo[r][1][2], req[r].mode, slot[r][s])
          /\ tlb' = [tlb EXCEPT ![r] = @ \cup {<<b, s>>}]
    BY <1>7 DEF CheckoutHit
  <2>2. s \in Slots /\ slot[r][s] \in SlotType /\ req[r].mode \in Modes
    BY DEF SlotOf, TypeOK, RequestType
  <2>3. todo[r] # <<>> /\ b \in Blocks /\ todo[r][1][2] \in SUBSET Regions
    BY <1>7, NextPart DEF CheckoutHit
  <2> HIDE DEF b
  <2>4. /\ slot' \in [Ranks -> [Slots -> SlotType]]
        /\ gets' \in [Ranks -> SUBSET (Slots \X Regions)]
        /\ toMap' \in [Ranks -> Seq(Slots)]
        /\ lru' \in [Ranks -> [Slots -> Slots]]
        /\ todo' \in [Ranks -> Seq(Parts)]
        /\ then' \in [Ranks -> Thens]
    BY <2>1, <2>2, <2>3, AttachType
  <2>5. tlb' \in [Ranks -> SUBSET (Blocks \X Slots)]
    BY <2>1, <2>2, <2>3 DEF TypeOK
  <2>6. QED
    BY <1>0, <2>1, <2>4, <2>5 DEF Attach, TypeOK
<1>8. ASSUME CheckoutMiss(r)
      PROVE  TypeOK'
  <2> DEFINE b == todo[r][1][1]  s == FirstEmpty(r)
  <2>1. /\ Attach(r, s, b, todo[r][1][2], req[r].mode, [slot[r][s] EXCEPT !.valid = {}])
        /\ tlb' = [tlb EXCEPT ![r] = (IF slot[r][s].key = NoBlock THEN @ ELSE {}) \cup {<<b, s>>}]
        /\ EmptySlots(r) # {}
    BY <1>8 DEF CheckoutMiss
  <2>2. s \in Slots
    BY <2>1, FirstEmptyIs
  <2>3. todo[r] # <<>> /\ b \in Blocks /\ todo[r][1][2] \in SUBSET Regions
    BY <1>8, NextPart DEF CheckoutMiss
  <2> HIDE DEF b, s
  <2>4. [slot[r][s] EXCEPT !.valid = {}] \in SlotType /\ req[r].mode \in Modes
    BY <2>2, EvictedType DEF TypeOK, RequestType
  <2>5. /\ slot' \in [Ranks -> [Slots -> SlotType]]
        /\ gets' \in [Ranks -> SUBSET (Slots \X Regions)]
        /\ toMap' \in [Ranks -> Seq(Slots)]
        /\ lru' \in [Ranks -> [Slots -> Slots]]
        /\ todo' \in [Ranks -> Seq(Parts)]
        /\ then' \in [Ranks -> Thens]
    BY <2>1, <2>2, <2>3, <2>4, AttachType
  <2>6. tlb' \in [Ranks -> SUBSET (Blocks \X Slots)]
    BY <2>1, <2>2, <2>3 DEF TypeOK
  <2>7. QED
    BY <1>0, <2>1, <2>5, <2>6 DEF Attach, TypeOK
<1>9. ASSUME CheckoutFull(r) \/ CheckoutDies(r)
      PROVE  TypeOK'
  <2>1. pc' \in [Ranks -> Pcs] /\ then' \in [Ranks -> Thens]
    BY <1>9 DEF CheckoutFull, CheckoutDies, TypeOK, Pcs, Thens
  <2>2. QED
    BY <1>0, <1>9, <2>1 DEF CheckoutFull, CheckoutDies, TypeOK
<1>11. ASSUME CheckoutComplete(r)
       PROVE  TypeOK'
  <2>1. Remapped(r) \in [Blocks -> Slots \cup {NoSlot}]
    <3> DEFINE new(i) == slot[r][toMap[r][i]]
               updates(b) == {i \in DOMAIN toMap[r] : new(i).addr = b \/ new(i).mapped = b}
               last(b) == CHOOSE i \in updates(b) : \A j \in updates(b) : j <= i
    <3>1. toMap[r] \in Seq(Slots) /\ Len(toMap[r]) \in Nat
      BY DEF TypeOK
    <3>2. ASSUME NEW b \in Blocks, updates(b) # {}
          PROVE  last(b) \in DOMAIN toMap[r]
      <4>1. updates(b) \in SUBSET (1..Len(toMap[r]))
        BY <3>1
      <4> HIDE DEF updates
      <4>2. \E i \in updates(b) : \A j \in updates(b) : j <= i
        BY <3>1, <3>2, <4>1, Greatest
      <4>3. QED
        BY <4>1, <4>2, <3>1
    <3>3. Remapped(r) = [b \in Blocks |-> IF updates(b) = {} THEN vm[r][b]
                                          ELSE IF new(last(b)).addr = b THEN toMap[r][last(b)]
                                          ELSE NoSlot]
      BY DEF Remapped
    <3> HIDE DEF updates, last, new
    <3>4. \A b \in Blocks : updates(b) # {} => toMap[r][last(b)] \in Slots
      BY <3>1, <3>2
    <3>5. \A b \in Blocks : vm[r][b] \in Slots \cup {NoSlot}
      BY DEF TypeOK
    <3>6. QED
      BY <3>3, <3>4, <3>5
  <2>2. vm' \in [Ranks -> [Blocks -> Slots \cup {NoSlot}]]
    BY <1>11, <2>1 DEF CheckoutComplete, TypeOK
  <2>3. ASSUME NEW c \in SlotType
        PROVE  [c EXCEPT !.mapped = c.addr] \in SlotType
    BY DEF SlotType
  <2>4. slot' \in [Ranks -> [Slots -> SlotType]]
    BY <1>11, <2>3 DEF CheckoutComplete, TypeOK
  <2>5. req[r] \in [blks : Requests, mode : Modes]
    BY <1>11 DEF RankInv, ControlInv, CheckingOut, CheckoutComplete, TypeOK, RequestType
  <2>6. NoRequest \in RequestType
    BY DEF NoRequest, RequestType, Modes
  <2>7. /\ toMap' \in [Ranks -> Seq(Slots)] /\ then' \in [Ranks -> Thens]
        /\ req' \in [Ranks -> RequestType] /\ pc' \in [Ranks -> Pcs]
        /\ out' \in [Ranks -> SUBSET [blks : Requests, mode : Modes]]
    BY <1>11, <2>5, <2>6 DEF CheckoutComplete, TypeOK, Thens, Pcs
  <2>8. QED
    BY <1>0, <1>11, <2>2, <2>4, <2>7 DEF CheckoutComplete, TypeOK
<1>12. ASSUME CheckinBlk(r)
       PROVE  TypeOK'
  <2> DEFINE b == todo[r][1][1]
             X == IF req[r].mode = "read" THEN {} ELSE todo[r][1][2]
             newDirty(s) == X # {} /\ slot[r][s].dirty = {}
  <2>1. PICK s \in SlotOf(r, b) \cup (IF Len(req[r].blks) = 1 THEN TlbGet(r, b) ELSE {}) :
          /\ slot' = [slot EXCEPT ![r][s].dirty = @ \cup X, ![r][s].ref = @ - 1]
          /\ dirtyList' = IF newDirty(s) THEN [dirtyList EXCEPT ![r] = Append(@, s)] ELSE dirtyList
          /\ hasDirty' = IF newDirty(s) THEN [hasDirty EXCEPT ![r] = TRUE] ELSE hasDirty
          /\ IF newDirty(s) /\ Len(dirtyList[r]) + 1 >= MaxDirty
             THEN Goto(r, "writeback") /\ then' = [then EXCEPT ![r] = "checkin"]
             ELSE UNCHANGED <<pc, then>>
    BY <1>12 DEF CheckinBlk
  <2>2. s \in Slots
    BY <2>1 DEF SlotOf, TlbGet
  <2>3. todo[r] # <<>> /\ X \in SUBSET Regions /\ Tail(todo[r]) \in Seq(Parts)
    BY <1>12, NextPart DEF CheckinBlk
  <2> HIDE DEF X
  <2>4. slot[r][s] \in SlotType /\ slot[r][s].dirty \in SUBSET Regions /\ slot[r][s].ref \in Int
    BY <2>2 DEF TypeOK, SlotType
  <2>5. slot' \in [Ranks -> [Slots -> SlotType]]
    <3> DEFINE d == slot[r][s].dirty \cup X
               k == slot[r][s].ref - 1
               n == [slot[r][s] EXCEPT !.dirty = d, !.ref = k]
    <3>1. d \in SUBSET Regions /\ k \in Int
      BY <2>3, <2>4
    <3>2. slot' = [slot EXCEPT ![r][s] = n]
      BY <2>1, <2>2 DEF TypeOK
    <3> HIDE DEF d, k
    <3>3. n \in SlotType
      BY <3>1, <2>4 DEF SlotType
    <3> HIDE DEF n
    <3>4. QED
      BY <3>2, <3>3, <2>2 DEF TypeOK
  <2>6. /\ dirtyList' \in [Ranks -> Seq(Slots)] /\ hasDirty' \in [Ranks -> BOOLEAN]
    BY <2>1, <2>2 DEF TypeOK
  <2>7. pc' \in [Ranks -> Pcs] /\ then' \in [Ranks -> Thens]
    BY <2>1 DEF TypeOK, Pcs, Thens
  <2>8. todo' \in [Ranks -> Seq(Parts)]
    BY <1>12, <2>3 DEF CheckinBlk, TypeOK
  <2>9. QED
    BY <1>0, <1>12, <2>5, <2>6, <2>7, <2>8 DEF CheckinBlk, TypeOK
<1>13. ASSUME CheckinReturns(r)
       PROVE  TypeOK'
  <2>1. NoRequest \in RequestType
    BY DEF NoRequest, RequestType, Modes
  <2>2. pc' \in [Ranks -> Pcs] /\ then' \in [Ranks -> Thens] /\ req' \in [Ranks -> RequestType]
    BY <1>13, <2>1 DEF CheckinReturns, TypeOK, Pcs, Thens
  <2>3. QED
    BY <1>0, <1>13, <2>2 DEF CheckinReturns, TypeOK
<1>14. ASSUME WritebackBlk(r)
       PROVE  TypeOK'
  <2> DEFINE s == FirstDirty(r)
  <2>1. s \in Slots
    BY <1>14, FirstDirtyIs DEF WritebackBlk
  <2>2. /\ puts' = [puts EXCEPT ![r] = @ \cup ({s} \X slot[r][s].dirty)]
        /\ slot' = [slot EXCEPT ![r][s].dirty = {}, ![r][s].wbe = wbEpoch[r]]
    BY <1>14 DEF WritebackBlk
  <2> HIDE DEF s
  <2>3. slot[r][s] \in SlotType /\ slot[r][s].dirty \in SUBSET Regions /\ wbEpoch[r] \in Nat
    BY <2>1 DEF TypeOK, SlotType
  <2>4. puts' \in [Ranks -> SUBSET (Slots \X Regions)]
    BY <2>1, <2>2, <2>3 DEF TypeOK
  <2>5. slot' \in [Ranks -> [Slots -> SlotType]]
    <3> DEFINE w == wbEpoch[r]
               n == [slot[r][s] EXCEPT !.dirty = {}, !.wbe = w]
    <3>1. slot' = [slot EXCEPT ![r][s] = n]
      BY <2>1, <2>2 DEF TypeOK
    <3> HIDE DEF w
    <3>2. n \in SlotType
      BY <2>3 DEF SlotType, w
    <3> HIDE DEF n
    <3>3. QED
      BY <3>1, <3>2, <2>1 DEF TypeOK
  <2>6. wins' \in [Ranks -> BOOLEAN]
    BY <1>14 DEF WritebackBlk, TypeOK
  <2>7. QED
    BY <1>0, <1>14, <2>4, <2>5, <2>6 DEF WritebackBlk, TypeOK
<1>15. ASSUME WritebackOverlap(r) \/ WritebackBegun(r)
       PROVE  TypeOK'
  <2>1. CASE WritebackOverlap(r)
    <3>1. wins' \in [Ranks -> BOOLEAN] /\ wbEpoch' \in [Ranks -> Nat \ {0}]
      BY <2>1 DEF WritebackOverlap, TypeOK
    <3>2. QED
      BY <1>0, <2>1, <3>1 DEF WritebackOverlap, TypeOK
  <2>2. CASE WritebackBegun(r)
    <3>1. dirtyList' \in [Ranks -> Seq(Slots)] /\ pc' \in [Ranks -> Pcs]
      BY <2>2 DEF WritebackBegun, TypeOK, Pcs
    <3>2. QED
      BY <1>0, <2>2, <3>1 DEF WritebackBegun, TypeOK
  <2>3. QED
    BY <1>15, <2>1, <2>2
<1>16. ASSUME WritebackComplete(r)
       PROVE  TypeOK'
  <2>1. wbEpoch' \in [Ranks -> Nat \ {0}] /\ epoch' \in [Ranks -> Nat \ {0}]
    BY <1>16 DEF WritebackComplete, TypeOK
  <2>2. wins' \in [Ranks -> BOOLEAN]
    BY <1>16 DEF WritebackComplete, TypeOK
  <2>3. hasDirty' \in [Ranks -> BOOLEAN]
    BY <1>16, Zenon DEF WritebackComplete, TypeOK
  <2>4. then[r] \in Pcs
    BY DEF TypeOK, Pcs, Thens
  <2>5. pc' \in [Ranks -> Pcs]
    BY <1>16, <2>4 DEF WritebackComplete, TypeOK
  <2>6. QED
    BY <1>0, <1>16, <2>1, <2>2, <2>3, <2>5 DEF WritebackComplete, TypeOK
<1>17. ASSUME AcquireInvalidate(r)
       PROVE  TypeOK'
  <2>1. NoRequest \in RequestType
    BY DEF NoRequest, RequestType, Modes
  <2>2. slot' \in [Ranks -> [Slots -> SlotType]]
    BY <1>17, EvictedType, ZenonT(40) DEF AcquireInvalidate, TypeOK
  <2>3. pc' \in [Ranks -> Pcs] /\ then' \in [Ranks -> Thens] /\ req' \in [Ranks -> RequestType]
    BY <1>17, <2>1 DEF AcquireInvalidate, TypeOK, Pcs, Thens
  <2> DEFINE l == <<req[r].blks[1][1], CHOOSE x \in req[r].blks[1][2] : TRUE>>
  <2>4. perm' = [perm EXCEPT ![l].h = DummyHandler, ![l].ok = TRUE]
    BY <1>17 DEF AcquireInvalidate
  <2>5. DummyHandler \in HandlerType
    BY DEF DummyHandler, HandlerType
  <2>6. l \in Locs
    <3>1. PICK b \in Blocks, x \in Regions : req[r].blks = <<<<b, {x}>>>>
      BY <1>17 DEF AcquireInvalidate, RankInv, ControlInv
    <3>2. req[r].blks[1][1] = b /\ req[r].blks[1][2] = {x}
      BY <3>1
    <3>3. l = <<b, x>>
      BY <3>2
    <3> HIDE DEF l
    <3>4. QED
      BY <3>3 DEF Locs
  <2> HIDE DEF l
  <2>7. perm' \in [Locs -> [rank : Ranks, h : HandlerType, ok : BOOLEAN]]
    BY <2>4, <2>5, <2>6 DEF TypeOK
  <2>8. QED
    BY <1>0, <1>17, <2>2, <2>3, <2>7 DEF AcquireInvalidate, TypeOK
<1>18. ASSUME NEW s \in Slots, NEW x \in Regions, GetArrives(r, s, x) \/ PutArrives(r, s, x)
       PROVE  TypeOK'
  <2>1. CASE GetArrives(r, s, x)
    <3>6. slot[r][s].valid # {}
      BY <2>1 DEF GetArrives, RankInv, GetsInv
    <3>1. slot[r][s].addr \in Blocks
      BY <3>6, ValidHasBlock
    <3>2. memory[<<slot[r][s].addr, x>>] \in Int
      BY <3>1 DEF TypeOK, Locs
    <3>3. data' \in [Ranks -> [Slots -> [Regions -> Int]]]
      BY <2>1, <3>2, SMTT(20) DEF GetArrives, TypeOK
    <3>4. gets' \in [Ranks -> SUBSET (Slots \X Regions)]
      BY <2>1 DEF GetArrives, TypeOK
    <3>5. QED
      BY <1>0, <2>1, <3>3, <3>4 DEF GetArrives, TypeOK
  <2>2. CASE PutArrives(r, s, x)
    <3>5. slot[r][s].valid # {}
      BY <2>2 DEF PutArrives, RankInv, WritebackInv
    <3>6. slot[r][s].addr \in Blocks
      BY <3>5, ValidHasBlock
    <3>4. <<slot[r][s].addr, x>> \in Locs /\ data[r][s][x] \in Int
      BY <3>6 DEF TypeOK, Locs
    <3>1. memory' \in [Locs -> Int]
      BY <2>2, <3>4 DEF PutArrives, TypeOK
    <3>2. puts' \in [Ranks -> SUBSET (Slots \X Regions)]
      BY <2>2 DEF PutArrives, TypeOK
    <3>3. QED
      BY <1>0, <2>2, <3>1, <3>2 DEF PutArrives, TypeOK
  <2>3. QED
    BY <1>18, <2>1, <2>2
<1>19. QED
  BY <1>1, <1>2, <1>3, <1>4, <1>5, <1>6, <1>7, <1>8, <1>9, <1>11, <1>12, <1>13, <1>14, <1>15,
     <1>16, <1>17, <1>18 DEF RankNext, RankStep

-----------------------------------------------------------------------------
(* A step of one rank does not touch the others.                            *)

\* Only the rank that takes the step changes.
LEMMA OthersSame ==
  ASSUME TypeOK, NEW r \in Ranks, RankNext(r), NEW p \in Ranks, p # r
  PROVE  SameRank(p)
<1> USE DEF cacheVars, rmaVars, wbVars, ctlVars, userVars, Goto, SameRank, TypeOK
<1>1. ASSUME NEW blks \in Requests, NEW mode \in Modes, CheckoutCall(r, blks, mode)
      PROVE  SameRank(p)
  BY <1>1 DEF CheckoutCall
<1>2. ASSUME NEW q \in out[r], CheckinCall(r, q)
      PROVE  SameRank(p)
  BY <1>2 DEF CheckinCall
<1>3. ASSUME \/ ReleaseCall(r) \/ CheckoutFull(r) \/ CheckoutDies(r) \/ CheckinReturns(r)
             \/ CheckoutComplete(r) \/ WritebackBlk(r)
      PROVE  SameRank(p)
  BY <1>3 DEF ReleaseCall, CheckoutFull, CheckoutDies, CheckinReturns, CheckoutComplete,
       WritebackBlk
<1>4. ASSUME NEW q \in Ranks, NEW l \in Locs, Give(r, q, l) \/ AcquireCall(r, l)
      PROVE  SameRank(p)
  BY <1>4 DEF Give, AcquireCall
<1>5. ASSUME \/ WritebackOverlap(r) \/ WritebackBegun(r) \/ WritebackComplete(r)
             \/ AcquireInvalidate(r)
      PROVE  SameRank(p)
  BY <1>5, ZenonT(40) DEF WritebackOverlap, WritebackBegun, WritebackComplete, AcquireInvalidate
<1>6. ASSUME CheckoutFast(r)
      PROVE  SameRank(p)
  BY <1>6 DEF CheckoutFast, Pin
<1>11. ASSUME NEW s, NEW b, NEW X, NEW mode, NEW c, Attach(r, s, b, X, mode, c),
              tlb'[p] = tlb[p]
       PROVE  SameRank(p)
  BY <1>11 DEF Attach, Pin
<1>7. ASSUME CheckoutHit(r) \/ CheckoutMiss(r)
      PROVE  SameRank(p)
  <2>1. CASE CheckoutHit(r)
    <3>1. PICK s \in SlotOf(r, todo[r][1][1]) :
            /\ Attach(r, s, todo[r][1][1], todo[r][1][2], req[r].mode, slot[r][s])
            /\ tlb' = [tlb EXCEPT ![r] = @ \cup {<<todo[r][1][1], s>>}]
      BY <2>1 DEF CheckoutHit
    <3>2. tlb'[p] = tlb[p]
      BY <3>1
    <3>3. QED
      BY <1>11, <3>1, <3>2
  <2>2. CASE CheckoutMiss(r)
    <3>1. tlb'[p] = tlb[p]
      BY <2>2 DEF CheckoutMiss
    <3>2. QED
      BY <1>11, <2>2, <3>1 DEF CheckoutMiss
  <2>3. QED
    BY <1>7, <2>1, <2>2
<1>8. ASSUME CheckinBlk(r)
      PROVE  SameRank(p)
  BY <1>8 DEF CheckinBlk
<1>9. ASSUME NEW s \in Slots, NEW x \in Regions, GetArrives(r, s, x) \/ PutArrives(r, s, x)
      PROVE  SameRank(p)
  BY <1>9 DEF GetArrives, PutArrives
<1>10. QED
  BY <1>1, <1>2, <1>3, <1>4, <1>5, <1>6, <1>7, <1>8, <1>9 DEF RankNext, RankStep

\* The invariant of a rank that does not change stays.
LEMMA RankFrame ==
  ASSUME setup' = setup, NEW p, SameRank(p), RankInv(p)
  PROVE  RankInv(p)'
<1>0. Ranks' = Ranks /\ Blocks' = Blocks /\ Regions' = Regions /\ Slots' = Slots /\ Requests' = Requests
  BY SameSetup
<1> USE DEF SameRank
<1>1. (CheckingOut(p)' <=> CheckingOut(p)) /\ (CheckingIn(p)' <=> CheckingIn(p)) /\ Done(p)' = Done(p)
  BY DEF CheckingOut, CheckingIn, Done
<1>2. HeldNow(p)' = HeldNow(p)
  BY <1>1 DEF HeldNow
<1>3. \A b : HeldBlock(p, b)' <=> HeldBlock(p, b)
  BY <1>2 DEF HeldBlock
<1>4. \A b : Users(p, b)' = Users(p, b)
  BY <1>3 DEF Users
<1>5. ControlInv(p)'
  BY <1>0, <1>1 DEF ControlInv, RankInv
<1>6. KeysInv(p)'
  BY <1>0 DEF KeysInv, RankInv
<1>7. RefsInv(p)'
  BY <1>0, <1>2, <1>4 DEF RefsInv, RankInv
<1>8. MapInv(p)'
  BY <1>0, <1>3 DEF MapInv, RankInv
<1>9. WritebackInv(p)'
  BY <1>0 DEF WritebackInv, RankInv
<1>10. GetsInv(p)'
  BY <1>0, <1>3 DEF GetsInv, RankInv
<1>11. DeadInv(p)'
  BY <1>0 DEF DeadInv, RankInv, EmptySlots, IsEvictable, IsWritingBack
<1>12. QED
  BY <1>5, <1>6, <1>7, <1>8, <1>9, <1>10, <1>11 DEF RankInv

-----------------------------------------------------------------------------
(* Steps that leave what is cached and pinned as it is.                     *)

\* The rank holds the same parts of the same request.
SameHeld(r) == HeldNow(r)' = HeldNow(r) /\ (HeldNow(r) = {} \/ req'[r] = req[r])

\* No block moves; what was dirty may be on its way home, gets may arrive.
QuietStep(r) ==
  /\ lru'[r] = lru[r] /\ tlb'[r] = tlb[r] /\ vm'[r] = vm[r] /\ toMap'[r] = toMap[r]
  /\ out'[r] = out[r] /\ gets'[r] \subseteq gets[r] /\ SameHeld(r)
  /\ \A s \in Slots :
       /\ slot'[r][s].key = slot[r][s].key /\ slot'[r][s].addr = slot[r][s].addr
       /\ slot'[r][s].mapped = slot[r][s].mapped /\ slot'[r][s].ref = slot[r][s].ref
       /\ slot'[r][s].valid = slot[r][s].valid /\ slot'[r][s].dirty \subseteq slot[r][s].dirty
       /\ slot[r][s].key = NoBlock => slot'[r][s] = slot[r][s]
  /\ \A s \in Slots, x \in Regions :
       <<s, x>> \in puts'[r] => <<s, x>> \in puts[r] \/ x \in slot[r][s].dirty

\* With the same parts held, blocks have the same users.
LEMMA HeldFrame ==
  ASSUME NEW r, out'[r] = out[r], SameHeld(r)
  PROVE  /\ \A b : HeldBlock(r, b)' <=> HeldBlock(r, b)
         /\ \A b : Users(r, b)' = Users(r, b)
<1>1. \A b : HeldBlock(r, b)' <=> HeldBlock(r, b)
  BY DEF HeldBlock, SameHeld
<1>2. ASSUME HeldNow(r) = {}
      PROVE  \A b : Users(r, b)' = Users(r, b)
  <2>1. \A b : ~HeldBlock(r, b) /\ ~HeldBlock(r, b)'
    BY <1>1, <1>2 DEF HeldBlock
  <2>2. QED
    BY <2>1 DEF Users
<1>3. ASSUME req'[r] = req[r]
      PROVE  \A b : Users(r, b)' = Users(r, b)
  BY <1>1, <1>3 DEF Users
<1>4. QED
  BY <1>1, <1>2, <1>3 DEF SameHeld

\* A quiet step keeps what is said of keys, references, mappings and gets.
LEMMA QuietFrame ==
  ASSUME TypeOK, setup' = setup, NEW r \in Ranks, RankInv(r), QuietStep(r)
  PROVE  KeysInv(r)' /\ RefsInv(r)' /\ MapInv(r)' /\ GetsInv(r)'
<1>0. Ranks' = Ranks /\ Blocks' = Blocks /\ Regions' = Regions /\ Slots' = Slots
  BY SameSetup
<1>1. /\ \A b : HeldBlock(r, b)' <=> HeldBlock(r, b)
      /\ \A b : Users(r, b)' = Users(r, b)
  BY HeldFrame DEF QuietStep
<1>2. KeysInv(r)'
  BY <1>0 DEF KeysInv, RankInv, QuietStep
<1>3. RefsInv(r)'
  BY <1>0, <1>1 DEF RefsInv, RankInv, QuietStep, SameHeld
<1>4. MapInv(r)'
  <2>1. MapInv(r)
    BY DEF RankInv
  <2> USE DEF QuietStep
  <2>2. (\A b \in Blocks, s \in Slots : vm[r][b] = s <=> slot[r][s].mapped = b)'
    BY <1>0, <2>1 DEF MapInv
  <2>3. (\A s \in Slots : slot[r][s].addr # slot[r][s].mapped => \E i \in DOMAIN toMap[r] : toMap[r][i] = s)'
    BY <1>0, <2>1 DEF MapInv
  <2>4. \A i \in DOMAIN toMap[r] : toMap[r][i] \in Slots
    BY DEF TypeOK
  <2>5. QED
    BY <1>0, <1>1, <2>1, <2>2, <2>3, <2>4 DEF MapInv
<1>5. GetsInv(r)'
  BY <1>0, <1>1 DEF GetsInv, RankInv, QuietStep
<1>6. QED
  BY <1>2, <1>3, <1>4, <1>5

\* The calls of the program other than checkin.
LEMMA CallStep ==
  ASSUME TypeOK, setup' = setup, NEW r \in Ranks, RankInv(r),
         \/ \E blks \in Requests, mode \in Modes : CheckoutCall(r, blks, mode)
         \/ ReleaseCall(r)
         \/ \E l \in Locs : AcquireCall(r, l)
  PROVE  RankInv(r)'
<1> USE DEF cacheVars, rmaVars, wbVars, ctlVars, userVars, Goto
<1>0. Ranks' = Ranks /\ Blocks' = Blocks /\ Regions' = Regions /\ Slots' = Slots /\ Requests' = Requests
  BY SameSetup
<1>1. /\ pc[r] = "idle" /\ then[r] = "idle" /\ ControlInv(r)
      /\ slot' = slot /\ lru' = lru /\ tlb' = tlb /\ vm' = vm /\ toMap' = toMap
      /\ gets' = gets /\ puts' = puts /\ out' = out /\ dirtyList' = dirtyList
      /\ wins' = wins /\ hasDirty' = hasDirty /\ wbEpoch' = wbEpoch
  BY DEF RankInv, ControlInv, CheckoutCall, ReleaseCall, AcquireCall
<1>2. HeldNow(r) = {} /\ toMap[r] = <<>> /\ gets[r] = {} /\ todo[r] = <<>> /\ IsFiniteSet(out[r])
  BY <1>1 DEF ControlInv, HeldNow, CheckingOut, CheckingIn
<1>3. ASSUME NEW blks \in Requests, NEW mode \in Modes, CheckoutCall(r, blks, mode)
      PROVE  ControlInv(r)' /\ HeldNow(r)' = {} /\ pc'[r] = "checkout" /\ then'[r] = "idle"
  <2>1. /\ pc'[r] = "checkout" /\ then'[r] = "idle" /\ todo'[r] = blks
        /\ req'[r] = [blks |-> blks, mode |-> mode]
        /\ [blks |-> blks, mode |-> mode] \notin out[r]
    BY <1>3 DEF CheckoutCall, TypeOK
  <2>2. blks \in Seq(Parts)
    BY SetupFacts DEF TypeOK
  <2>3. CheckingOut(r)' /\ ~CheckingIn(r)' /\ Done(r)' = 0
    BY <2>1, <2>2 DEF CheckingOut, CheckingIn, Done
  <2>4. HeldNow(r)' = {}
    BY <2>1, <2>2, <2>3 DEF HeldNow
  <2>5. ControlInv(r)'
    BY <1>0, <1>1, <1>2, <2>1, <2>2, <2>3 DEF ControlInv
  <2>6. QED
    BY <2>1, <2>4, <2>5
<1>4. ASSUME ReleaseCall(r)
      PROVE  ControlInv(r)' /\ HeldNow(r)' = {} /\ pc'[r] = "writeback"
  <2>1. /\ pc'[r] = "writeback" /\ then'[r] = "idle" /\ todo' = todo /\ req' = req
    BY <1>4 DEF ReleaseCall, TypeOK
  <2>2. ~CheckingOut(r)' /\ ~CheckingIn(r)'
    BY <2>1 DEF CheckingOut, CheckingIn
  <2>3. QED
    BY <1>1, <1>2, <2>1, <2>2 DEF ControlInv, HeldNow
<1>5. ASSUME NEW l \in Locs, AcquireCall(r, l)
      PROVE  ControlInv(r)' /\ HeldNow(r)' = {} /\ pc'[r] = "writeback"
  <2>1. /\ pc'[r] = "writeback" /\ then'[r] = "acquire" /\ todo' = todo /\ out[r] = {}
        /\ req'[r].blks = <<<<l[1], {l[2]}>>>>
    BY <1>5 DEF AcquireCall, TypeOK
  <2>2. ~CheckingOut(r)' /\ ~CheckingIn(r)'
    BY <2>1 DEF CheckingOut, CheckingIn
  <2>3. l[1] \in Blocks /\ l[2] \in Regions
    BY DEF Locs
  <2>4. QED
    BY <1>0, <1>1, <1>2, <2>1, <2>2, <2>3 DEF ControlInv, HeldNow
<1>6. ControlInv(r)' /\ HeldNow(r)' = {}
      /\ (pc'[r] = "writeback" \/ (pc'[r] = "checkout" /\ then'[r] = "idle"))
  <2>1. CASE \E blks \in Requests, mode \in Modes : CheckoutCall(r, blks, mode)
    BY <2>1, <1>3
  <2>2. CASE ReleaseCall(r)
    BY <2>2, <1>4
  <2>3. CASE \E l \in Locs : AcquireCall(r, l)
    BY <2>3, <1>5
  <2>4. QED
    BY <2>1, <2>2, <2>3
<1>7. QuietStep(r)
  BY <1>1, <1>2, <1>6 DEF QuietStep, SameHeld
<1>8. WritebackInv(r)'
  BY <1>0, <1>1, <1>6 DEF WritebackInv, RankInv
<1>9. DeadInv(r)'
  BY <1>6 DEF DeadInv
<1>10. QED
  BY <1>6, <1>7, <1>8, <1>9, QuietFrame DEF RankInv

\* get_entry finds no slot: the writeback, or the end.
LEMMA FullStep ==
  ASSUME TypeOK, setup' = setup, NEW r \in Ranks, RankInv(r), CheckoutFull(r) \/ CheckoutDies(r)
  PROVE  RankInv(r)'
<1> USE DEF cacheVars, rmaVars, wbVars, ctlVars, userVars, Goto
<1>0. Ranks' = Ranks /\ Blocks' = Blocks /\ Regions' = Regions /\ Slots' = Slots /\ Requests' = Requests
  BY SameSetup
<1>1. /\ pc[r] = "checkout" /\ EmptySlots(r) = {}
      /\ slot' = slot /\ lru' = lru /\ tlb' = tlb /\ vm' = vm /\ toMap' = toMap
      /\ gets' = gets /\ puts' = puts /\ out' = out /\ dirtyList' = dirtyList
      /\ wins' = wins /\ hasDirty' = hasDirty /\ wbEpoch' = wbEpoch /\ req' = req /\ todo' = todo
  BY DEF CheckoutFull, CheckoutDies
<1>2. \/ pc'[r] = "writeback" /\ then'[r] = "checkout"
      \/ pc'[r] = "dead" /\ then'[r] = "checkout" /\ then[r] = "checkout"
  BY DEF CheckoutFull, CheckoutDies, TypeOK
<1>3. CheckingOut(r) /\ CheckingOut(r)' /\ ~CheckingIn(r) /\ ~CheckingIn(r)' /\ Done(r)' = Done(r)
  BY <1>1, <1>2 DEF CheckingOut, CheckingIn, Done
<1>4. SameHeld(r)
  BY <1>1, <1>3 DEF SameHeld, HeldNow
<1>5. ControlInv(r)'
  BY <1>0, <1>1, <1>2, <1>3 DEF ControlInv, RankInv
<1>6. QuietStep(r)
  BY <1>1, <1>4 DEF QuietStep
<1>7. WritebackInv(r)'
  BY <1>0, <1>1, <1>2 DEF WritebackInv, RankInv
<1>8. DeadInv(r)'
  BY <1>0, <1>1 DEF DeadInv, EmptySlots, IsEvictable, IsWritingBack
<1>9. QED
  BY <1>5, <1>6, <1>7, <1>8, QuietFrame DEF RankInv

\* checkin has done all parts.
LEMMA CheckinReturnsStep ==
  ASSUME TypeOK, setup' = setup, NEW r \in Ranks, RankInv(r), CheckinReturns(r)
  PROVE  RankInv(r)'
<1> USE DEF cacheVars, rmaVars, wbVars, ctlVars, userVars, Goto
<1>0. Ranks' = Ranks /\ Blocks' = Blocks /\ Regions' = Regions /\ Slots' = Slots /\ Requests' = Requests
  BY SameSetup
<1>1. /\ pc[r] = "checkin" /\ todo[r] = <<>> /\ pc'[r] = "idle" /\ then'[r] = "idle"
      /\ slot' = slot /\ lru' = lru /\ tlb' = tlb /\ vm' = vm /\ toMap' = toMap
      /\ gets' = gets /\ puts' = puts /\ out' = out /\ dirtyList' = dirtyList
      /\ wins' = wins /\ hasDirty' = hasDirty /\ wbEpoch' = wbEpoch /\ todo' = todo
  BY DEF CheckinReturns, TypeOK
<1>2. /\ ~CheckingOut(r) /\ ~CheckingOut(r)' /\ ~CheckingIn(r)'
      /\ req[r].blks \in Seq(Parts)
  BY <1>1 DEF CheckingOut, CheckingIn, TypeOK, RequestType
<1>3. HeldNow(r) = {} /\ HeldNow(r)' = {}
  <2>1. Done(r) = Len(req[r].blks) /\ DOMAIN req[r].blks = 1..Len(req[r].blks)
    BY <1>1, <1>2 DEF Done
  <2>2. HeldNow(r) = {}
    BY <1>2, <2>1 DEF HeldNow
  <2>3. HeldNow(r)' = {}
    BY <1>2 DEF HeldNow
  <2>4. QED
    BY <2>2, <2>3
<1>4. ControlInv(r)'
  BY <1>0, <1>1, <1>2 DEF ControlInv, RankInv
<1>5. QuietStep(r)
  BY <1>1, <1>3 DEF QuietStep, SameHeld
<1>6. WritebackInv(r)'
  BY <1>0, <1>1 DEF WritebackInv, RankInv
<1>7. DeadInv(r)'
  BY <1>1 DEF DeadInv
<1>8. QED
  BY <1>4, <1>5, <1>6, <1>7, QuietFrame DEF RankInv

\* A transfer takes effect.
LEMMA TransferStep ==
  ASSUME TypeOK, setup' = setup, NEW r \in Ranks, RankInv(r),
         NEW s \in Slots, NEW x \in Regions, GetArrives(r, s, x) \/ PutArrives(r, s, x)
  PROVE  RankInv(r)'
<1> USE DEF cacheVars, rmaVars, wbVars, ctlVars, userVars
<1>0. Ranks' = Ranks /\ Blocks' = Blocks /\ Regions' = Regions /\ Slots' = Slots /\ Requests' = Requests
  BY SameSetup
<1>1. /\ slot' = slot /\ lru' = lru /\ tlb' = tlb /\ vm' = vm /\ toMap' = toMap
      /\ gets'[r] \subseteq gets[r] /\ puts'[r] \subseteq puts[r]
      /\ out' = out /\ dirtyList' = dirtyList /\ pc' = pc /\ then' = then /\ req' = req
      /\ wins' = wins /\ hasDirty' = hasDirty /\ wbEpoch' = wbEpoch /\ todo' = todo
  BY SMTT(20) DEF GetArrives, PutArrives, TypeOK
<1>2. /\ CheckingOut(r)' <=> CheckingOut(r)
      /\ CheckingIn(r)' <=> CheckingIn(r)
      /\ Done(r)' = Done(r)
  BY <1>1 DEF CheckingOut, CheckingIn, Done
<1>3. SameHeld(r)
  BY <1>1, <1>2 DEF SameHeld, HeldNow
<1>4. ControlInv(r)'
  BY <1>0, <1>1, <1>2 DEF ControlInv, RankInv
<1>5. QuietStep(r)
  BY <1>1, <1>3 DEF QuietStep
<1>6. WritebackInv(r)'
  BY <1>0, <1>1 DEF WritebackInv, RankInv
<1>7. DeadInv(r)'
  BY <1>0, <1>1 DEF DeadInv, RankInv, EmptySlots, IsEvictable, IsWritingBack
<1>8. QED
  BY <1>4, <1>5, <1>6, <1>7, QuietFrame DEF RankInv

\* One slot of one rank changes: what the others are.
LEMMA OneSlot ==
  ASSUME TypeOK, NEW r \in Ranks, NEW s \in Slots, NEW n, slot' = [slot EXCEPT ![r][s] = n]
  PROVE  /\ slot'[r][s] = n
         /\ \A t \in Slots : t # s => slot'[r][t] = slot[r][t]
BY DEF TypeOK

\* writeback_begin of one block.
LEMMA WritebackBlkStep ==
  ASSUME TypeOK, setup' = setup, NEW r \in Ranks, RankInv(r), WritebackBlk(r)
  PROVE  RankInv(r)'
<1> USE DEF cacheVars, rmaVars, wbVars, ctlVars, userVars
<1>0. Ranks' = Ranks /\ Blocks' = Blocks /\ Regions' = Regions /\ Slots' = Slots /\ Requests' = Requests
  BY SameSetup
<1>1. /\ pc[r] = "writeback"
      /\ lru' = lru /\ tlb' = tlb /\ vm' = vm /\ toMap' = toMap /\ gets' = gets
      /\ out' = out /\ dirtyList' = dirtyList /\ pc' = pc /\ then' = then /\ req' = req
      /\ hasDirty' = hasDirty /\ wbEpoch' = wbEpoch /\ todo' = todo /\ wins'[r] = TRUE
  BY DEF WritebackBlk, TypeOK
<1> DEFINE s == FirstDirty(r)
<1>2. s \in Slots /\ slot[r][s].dirty # {}
  BY FirstDirtyIs DEF WritebackBlk
<1>3. /\ puts' = [puts EXCEPT ![r] = @ \cup ({s} \X slot[r][s].dirty)]
      /\ slot' = [slot EXCEPT ![r][s].dirty = {}, ![r][s].wbe = wbEpoch[r]]
  BY DEF WritebackBlk
<1> HIDE DEF s
<1>4. /\ slot'[r][s] = [slot[r][s] EXCEPT !.dirty = {}, !.wbe = wbEpoch[r]]
      /\ \A t \in Slots : t # s => slot'[r][t] = slot[r][t]
  BY <1>2, <1>3 DEF TypeOK
<1>5. slot[r][s] \in SlotType
  BY <1>2 DEF TypeOK
<1>6. /\ slot'[r][s].key = slot[r][s].key /\ slot'[r][s].addr = slot[r][s].addr
      /\ slot'[r][s].mapped = slot[r][s].mapped /\ slot'[r][s].ref = slot[r][s].ref
      /\ slot'[r][s].valid = slot[r][s].valid /\ slot'[r][s].dirty = {}
      /\ slot'[r][s].wbe = wbEpoch[r] /\ slot[r][s].dirty \subseteq Regions
  BY <1>4, <1>5 DEF SlotType
<1>7. \A t \in Slots, x \in Regions :
        <<t, x>> \in puts'[r] <=> \/ <<t, x>> \in puts[r]
                                  \/ t = s /\ x \in slot[r][s].dirty
  BY <1>2, <1>3 DEF TypeOK
<1>8. slot[r][s].key # NoBlock
  BY <1>2 DEF RankInv, KeysInv, EmptySlot
<1>9. /\ CheckingOut(r)' <=> CheckingOut(r)
      /\ CheckingIn(r)' <=> CheckingIn(r)
      /\ Done(r)' = Done(r)
  BY <1>1 DEF CheckingOut, CheckingIn, Done
<1>10. SameHeld(r)
  BY <1>1, <1>9 DEF SameHeld, HeldNow
<1>11. ControlInv(r)'
  BY <1>0, <1>1, <1>9 DEF ControlInv, RankInv
<1>12. QuietStep(r)
  BY <1>1, <1>2, <1>4, <1>6, <1>7, <1>8, <1>10 DEF QuietStep
<1>13. WritebackInv(r)'
  <2>1. WritebackInv(r)
    BY DEF RankInv
  <2>2. hasDirty[r] = TRUE /\ slot[r][s].dirty \subseteq slot[r][s].valid
    BY <1>2, <2>1 DEF WritebackInv
  <2>3. wbEpoch[r] \in Nat
    BY DEF TypeOK
  <2>4. ASSUME NEW t \in Slots, NEW x \in Regions, <<t, x>> \in puts'[r]
        PROVE  slot'[r][t].wbe = wbEpoch'[r] /\ x \in slot'[r][t].valid /\ hasDirty'[r] = TRUE
    <3>1. CASE <<t, x>> \in puts[r]
      <4>1. slot[r][t].wbe = wbEpoch[r] /\ x \in slot[r][t].valid
        BY <2>1, <3>1 DEF WritebackInv
      <4>2. QED
        BY <1>1, <1>4, <1>6, <2>2, <4>1
    <3>2. CASE t = s /\ x \in slot[r][s].dirty
      BY <1>1, <1>6, <2>2, <3>2
    <3>3. QED
      BY <1>7, <2>4, <3>1, <3>2
  <2>5. ASSUME NEW t \in Slots
        PROVE  (/\ slot[r][t].dirty \subseteq slot[r][t].valid
                /\ slot[r][t].wbe <= wbEpoch[r]
                /\ slot[r][t].wbe = wbEpoch[r] => wins[r] = TRUE
                /\ slot[r][t].dirty # {} =>
                     hasDirty[r] = TRUE /\ \E i \in DOMAIN dirtyList[r] : dirtyList[r][i] = t)'
    <3>1. CASE t = s
      BY <1>1, <1>6, <2>3, <3>1
    <3>2. CASE t # s
      <4>1. slot'[r][t] = slot[r][t]
        BY <1>4, <3>2
      <4>2. QED
        BY <1>1, <2>1, <4>1 DEF WritebackInv
    <3>3. QED
      BY <3>1, <3>2
  <2>6. QED
    BY <1>0, <1>1, <2>4, <2>5 DEF WritebackInv
<1>14. DeadInv(r)'
  BY <1>1 DEF DeadInv
<1>15. QED
  BY <1>11, <1>12, <1>13, <1>14, QuietFrame DEF RankInv

\* A writeback that finds a block already on its way, or the end of the list.
LEMMA WritebackListStep ==
  ASSUME TypeOK, setup' = setup, NEW r \in Ranks, RankInv(r), WritebackOverlap(r) \/ WritebackBegun(r)
  PROVE  RankInv(r)'
<1> USE DEF cacheVars, rmaVars, wbVars, ctlVars, userVars, Goto
<1>0. Ranks' = Ranks /\ Blocks' = Blocks /\ Regions' = Regions /\ Slots' = Slots /\ Requests' = Requests
  BY SameSetup
<1>1. /\ pc[r] = "writeback"
      /\ slot' = slot /\ lru' = lru /\ tlb' = tlb /\ vm' = vm /\ toMap' = toMap /\ gets' = gets
      /\ puts' = puts /\ out' = out /\ then' = then /\ req' = req
      /\ hasDirty' = hasDirty /\ todo' = todo
  BY DEF WritebackOverlap, WritebackBegun
<1>2. \/ pc'[r] = "writeback"
      \/ pc'[r] = "checkin" /\ then[r] = "checkin"
      \/ pc'[r] = "flush" /\ then[r] # "checkin"
  BY DEF WritebackOverlap, WritebackBegun, TypeOK
<1>3. /\ CheckingOut(r)' <=> CheckingOut(r)
      /\ CheckingIn(r)' <=> CheckingIn(r)
      /\ Done(r)' = Done(r)
  BY <1>1, <1>2 DEF CheckingOut, CheckingIn, Done
<1>4. SameHeld(r)
  BY <1>1, <1>3 DEF SameHeld, HeldNow
<1>5. ControlInv(r)'
  BY <1>0, <1>1, <1>2, <1>3 DEF ControlInv, RankInv
<1>6. QuietStep(r)
  BY <1>1, <1>4 DEF QuietStep
<1>7. WritebackInv(r)
  BY DEF RankInv
<1>8. CASE WritebackOverlap(r)
  <2>1. /\ puts[r] = {} /\ wbEpoch'[r] = wbEpoch[r] + 1 /\ pc'[r] = "writeback"
        /\ dirtyList' = dirtyList
    BY <1>8 DEF WritebackOverlap, TypeOK
  <2>2. wbEpoch[r] \in Nat /\ \A s \in Slots : slot[r][s].wbe \in Nat
    BY DEF TypeOK, SlotType
  <2>3. WritebackInv(r)'
    BY <1>0, <1>1, <1>7, <2>1, <2>2 DEF WritebackInv
  <2>4. DeadInv(r)'
    BY <2>1 DEF DeadInv
  <2>5. QED
    BY <1>5, <1>6, <2>3, <2>4, QuietFrame DEF RankInv
<1>9. CASE WritebackBegun(r)
  <2>1. PendingDirty(r) = {} /\ wins' = wins /\ wbEpoch' = wbEpoch
    BY <1>9 DEF WritebackBegun
  <2>2. \A s \in Slots : slot[r][s].dirty = {}
    BY <2>1, <1>7 DEF PendingDirty, WritebackInv
  <2>3. pc'[r] \in {"checkin", "flush"}
    BY <1>9 DEF WritebackBegun, TypeOK
  <2>4. WritebackInv(r)'
    BY <1>0, <1>1, <1>7, <2>1, <2>2, <2>3 DEF WritebackInv
  <2>5. DeadInv(r)'
    BY <2>3 DEF DeadInv
  <2>6. QED
    BY <1>5, <1>6, <2>4, <2>5, QuietFrame DEF RankInv
<1>10. QED
  BY <1>8, <1>9

\* writeback_complete.
LEMMA WritebackCompleteStep ==
  ASSUME TypeOK, setup' = setup, NEW r \in Ranks, RankInv(r), WritebackComplete(r)
  PROVE  RankInv(r)'
<1> USE DEF cacheVars, rmaVars, wbVars, ctlVars, userVars, Goto
<1>0. Ranks' = Ranks /\ Blocks' = Blocks /\ Regions' = Regions /\ Slots' = Slots /\ Requests' = Requests
  BY SameSetup
<1>1. /\ pc[r] = "flush" /\ pc'[r] = then[r] /\ puts[r] = {}
      /\ slot' = slot /\ lru' = lru /\ tlb' = tlb /\ vm' = vm /\ toMap' = toMap /\ gets' = gets
      /\ puts' = puts /\ out' = out /\ then' = then /\ req' = req
      /\ dirtyList' = dirtyList /\ todo' = todo
  BY DEF WritebackComplete, TypeOK
<1>2. then[r] \in {"idle", "checkout", "acquire"}
  BY <1>1 DEF TypeOK, Thens, RankInv, ControlInv
<1>3. /\ CheckingOut(r)' <=> CheckingOut(r)
      /\ CheckingIn(r)' <=> CheckingIn(r)
      /\ Done(r)' = Done(r)
  BY <1>1, <1>2 DEF CheckingOut, CheckingIn, Done
<1>4. SameHeld(r)
  BY <1>1, <1>3 DEF SameHeld, HeldNow
<1>5. ControlInv(r)'
  BY <1>0, <1>1, <1>2, <1>3 DEF ControlInv, RankInv
<1>6. QuietStep(r)
  BY <1>1, <1>4 DEF QuietStep
<1>7. WritebackInv(r)
  BY DEF RankInv
<1>8. /\ wbEpoch'[r] \in {wbEpoch[r], wbEpoch[r] + 1}
      /\ wins[r] = TRUE => wbEpoch'[r] = wbEpoch[r] + 1
  BY DEF WritebackComplete, TypeOK
<1>9. wbEpoch[r] \in Nat /\ \A s \in Slots : slot[r][s].wbe \in Nat
  BY DEF TypeOK, SlotType
<1>10. ASSUME NEW s \in Slots
       PROVE  /\ slot[r][s].dirty = {} /\ slot[r][s].wbe < wbEpoch'[r]
              /\ slot[r][s].wbe <= wbEpoch'[r] /\ slot[r][s].wbe # wbEpoch'[r]
  <2>1. /\ slot[r][s].dirty = {} /\ slot[r][s].wbe <= wbEpoch[r]
        /\ slot[r][s].wbe = wbEpoch[r] => wins[r] = TRUE
    BY <1>1, <1>7 DEF WritebackInv
  <2>2. slot[r][s].wbe = wbEpoch[r] => wbEpoch'[r] = wbEpoch[r] + 1
    BY <1>8, <2>1, Zenon
  <2>3. slot[r][s].dirty = {} /\ slot[r][s].wbe <= wbEpoch[r]
    BY <2>1
  <2>4. wbEpoch'[r] \in {wbEpoch[r], wbEpoch[r] + 1}
    BY <1>8
  <2>5. QED
    BY <1>9, <2>2, <2>3, <2>4
<1>11. WritebackInv(r)'
  <2>1. \A s \in Slots, x \in Regions : <<s, x>> \notin puts'[r]
    BY <1>1
  <2>2. \A s \in Slots : slot'[r][s].dirty = {} /\ slot'[r][s].wbe < wbEpoch'[r]
    BY <1>1, <1>10
  <2>3. \A s \in Slots : slot'[r][s].wbe <= wbEpoch'[r] /\ slot'[r][s].wbe # wbEpoch'[r]
    BY <1>1, <1>10
  <2>4. QED
    BY <1>0, <2>1, <2>2, <2>3 DEF WritebackInv
<1>12. DeadInv(r)'
  BY <1>1, <1>2 DEF DeadInv
<1>13. QED
  BY <1>5, <1>6, <1>11, <1>12, QuietFrame DEF RankInv

\* acquire throws away what is valid, with nothing pinned or dirty.
LEMMA AcquireInvalidateStep ==
  ASSUME TypeOK, setup' = setup, NEW r \in Ranks, RankInv(r), AcquireInvalidate(r)
  PROVE  RankInv(r)'
<1> USE DEF cacheVars, rmaVars, wbVars, ctlVars, userVars, Goto
<1>0. Ranks' = Ranks /\ Blocks' = Blocks /\ Regions' = Regions /\ Slots' = Slots /\ Requests' = Requests
  BY SameSetup
<1>1. /\ pc[r] = "acquire" /\ pc'[r] = "idle" /\ then'[r] = "idle"
      /\ lru' = lru /\ tlb' = tlb /\ vm' = vm /\ toMap' = toMap /\ gets' = gets
      /\ puts' = puts /\ out' = out /\ dirtyList' = dirtyList /\ todo' = todo
      /\ wins' = wins /\ hasDirty' = hasDirty /\ wbEpoch' = wbEpoch
      /\ slot'[r] = [s \in Slots |-> [slot[r][s] EXCEPT !.valid = {}]]
  BY DEF AcquireInvalidate, TypeOK
<1>2. /\ ControlInv(r) /\ KeysInv(r) /\ RefsInv(r) /\ MapInv(r) /\ WritebackInv(r)
  BY DEF RankInv
<1>3. ~CheckingOut(r) /\ ~CheckingOut(r)' /\ ~CheckingIn(r) /\ ~CheckingIn(r)'
  BY <1>1 DEF CheckingOut, CheckingIn
<1>4. out[r] = {} /\ toMap[r] = <<>> /\ gets[r] = {} /\ todo[r] = <<>> /\ then[r] = "acquire"
  BY <1>1, <1>2, <1>3 DEF ControlInv
<1>5. HeldNow(r) = {} /\ HeldNow(r)' = {}
  BY <1>3 DEF HeldNow
<1>6. \A b : Users(r, b)' = Users(r, b)
  BY <1>1, <1>5, HeldFrame DEF SameHeld
<1>7. ASSUME NEW s \in Slots
      PROVE  /\ slot'[r][s].key = slot[r][s].key /\ slot'[r][s].addr = slot[r][s].addr
             /\ slot'[r][s].mapped = slot[r][s].mapped /\ slot'[r][s].ref = slot[r][s].ref
             /\ slot'[r][s].wbe = slot[r][s].wbe /\ slot'[r][s].dirty = slot[r][s].dirty
             /\ slot[r][s] = EmptySlot => slot'[r][s] = EmptySlot
  <2>1. slot'[r][s] = [slot[r][s] EXCEPT !.valid = {}]
    BY <1>1
  <2>2. slot[r][s] \in SlotType
    BY DEF TypeOK
  <2>3. slot[r][s] = EmptySlot => slot'[r][s] = EmptySlot
    BY <2>1 DEF EmptySlot
  <2>4. QED
    BY <2>1, <2>2, <2>3 DEF SlotType
<1>8. ControlInv(r)'
  BY <1>1, <1>2, <1>3, <1>4 DEF ControlInv
<1>9. KeysInv(r)'
  <2>1. lru' = lru /\ tlb' = tlb
    BY <1>1
  <2>2. (\A s, t \in Slots : slot[r][s].key = slot[r][t].key /\ slot[r][s].key # NoBlock => s = t)'
    BY <1>0, <1>2, <1>7 DEF KeysInv
  <2>3. QED
    BY <1>0, <1>2, <1>7, <2>1, <2>2 DEF KeysInv
<1>10. RefsInv(r)'
  BY <1>0, <1>1, <1>2, <1>4, <1>5, <1>6, <1>7 DEF RefsInv
<1>11. MapInv(r)'
  BY <1>0, <1>1, <1>2, <1>4, <1>7 DEF MapInv
<1>12. WritebackInv(r)'
  <2>1. \A s \in Slots : /\ slot[r][s].dirty = {} /\ slot[r][s].wbe < wbEpoch[r]
                         /\ slot[r][s].wbe <= wbEpoch[r]
                         /\ slot[r][s].wbe \in Nat /\ wbEpoch[r] \in Nat
    BY <1>1, <1>2 DEF WritebackInv, TypeOK, SlotType
  <2>2. \A s \in Slots : slot[r][s].wbe # wbEpoch[r]
    BY <2>1
  <2>3. \A s \in Slots, x \in Regions : <<s, x>> \notin puts[r]
    BY <1>2, <2>2 DEF WritebackInv
  <2>4. QED
    BY <1>0, <1>1, <1>7, <2>1, <2>2, <2>3 DEF WritebackInv
<1>13. GetsInv(r)'
  BY <1>1, <1>4 DEF GetsInv
<1>14. DeadInv(r)'
  BY <1>1 DEF DeadInv
<1>15. QED
  BY <1>8, <1>9, <1>10, <1>11, <1>12, <1>13, <1>14 DEF RankInv

\* A request that checks in is no longer among those checked out, but pins the
\* same blocks.
LEMMA CheckinCallStep ==
  ASSUME TypeOK, setup' = setup, NEW r \in Ranks, RankInv(r), NEW q \in out[r], CheckinCall(r, q)
  PROVE  RankInv(r)'
<1> USE DEF cacheVars, rmaVars, wbVars, ctlVars, userVars, Goto
<1>0. Ranks' = Ranks /\ Blocks' = Blocks /\ Regions' = Regions /\ Slots' = Slots /\ Requests' = Requests
  BY SameSetup
<1>1. /\ pc[r] = "idle" /\ pc'[r] = "checkin" /\ then' = then /\ out'[r] = out[r] \ {q}
      /\ req'[r] = q /\ todo'[r] = q.blks
      /\ slot' = slot /\ lru' = lru /\ tlb' = tlb /\ vm' = vm /\ toMap' = toMap /\ gets' = gets
      /\ puts' = puts /\ dirtyList' = dirtyList
      /\ wins' = wins /\ hasDirty' = hasDirty /\ wbEpoch' = wbEpoch
  BY DEF CheckinCall, TypeOK
<1>2. /\ ControlInv(r) /\ KeysInv(r) /\ RefsInv(r) /\ MapInv(r) /\ WritebackInv(r)
  BY DEF RankInv
<1>3. ~CheckingOut(r) /\ ~CheckingOut(r)' /\ ~CheckingIn(r) /\ CheckingIn(r)'
  BY <1>1, <1>2 DEF CheckingOut, CheckingIn, ControlInv
<1>4. toMap[r] = <<>> /\ gets[r] = {} /\ then[r] = "idle" /\ IsFiniteSet(out[r])
  BY <1>1, <1>2, <1>3 DEF ControlInv
<1>5. q.blks \in Requests /\ q.blks \in Seq(Parts)
  BY SetupFacts DEF TypeOK
<1>6. Done(r)' = 0
  BY <1>1, <1>5 DEF Done
<1>7. HeldNow(r) = {} /\ HeldNow(r)' = DOMAIN q.blks
  BY <1>1, <1>3, <1>5, <1>6 DEF HeldNow
<1>8. \A b : Users(r, b)' = Users(r, b)
  <2>1. \A b : ~HeldBlock(r, b) /\ (HeldBlock(r, b)' <=> Has(q, b))
    BY <1>1, <1>7 DEF HeldBlock, Has
  <2>2. \A b : Users(r, b) = {o \in out[r] : Has(o, b)}
    BY <2>1 DEF Users
  <2>3. \A b : Users(r, b)' = {o \in out[r] : Has(o, b)}
    BY <1>1, <2>1 DEF Users
  <2>4. QED
    BY <2>2, <2>3
<1>9. ControlInv(r)'
  <2>1. IsFiniteSet(out[r] \ {q})
    BY <1>4, FS_RemoveElement
  <2>2. QED
    BY <1>0, <1>1, <1>3, <1>4, <1>5, <1>6, <2>1 DEF ControlInv
<1>10. KeysInv(r)'
  BY <1>0, <1>1, <1>2 DEF KeysInv
<1>11. RefsInv(r)'
  BY <1>0, <1>1, <1>2, <1>7, <1>8 DEF RefsInv
<1>12. MapInv(r)'
  BY <1>0, <1>1, <1>2, <1>4 DEF MapInv
<1>13. WritebackInv(r)'
  BY <1>0, <1>1, <1>2 DEF WritebackInv
<1>14. GetsInv(r)'
  BY <1>1, <1>4 DEF GetsInv
<1>15. DeadInv(r)'
  BY <1>1 DEF DeadInv
<1>16. QED
  BY <1>9, <1>10, <1>11, <1>12, <1>13, <1>14, <1>15 DEF RankInv

\* After update_mapping of the queued slots, the addresses of a block are mapped to
\* the slot whose addr they are.
LEMMA RemappedIs ==
  ASSUME TypeOK, NEW r \in Ranks, RankInv(r), NEW b \in Blocks, NEW s \in Slots
  PROVE  (Remapped(r)[b] = s) <=> (slot[r][s].addr = b)
<1> DEFINE new(i) == slot[r][toMap[r][i]]
           updates == {i \in DOMAIN toMap[r] : new(i).addr = b \/ new(i).mapped = b}
           last == CHOOSE i \in updates : \A j \in updates : j <= i
<1>1. Remapped(r)[b] = IF updates = {} THEN vm[r][b]
                       ELSE IF new(last).addr = b THEN toMap[r][last] ELSE NoSlot
  BY DEF Remapped
<1>2. KeysInv(r) /\ MapInv(r)
  BY DEF RankInv
<1>3. /\ toMap[r] \in Seq(Slots) /\ Len(toMap[r]) \in Nat
      /\ \A i \in DOMAIN toMap[r] : i \in 1..Len(toMap[r]) /\ toMap[r][i] \in Slots
      /\ NoBlock \notin Blocks /\ NoSlot \notin Slots
  BY SetupFacts DEF TypeOK, Slots, NoSlot
<1>4. \A t \in Slots : slot[r][t].addr = b => slot[r][t].key = b
  BY <1>2, <1>3 DEF KeysInv, EmptySlot
<1>5. \A t, u \in Slots : slot[r][t].addr = b /\ slot[r][u].addr = b => t = u
  BY <1>2, <1>3, <1>4 DEF KeysInv
<1>6. \A t \in Slots : (vm[r][b] = t) <=> (slot[r][t].mapped = b)
  BY <1>2 DEF MapInv
<1>7. CASE updates = {}
  <2>1. (slot[r][s].mapped = b) <=> (slot[r][s].addr = b)
    BY <1>2, <1>7 DEF MapInv
  <2>2. QED
    BY <1>1, <1>6, <1>7, <2>1
<1>8. CASE updates # {}
  <2>1. updates \in SUBSET (1..Len(toMap[r]))
    BY <1>3
  <2>2. \E i \in updates : \A j \in updates : j <= i
    <3> HIDE DEF updates
    <3>1. QED
      BY <1>3, <1>8, <2>1, Greatest
  <2>3. last \in updates /\ \A j \in updates : j <= last
    <3> HIDE DEF updates
    <3>1. QED
      BY <2>2
  <2> HIDE DEF last
  <2>4. last \in DOMAIN toMap[r] /\ toMap[r][last] \in Slots
    BY <2>3, <1>3
  <2>5. CASE new(last).addr = b
    <3>1. Remapped(r)[b] = toMap[r][last]
      BY <1>1, <1>8, <2>5
    <3>2. QED
      BY <1>5, <2>4, <2>5, <3>1
  <2>6. CASE new(last).addr # b
    <3>1. Remapped(r)[b] = NoSlot
      BY <1>1, <1>8, <2>6
    <3>2. new(last).mapped = b
      BY <2>3, <2>6
    <3>3. ASSUME slot[r][s].addr = b
          PROVE  FALSE
      <4>1. s # toMap[r][last]
        BY <2>6, <3>3
      <4>2. slot[r][s].mapped # b
        BY <1>6, <2>4, <3>2, <4>1
      <4>3. PICK i \in DOMAIN toMap[r] : toMap[r][i] = s
        BY <1>2, <3>3, <4>2 DEF MapInv
      <4>4. i \in updates
        BY <3>3, <4>3
      <4>5. PICK j \in 1..(i - 1) : toMap[r][last] = toMap[r][j]
        <5>1. slot[r][toMap[r][last]].mapped = slot[r][toMap[r][i]].addr
          BY <3>2, <3>3, <4>3
        <5>2. toMap[r][last] # toMap[r][i]
          BY <4>1, <4>3
        <5>3. QED
          BY <1>2, <2>4, <5>1, <5>2 DEF MapInv
      <4>6. i \in 1..Len(toMap[r]) /\ j \in 1..Len(toMap[r])
        BY <1>3, <4>3
      <4>7. j = last
        BY <1>2, <1>3, <2>4, <4>5, <4>6 DEF MapInv
      <4>8. i <= last
        BY <2>3, <4>4
      <4>9. QED
        BY <4>5, <4>6, <4>7, <4>8
    <3>4. QED
      BY <1>3, <3>1, <3>3
  <2>7. QED
    BY <2>5, <2>6
<1>9. QED
  BY <1>7, <1>8

\* checkout_complete: the request joins those that are checked out.
LEMMA CheckoutCompleteStep ==
  ASSUME TypeOK, setup' = setup, NEW r \in Ranks, RankInv(r), CheckoutComplete(r)
  PROVE  RankInv(r)'
<1> USE DEF cacheVars, rmaVars, wbVars, ctlVars, userVars, Goto
<1>0. Ranks' = Ranks /\ Blocks' = Blocks /\ Regions' = Regions /\ Slots' = Slots /\ Requests' = Requests
  BY SameSetup
<1>1. /\ pc[r] = "checkout" /\ todo[r] = <<>> /\ gets[r] = {}
      /\ pc'[r] = "idle" /\ then'[r] = "idle" /\ toMap'[r] = <<>>
      /\ out'[r] = out[r] \cup {req[r]}
      /\ lru' = lru /\ tlb' = tlb /\ gets' = gets /\ puts' = puts /\ dirtyList' = dirtyList
      /\ todo' = todo /\ wins' = wins /\ hasDirty' = hasDirty /\ wbEpoch' = wbEpoch
      /\ vm'[r] = Remapped(r)
  BY DEF CheckoutComplete, TypeOK
<1>2. /\ ControlInv(r) /\ KeysInv(r) /\ RefsInv(r) /\ MapInv(r) /\ WritebackInv(r)
  BY DEF RankInv
<1>3. CheckingOut(r) /\ ~CheckingOut(r)' /\ ~CheckingIn(r) /\ ~CheckingIn(r)'
  BY <1>1 DEF CheckingOut, CheckingIn
<1>4. /\ req[r].blks \in Seq(Parts) /\ req[r].blks \in Requests /\ req[r] \notin out[r]
      /\ IsFiniteSet(out[r])
  BY <1>2, <1>3 DEF TypeOK, RequestType, ControlInv
<1>5. HeldNow(r) = DOMAIN req[r].blks /\ HeldNow(r)' = {}
  <2>1. Done(r) = Len(req[r].blks) /\ DOMAIN req[r].blks = 1..Len(req[r].blks)
    BY <1>1, <1>4 DEF Done
  <2>2. HeldNow(r) = DOMAIN req[r].blks
    BY <1>3, <2>1 DEF HeldNow
  <2>3. HeldNow(r)' = {}
    BY <1>3 DEF HeldNow
  <2>4. QED
    BY <2>2, <2>3
<1>6. \A b : Users(r, b)' = Users(r, b)
  <2>1. \A b : ~HeldBlock(r, b)' /\ (HeldBlock(r, b) <=> Has(req[r], b))
    BY <1>5 DEF HeldBlock, Has
  <2>2. \A b : Users(r, b) = {o \in out[r] \cup {req[r]} : Has(o, b)}
    BY <2>1 DEF Users
  <2>3. \A b : Users(r, b)' = {o \in out[r] \cup {req[r]} : Has(o, b)}
    BY <1>1, <2>1 DEF Users
  <2>4. QED
    BY <2>2, <2>3
<1>7. ASSUME NEW s \in Slots
      PROVE  /\ slot'[r][s].key = slot[r][s].key /\ slot'[r][s].addr = slot[r][s].addr
             /\ slot'[r][s].mapped = slot[r][s].addr /\ slot'[r][s].ref = slot[r][s].ref
             /\ slot'[r][s].wbe = slot[r][s].wbe /\ slot'[r][s].dirty = slot[r][s].dirty
             /\ slot'[r][s].valid = slot[r][s].valid
             /\ slot[r][s] = EmptySlot => slot'[r][s] = EmptySlot
  <2>1. slot'[r][s] = IF \E i \in DOMAIN toMap[r] : toMap[r][i] = s
                      THEN [slot[r][s] EXCEPT !.mapped = slot[r][s].addr]
                      ELSE slot[r][s]
    BY DEF CheckoutComplete, TypeOK
  <2>2. slot[r][s] \in SlotType
    BY DEF TypeOK
  <2>3. slot[r][s] = EmptySlot => slot'[r][s] = EmptySlot
    BY <2>1 DEF EmptySlot
  <2>4. CASE \E i \in DOMAIN toMap[r] : toMap[r][i] = s
    BY <2>1, <2>2, <2>3, <2>4 DEF SlotType
  <2>5. CASE ~\E i \in DOMAIN toMap[r] : toMap[r][i] = s
    <3>1. slot[r][s].addr = slot[r][s].mapped
      BY <1>2, <2>5 DEF MapInv
    <3>2. QED
      BY <2>1, <2>3, <2>5, <3>1
  <2>6. QED
    BY <2>4, <2>5
<1>8. ControlInv(r)'
  <2>1. IsFiniteSet(out[r] \cup {req[r]})
    BY <1>4, FS_AddElement
  <2>2. QED
    BY <1>0, <1>1, <1>3, <2>1 DEF ControlInv
<1>9. KeysInv(r)'
  <2>1. lru' = lru /\ tlb' = tlb
    BY <1>1
  <2>2. (\A s, t \in Slots : slot[r][s].key = slot[r][t].key /\ slot[r][s].key # NoBlock => s = t)'
    BY <1>0, <1>2, <1>7 DEF KeysInv
  <2>3. QED
    BY <1>0, <1>2, <1>7, <2>1, <2>2 DEF KeysInv
<1>10. RefsInv(r)'
  BY <1>0, <1>1, <1>2, <1>5, <1>6, <1>7 DEF RefsInv
<1>11. MapInv(r)'
  <2>1. \A b \in Blocks, s \in Slots : vm'[r][b] = s <=> slot'[r][s].mapped = b
    BY <1>1, <1>7, RemappedIs
  <2>2. toMap'[r] = <<>>
    BY <1>1
  <2>3. QED
    BY <1>0, <1>7, <2>1, <2>2 DEF MapInv
<1>12. WritebackInv(r)'
  <2>1. /\ puts' = puts /\ dirtyList' = dirtyList /\ pc'[r] = "idle"
        /\ wins' = wins /\ hasDirty' = hasDirty /\ wbEpoch' = wbEpoch
    BY <1>1
  <2>2. QED
    BY <1>0, <1>2, <1>7, <2>1 DEF WritebackInv
<1>13. GetsInv(r)'
  BY <1>1 DEF GetsInv
<1>14. DeadInv(r)'
  BY <1>1 DEF DeadInv
<1>15. QED
  BY <1>8, <1>9, <1>10, <1>11, <1>12, <1>13, <1>14 DEF RankInv

\* The users of a block are finitely many.
LEMMA UsersFinite ==
  ASSUME NEW r, ControlInv(r), NEW b
  PROVE  IsFiniteSet(Users(r, b)) /\ Cardinality(Users(r, b)) \in Nat
<1>1. IsFiniteSet(out[r] \cup {req[r]})
  BY FS_AddElement DEF ControlInv
<1>2. Users(r, b) \subseteq out[r] \cup {req[r]}
  BY DEF Users
<1>3. IsFiniteSet(Users(r, b))
  BY <1>1, <1>2, FS_Subset
<1>4. QED
  BY <1>3, FS_CardinalityType

\* The part that a call comes to: its place in the request.
LEMMA PartInRequest ==
  ASSUME TypeOK, NEW r \in Ranks, RankInv(r), CheckingOut(r) \/ CheckingIn(r), todo[r] # <<>>
  PROVE  /\ Done(r) \in Nat /\ Done(r) + 1 \in 1..Len(req[r].blks)
         /\ DOMAIN req[r].blks = 1..Len(req[r].blks) /\ Len(req[r].blks) \in Nat
         /\ req[r].blks[Done(r) + 1] = todo[r][1]
         /\ \A i, j \in DOMAIN req[r].blks : req[r].blks[i][1] = req[r].blks[j][1] => i = j
<1>1. /\ req[r].blks \in Requests /\ Len(todo[r]) <= Len(req[r].blks)
      /\ \A i \in 1..Len(todo[r]) : todo[r][i] = req[r].blks[Done(r) + i]
  BY DEF RankInv, ControlInv
<1>2. Requests \subseteq Seq(Parts) /\ \A q \in Requests : \A j, k \in DOMAIN q : q[j][1] = q[k][1] => j = k
  BY SetupFacts DEF TypeOK
<1>3. todo[r] \in Seq(Parts) /\ Len(todo[r]) > 0
  BY DEF TypeOK
<1>4. /\ req[r].blks \in Seq(Parts) /\ Len(req[r].blks) \in Nat /\ Len(todo[r]) \in Nat
      /\ DOMAIN req[r].blks = 1..Len(req[r].blks)
  BY <1>1, <1>2, <1>3
<1>5. Done(r) \in Nat /\ Done(r) + 1 \in 1..Len(req[r].blks)
  <2>1. \A m, n \in Nat : n > 0 /\ n <= m => m - n \in Nat /\ (m - n) + 1 \in 1..m
    OBVIOUS
  <2>2. Len(todo[r]) > 0 /\ Len(todo[r]) <= Len(req[r].blks)
    BY <1>1, <1>3
  <2>3. QED
    BY <1>4, <2>1, <2>2 DEF Done
<1>6. req[r].blks[Done(r) + 1] = todo[r][1]
  BY <1>1, <1>3, <1>4
<1>7. QED
  BY <1>1, <1>2, <1>4, <1>5, <1>6

\* Rank r checks in the part of its request that is block b, in slot s, of which X
\* has been written.
UnpinsBlock(r, s, b, X) ==
  /\ s \in Slots /\ b \in Blocks /\ b # NoBlock /\ X \in SUBSET Regions
  /\ slot[r][s].key = b /\ \A t \in Slots : t # s => slot[r][t].key # b
  /\ pc[r] = "checkin" /\ todo[r] # <<>> /\ todo'[r] = Tail(todo[r])
  /\ \/ pc'[r] = "checkin" /\ then'[r] = then[r]
     \/ pc'[r] = "writeback" /\ then'[r] = "checkin"
  /\ CheckingIn(r) /\ CheckingIn(r)' /\ ~CheckingOut(r) /\ ~CheckingOut(r)'
  /\ Done(r)' = Done(r) + 1
  /\ HeldNow(r)' = HeldNow(r) \ {Done(r) + 1} /\ Done(r) + 1 \in HeldNow(r)
  /\ b = req[r].blks[Done(r) + 1][1]
  /\ X = IF req[r].mode = "read" THEN {} ELSE req[r].blks[Done(r) + 1][2]
  /\ toMap[r] = <<>> /\ gets[r] = {} /\ req[r] \notin out[r]
  /\ \A t \in Slots : t # s => slot'[r][t] = slot[r][t]
  /\ slot'[r][s].key = b /\ slot'[r][s].addr = slot[r][s].addr
  /\ slot'[r][s].mapped = slot[r][s].mapped /\ slot'[r][s].ref = slot[r][s].ref - 1
  /\ slot'[r][s].valid = slot[r][s].valid /\ slot'[r][s].dirty = slot[r][s].dirty \cup X
  /\ slot'[r][s].wbe = slot[r][s].wbe
  /\ lru' = lru /\ tlb' = tlb /\ vm' = vm /\ toMap' = toMap /\ gets' = gets /\ puts' = puts
  /\ wins' = wins /\ wbEpoch' = wbEpoch /\ req' = req /\ out' = out /\ data' = data
  /\ memory' = memory /\ epoch' = epoch /\ perm' = perm /\ latest' = latest

\* The block becomes dirty, and joins the list.
ListsDirty(r, s, X) ==
  LET newDirty == X # {} /\ slot[r][s].dirty = {} IN
  /\ dirtyList' = IF newDirty THEN [dirtyList EXCEPT ![r] = Append(@, s)] ELSE dirtyList
  /\ hasDirty' = IF newDirty THEN [hasDirty EXCEPT ![r] = TRUE] ELSE hasDirty

\* checkin of one part does that.
LEMMA CheckinBlkIs ==
  ASSUME TypeOK, setup' = setup, NEW r \in Ranks, RankInv(r), CheckinBlk(r)
  PROVE  \E s, b, X : UnpinsBlock(r, s, b, X) /\ ListsDirty(r, s, X)
<1> USE DEF cacheVars, rmaVars, wbVars, ctlVars, userVars, Goto
<1>b. PICK b, X : b = todo[r][1][1] /\ X = IF req[r].mode = "read" THEN {} ELSE todo[r][1][2]
  OBVIOUS
<1> DEFINE newDirty(s) == X # {} /\ slot[r][s].dirty = {}
<1>1. /\ pc[r] = "checkin" /\ todo[r] # <<>>
      /\ todo' = [todo EXCEPT ![r] = Tail(@)]
      /\ lru' = lru /\ tlb' = tlb /\ vm' = vm /\ toMap' = toMap /\ gets' = gets /\ puts' = puts
      /\ wins' = wins /\ wbEpoch' = wbEpoch /\ req' = req /\ out' = out /\ data' = data
      /\ memory' = memory /\ epoch' = epoch /\ perm' = perm /\ latest' = latest
  BY DEF CheckinBlk
<1>2. PICK s \in SlotOf(r, b) \cup (IF Len(req[r].blks) = 1 THEN TlbGet(r, b) ELSE {}) :
        /\ slot' = [slot EXCEPT ![r][s].dirty = @ \cup X, ![r][s].ref = @ - 1]
        /\ dirtyList' = IF newDirty(s) THEN [dirtyList EXCEPT ![r] = Append(@, s)] ELSE dirtyList
        /\ hasDirty' = IF newDirty(s) THEN [hasDirty EXCEPT ![r] = TRUE] ELSE hasDirty
        /\ IF newDirty(s) /\ Len(dirtyList[r]) + 1 >= MaxDirty
           THEN Goto(r, "writeback") /\ then' = [then EXCEPT ![r] = "checkin"]
           ELSE UNCHANGED <<pc, then>>
  BY <1>b DEF CheckinBlk
<1>3. /\ ControlInv(r) /\ KeysInv(r) /\ RefsInv(r) /\ MapInv(r) /\ WritebackInv(r)
  BY DEF RankInv
<1>4. b \in Blocks /\ X \in SUBSET Regions /\ X \subseteq todo[r][1][2] /\ b # NoBlock
  <2>1. NoBlock \notin Blocks
    BY SetupFacts DEF TypeOK
  <2>2. QED
    BY <1>b, <1>1, <2>1, NextPart
<1>5. s \in Slots /\ slot[r][s].key = b
  BY <1>2, <1>3, <1>4 DEF SlotOf, TlbGet, KeysInv
<1>6. /\ (pc'[r] = "checkin" /\ then'[r] = then[r]) \/ (pc'[r] = "writeback" /\ then'[r] = "checkin")
  BY <1>1, <1>2 DEF TypeOK
<1>7. CheckingIn(r) /\ CheckingIn(r)' /\ ~CheckingOut(r) /\ ~CheckingOut(r)'
  BY <1>1, <1>3, <1>6 DEF CheckingIn, CheckingOut, ControlInv
<1>8. /\ Done(r) \in Nat /\ Done(r) + 1 \in 1..Len(req[r].blks)
      /\ DOMAIN req[r].blks = 1..Len(req[r].blks) /\ Len(req[r].blks) \in Nat
      /\ req[r].blks[Done(r) + 1] = todo[r][1]
      /\ \A i, j \in DOMAIN req[r].blks : req[r].blks[i][1] = req[r].blks[j][1] => i = j
  BY <1>1, <1>7, PartInRequest
<1>9. /\ todo'[r] = Tail(todo[r]) /\ Len(todo'[r]) = Len(todo[r]) - 1 /\ Len(todo[r]) \in Nat
      /\ Len(todo[r]) > 0
      /\ \A i \in 1..(Len(todo[r]) - 1) : todo'[r][i] = todo[r][i + 1]
  <2>1. todo'[r] = Tail(todo[r]) /\ Len(todo[r]) \in Nat
    BY <1>1 DEF TypeOK
  <2>2. QED
    BY <1>1, <2>1, NextPart
<1>10. Done(r)' = Done(r) + 1
  <2>1. Done(r) = Len(req[r].blks) - Len(todo[r]) /\ Done(r)' = Len(req[r].blks) - Len(todo'[r])
    BY <1>1 DEF Done
  <2>2. QED
    BY <1>8, <1>9, <2>1
<1>11. HeldNow(r)' = HeldNow(r) \ {Done(r) + 1} /\ Done(r) + 1 \in HeldNow(r)
  BY <1>1, <1>7, <1>8, <1>10 DEF HeldNow
<1>12. toMap[r] = <<>> /\ gets[r] = {} /\ req[r] \notin out[r]
  BY <1>3, <1>7 DEF ControlInv
<1>13. /\ b = req[r].blks[Done(r) + 1][1]
       /\ X = IF req[r].mode = "read" THEN {} ELSE req[r].blks[Done(r) + 1][2]
  BY <1>b, <1>4, <1>8
<1>14. /\ slot'[r][s] = [slot[r][s] EXCEPT !.dirty = slot[r][s].dirty \cup X, !.ref = slot[r][s].ref - 1]
       /\ \A t \in Slots : t # s => slot'[r][t] = slot[r][t]
  BY <1>2, <1>5 DEF TypeOK
<1>15. /\ slot'[r][s].key = slot[r][s].key /\ slot'[r][s].addr = slot[r][s].addr
       /\ slot'[r][s].mapped = slot[r][s].mapped /\ slot'[r][s].ref = slot[r][s].ref - 1
       /\ slot'[r][s].valid = slot[r][s].valid /\ slot'[r][s].dirty = slot[r][s].dirty \cup X
       /\ slot'[r][s].wbe = slot[r][s].wbe
  <2>1. slot[r][s] \in SlotType
    BY <1>5 DEF TypeOK
  <2>2. QED
    BY <1>14, <2>1 DEF SlotType
<1>16. \A t \in Slots : t # s => slot[r][t].key # b
  BY <1>3, <1>4, <1>5 DEF KeysInv
<1>17. UnpinsBlock(r, s, b, X)
  BY <1>1, <1>4, <1>5, <1>6, <1>7, <1>9, <1>10, <1>11, <1>12, <1>13, <1>14, <1>15, <1>16
  DEF UnpinsBlock
<1>18. ListsDirty(r, s, X)
  BY <1>2 DEF ListsDirty
<1>19. QED
  BY <1>17, <1>18

\* checkin of one part unpins its block and adds to what is dirty.
LEMMA CheckinBlkStep ==
  ASSUME TypeOK, setup' = setup, NEW r \in Ranks, RankInv(r), CheckinBlk(r)
  PROVE  RankInv(r)'
<1> USE DEF cacheVars, rmaVars, wbVars, ctlVars, userVars, Goto
<1>0. Ranks' = Ranks /\ Blocks' = Blocks /\ Regions' = Regions /\ Slots' = Slots /\ Requests' = Requests
  BY SameSetup
<1>b. PICK s, b, X : UnpinsBlock(r, s, b, X) /\ ListsDirty(r, s, X)
  BY CheckinBlkIs
<1> DEFINE newDirty(t) == X # {} /\ slot[r][t].dirty = {}
<1>1. /\ pc[r] = "checkin" /\ todo[r] # <<>>
      /\ lru' = lru /\ tlb' = tlb /\ vm' = vm /\ toMap' = toMap /\ gets' = gets /\ puts' = puts
      /\ wins' = wins /\ wbEpoch' = wbEpoch /\ req' = req /\ out' = out
  BY <1>b DEF UnpinsBlock
<1>2. /\ dirtyList' = IF newDirty(s) THEN [dirtyList EXCEPT ![r] = Append(@, s)] ELSE dirtyList
      /\ hasDirty' = IF newDirty(s) THEN [hasDirty EXCEPT ![r] = TRUE] ELSE hasDirty
  BY <1>b DEF ListsDirty
<1>3. /\ ControlInv(r) /\ KeysInv(r) /\ RefsInv(r) /\ MapInv(r) /\ WritebackInv(r)
  BY DEF RankInv
<1>4. b \in Blocks /\ X \in SUBSET Regions /\ b # NoBlock
  BY <1>b DEF UnpinsBlock
<1>5. s \in Slots /\ slot[r][s].key = b
  BY <1>b DEF UnpinsBlock
<1>6. (pc'[r] = "checkin" /\ then'[r] = then[r]) \/ (pc'[r] = "writeback" /\ then'[r] = "checkin")
  BY <1>b DEF UnpinsBlock
<1>7. CheckingIn(r) /\ CheckingIn(r)' /\ ~CheckingOut(r) /\ ~CheckingOut(r)'
  BY <1>b DEF UnpinsBlock
<1>8. /\ Done(r) \in Nat /\ Done(r) + 1 \in 1..Len(req[r].blks)
      /\ DOMAIN req[r].blks = 1..Len(req[r].blks) /\ Len(req[r].blks) \in Nat
      /\ req[r].blks[Done(r) + 1] = todo[r][1]
      /\ \A i, j \in DOMAIN req[r].blks : req[r].blks[i][1] = req[r].blks[j][1] => i = j
  BY <1>1, <1>7, PartInRequest
<1>9. /\ todo'[r] = Tail(todo[r]) /\ Len(todo'[r]) = Len(todo[r]) - 1 /\ Len(todo[r]) \in Nat
      /\ Len(todo[r]) > 0
      /\ \A i \in 1..(Len(todo[r]) - 1) : todo'[r][i] = todo[r][i + 1]
  <2>1. todo'[r] = Tail(todo[r]) /\ Len(todo[r]) \in Nat
    BY <1>b DEF UnpinsBlock, TypeOK
  <2>2. QED
    BY <1>1, <2>1, NextPart
<1>10. Done(r)' = Done(r) + 1
  BY <1>b DEF UnpinsBlock
<1>11. HeldNow(r)' = HeldNow(r) \ {Done(r) + 1} /\ Done(r) + 1 \in HeldNow(r)
  BY <1>b DEF UnpinsBlock
<1>12. toMap[r] = <<>> /\ gets[r] = {} /\ req[r] \notin out[r]
  BY <1>b DEF UnpinsBlock
<1>13. b = req[r].blks[Done(r) + 1][1] /\ X \subseteq req[r].blks[Done(r) + 1][2]
  BY <1>b DEF UnpinsBlock
<1>14. HeldBlock(r, b) /\ \A c : HeldBlock(r, c)' <=> (HeldBlock(r, c) /\ c # b)
  BY <1>1, <1>8, <1>11, <1>13 DEF HeldBlock, HeldNow
<1>15. \A c : c # b => Users(r, c)' = Users(r, c)
  BY <1>1, <1>14 DEF Users
<1>16. Users(r, b)' = Users(r, b) \ {req[r]} /\ req[r] \in Users(r, b)
  BY <1>1, <1>12, <1>14 DEF Users
<1>17. Cardinality(Users(r, b)') = Cardinality(Users(r, b)) - 1
  BY <1>3, <1>16, UsersFinite, FS_RemoveElement
<1>18. \A t \in Slots : t # s => slot'[r][t] = slot[r][t]
  BY <1>b DEF UnpinsBlock
<1>19. /\ slot'[r][s].key = slot[r][s].key /\ slot'[r][s].addr = slot[r][s].addr
       /\ slot'[r][s].mapped = slot[r][s].mapped /\ slot'[r][s].ref = slot[r][s].ref - 1
       /\ slot'[r][s].valid = slot[r][s].valid /\ slot'[r][s].dirty = slot[r][s].dirty \cup X
       /\ slot'[r][s].wbe = slot[r][s].wbe
  BY <1>b DEF UnpinsBlock
<1>20. \A t \in Slots : t # s => slot[r][t].key # b
  BY <1>b DEF UnpinsBlock
<1>21. ControlInv(r)'
  <2>1. \A i \in 1..Len(todo'[r]) : todo'[r][i] = req'[r].blks[Done(r)' + i]
    <3>1. ASSUME NEW i \in 1..Len(todo'[r])
          PROVE  todo'[r][i] = req'[r].blks[Done(r)' + i]
      <4>1. i \in 1..(Len(todo[r]) - 1) /\ i + 1 \in 1..Len(todo[r]) /\ i \in Int
        BY <1>9
      <4>2. todo[r][i + 1] = req[r].blks[Done(r) + (i + 1)]
        BY <1>3, <1>7, <4>1 DEF ControlInv
      <4>3. Done(r) + (i + 1) = Done(r)' + i
        BY <1>8, <1>10, <4>1
      <4>4. QED
        BY <1>1, <1>9, <4>1, <4>2, <4>3
    <3>2. QED
      BY <3>1
  <2>2. Len(todo'[r]) <= Len(req'[r].blks)
    <3>1. Len(todo[r]) <= Len(req[r].blks)
      BY <1>3, <1>7 DEF ControlInv
    <3>2. QED
      BY <1>1, <1>8, <1>9, <3>1
  <2>3. QED
    BY <1>0, <1>1, <1>3, <1>6, <1>7, <1>12, <2>1, <2>2 DEF ControlInv
<1>22. KeysInv(r)'
  <2>1. \A t \in Slots : slot'[r][t].key = slot[r][t].key /\ slot'[r][t].addr = slot[r][t].addr
    BY <1>18, <1>19
  <2>2. \A t \in Slots : slot[r][t].key = NoBlock => slot'[r][t] = slot[r][t]
    BY <1>4, <1>5, <1>18
  <2>3. lru' = lru /\ tlb' = tlb
    BY <1>1
  <2>4. QED
    BY <1>0, <1>3, <2>1, <2>2, <2>3 DEF KeysInv
<1>23. RefsInv(r)'
  <2>1. ASSUME NEW t \in Slots
        PROVE  (slot[r][t].ref = Cardinality(Users(r, slot[r][t].key)))'
    <3>1. slot[r][t].ref = Cardinality(Users(r, slot[r][t].key))
      BY <1>3 DEF RefsInv
    <3>2. CASE t = s
      <4>1. slot[r][s].ref = Cardinality(Users(r, b))
        BY <3>1, <3>2, <1>5
      <4>2. Cardinality(Users(r, slot[r][s].key))' = Cardinality(Users(r, b)')
        BY <1>5, <1>19
      <4>3. QED
        BY <1>17, <1>19, <3>2, <4>1, <4>2
    <3>3. CASE t # s
      BY <1>15, <1>18, <1>20, <3>1, <3>3
    <3>4. QED
      BY <3>2, <3>3
  <2>2. \A t \in Slots : slot'[r][t].key = slot[r][t].key /\ slot'[r][t].valid = slot[r][t].valid
    BY <1>18, <1>19
  <2>3. QED
    BY <1>0, <1>1, <1>3, <1>11, <2>1, <2>2 DEF RefsInv
<1>24. MapInv(r)'
  <2>1. \A t \in Slots : slot'[r][t].addr = slot[r][t].addr /\ slot'[r][t].mapped = slot[r][t].mapped
    BY <1>18, <1>19
  <2>2. vm' = vm /\ toMap' = toMap
    BY <1>1
  <2>3. QED
    BY <1>0, <1>3, <1>12, <2>1, <2>2 DEF MapInv
<1>25. WritebackInv(r)'
  <2>1. X \subseteq slot[r][s].valid
    <3>1. PICK t \in Slots : /\ slot[r][t].key = req[r].blks[Done(r) + 1][1]
                             /\ req[r].blks[Done(r) + 1][2] \subseteq slot[r][t].valid
      BY <1>3, <1>11 DEF RefsInv
    <3>2. t = s
      BY <1>13, <1>20, <3>1
    <3>3. QED
      BY <1>13, <3>1, <3>2
  <2>2. hasDirty[r] = TRUE => hasDirty'[r] = TRUE
    BY <1>2 DEF TypeOK
  <2>3. newDirty(s) => hasDirty'[r] = TRUE
    BY <1>2 DEF TypeOK
  <2>4. /\ newDirty(s) => dirtyList'[r] = Append(dirtyList[r], s)
        /\ ~newDirty(s) => dirtyList'[r] = dirtyList[r]
        /\ dirtyList[r] \in Seq(Slots)
    BY <1>2 DEF TypeOK
  <2>5. ASSUME NEW t \in Slots, \E i \in DOMAIN dirtyList[r] : dirtyList[r][i] = t
        PROVE  \E i \in DOMAIN dirtyList'[r] : dirtyList'[r][i] = t
    BY <2>4, <2>5
  <2>6. newDirty(s) => \E i \in DOMAIN dirtyList'[r] : dirtyList'[r][i] = s
    BY <2>4, <1>5
  <2>7. slot'[r][s].dirty # {} => slot[r][s].dirty # {} \/ newDirty(s)
    BY <1>19
  <2> HIDE DEF newDirty
  <2>8. ASSUME NEW t \in Slots, slot'[r][t].dirty # {}
        PROVE  hasDirty'[r] = TRUE /\ \E i \in DOMAIN dirtyList'[r] : dirtyList'[r][i] = t
    <3>1. CASE slot[r][t].dirty # {}
      <4>1. hasDirty[r] = TRUE /\ \E i \in DOMAIN dirtyList[r] : dirtyList[r][i] = t
        BY <1>3, <3>1 DEF WritebackInv
      <4>2. QED
        BY <2>2, <2>5, <4>1
    <3>2. CASE slot[r][t].dirty = {}
      <4>1. t = s /\ newDirty(s)
        BY <1>18, <2>7, <2>8, <3>2
      <4>2. QED
        BY <2>3, <2>6, <4>1
    <3>3. QED
      BY <3>1, <3>2
  <2>9. \A t \in Slots : /\ slot'[r][t].dirty \subseteq slot'[r][t].valid
                         /\ slot'[r][t].wbe = slot[r][t].wbe /\ slot'[r][t].valid = slot[r][t].valid
    <3>1. \A t \in Slots : slot[r][t].dirty \subseteq slot[r][t].valid
      BY <1>3 DEF WritebackInv
    <3>2. QED
      BY <1>18, <1>19, <2>1, <3>1
  <2>10. pc'[r] \in {"checkin", "writeback"} /\ wins' = wins /\ wbEpoch' = wbEpoch /\ puts' = puts
    BY <1>1, <1>6
  <2>11. QED
    BY <1>0, <1>3, <2>2, <2>8, <2>9, <2>10, ZenonT(40) DEF WritebackInv
<1>26. GetsInv(r)'
  BY <1>1, <1>12 DEF GetsInv
<1>27. DeadInv(r)'
  BY <1>6 DEF DeadInv
<1>28. QED
  BY <1>21, <1>22, <1>23, <1>24, <1>25, <1>26, <1>27 DEF RankInv

-----------------------------------------------------------------------------
(* The steps of checkout that pin a block.                                  *)

\* Slot s is given to block b, or holds it; V is what was valid and stays so, F
\* is fetched, X is what the request wants.
PinsBlock(r, s, b, X, V, F) ==
  /\ s \in Slots /\ b \in Blocks /\ X \subseteq Regions /\ V \subseteq Regions /\ F \subseteq Regions
  /\ pc[r] = "checkout" /\ todo[r] # <<>> /\ todo[r][1][1] = b /\ todo[r][1][2] = X
  /\ \/ slot[r][s].key = b /\ V = slot[r][s].valid
     \/ /\ V = {} /\ SlotOf(r, b) = {}
        /\ slot[r][s].key = NoBlock \/ IsEvictable(r, s)
  /\ \A t \in Slots : t # s => slot'[r][t] = slot[r][t]
  /\ slot'[r][s].key = b /\ slot'[r][s].addr = b /\ slot'[r][s].mapped = slot[r][s].mapped
  /\ slot'[r][s].ref = slot[r][s].ref + 1
  /\ slot'[r][s].wbe = slot[r][s].wbe /\ slot'[r][s].dirty = slot[r][s].dirty
  /\ slot'[r][s].valid = V \cup X \cup F
  /\ F \cap V = {}
  /\ req[r].mode = "write" \/ X \subseteq V \cup F
  /\ gets'[r] = gets[r] \cup ({s} \X F)
  /\ todo'[r] = Tail(todo[r]) /\ (then'[r] = then[r] \/ then'[r] = "idle")
  /\ pc' = pc /\ req' = req /\ out' = out /\ vm' = vm /\ data' = data
  /\ memory' = memory /\ puts' = puts /\ wins' = wins /\ dirtyList' = dirtyList
  /\ hasDirty' = hasDirty /\ wbEpoch' = wbEpoch /\ epoch' = epoch
  /\ perm' = perm /\ latest' = latest

\* What the slot is before it is pinned: nobody else has the block, and what is
\* in use of the slot belongs to the block and is kept.
LEMMA PinFacts ==
  ASSUME TypeOK, NEW r \in Ranks, RankInv(r), NEW s, NEW b, NEW X, NEW V, NEW F,
         PinsBlock(r, s, b, X, V, F)
  PROVE  /\ \A t \in Slots : t # s => slot[r][t].key # b
         /\ Users(r, slot[r][s].key) # {} => slot[r][s].key = b /\ V = slot[r][s].valid
         /\ slot[r][s].dirty \subseteq V
         /\ \A x \in Regions : <<s, x>> \in puts[r] => x \in V
         /\ \A x \in Regions : <<s, x>> \in gets[r] => x \in V /\ slot[r][s].key = b
         /\ slot[r][s].ref = Cardinality(Users(r, b))
         /\ \A q \in out[r], x \in Regions : <<b, x>> \in LocsOf(q.blks) => x \in V
<1>1. /\ ControlInv(r) /\ KeysInv(r) /\ RefsInv(r) /\ MapInv(r) /\ WritebackInv(r) /\ GetsInv(r)
  BY DEF RankInv
<1>2. s \in Slots /\ b \in Blocks /\ b # NoBlock
  BY SetupFacts DEF PinsBlock, TypeOK
<1>3. \A c : HeldBlock(r, c) => Users(r, c) # {}
  BY DEF Users
<1>4. \A c : \A q \in out[r], x \in Regions : <<c, x>> \in LocsOf(q.blks) => Has(q, c)
  BY DEF LocsOf, Has
<1>5. \A c : \A q \in out[r] : Has(q, c) => Users(r, c) # {}
  BY DEF Users
<1>6. CASE slot[r][s].key = b /\ V = slot[r][s].valid
  <2>1. \A t \in Slots : t # s => slot[r][t].key # b
    BY <1>1, <1>2, <1>6 DEF KeysInv
  <2>2. slot[r][s].dirty \subseteq V /\ \A x \in Regions : <<s, x>> \in puts[r] => x \in V
    BY <1>1, <1>2, <1>6 DEF WritebackInv
  <2>3. \A x \in Regions : <<s, x>> \in gets[r] => x \in V
    BY <1>1, <1>2, <1>6 DEF GetsInv
  <2>4. slot[r][s].ref = Cardinality(Users(r, b))
    BY <1>1, <1>2, <1>6 DEF RefsInv
  <2>5. ASSUME NEW q \in out[r], NEW x \in Regions, <<b, x>> \in LocsOf(q.blks)
        PROVE  x \in V
    <3>1. PICK i \in DOMAIN q.blks : <<b, x>> \in {q.blks[i][1]} \X q.blks[i][2]
      BY <2>5 DEF LocsOf
    <3>2. q.blks[i][1] = b /\ x \in q.blks[i][2]
      BY <3>1
    <3>3. PICK t \in Slots : slot[r][t].key = b /\ q.blks[i][2] \subseteq slot[r][t].valid
      BY <1>1, <3>2 DEF RefsInv
    <3>4. QED
      BY <1>6, <2>1, <3>2, <3>3
  <2>6. QED
    BY <1>6, <2>1, <2>2, <2>3, <2>4, <2>5
<1>7. CASE V = {} /\ SlotOf(r, b) = {} /\ (slot[r][s].key = NoBlock \/ IsEvictable(r, s))
  <2>1. \A t \in Slots : slot[r][t].key # b
    BY <1>7 DEF SlotOf
  <2>2. slot[r][s].ref = 0 /\ slot[r][s].dirty = {} /\ slot[r][s].wbe # wbEpoch[r]
    <3>1. CASE slot[r][s].key = NoBlock
      <4>1. slot[r][s] = EmptySlot /\ wbEpoch[r] # 0
        BY <1>1, <1>2, <3>1 DEF KeysInv, TypeOK
      <4>2. QED
        BY <4>1 DEF EmptySlot
    <3>2. CASE IsEvictable(r, s)
      BY <3>2 DEF IsEvictable, IsWritingBack
    <3>3. QED
      BY <1>7, <3>1, <3>2
  <2>3. Users(r, slot[r][s].key) = {}
    <3>1. Cardinality(Users(r, slot[r][s].key)) = 0
      BY <1>1, <1>2, <2>2 DEF RefsInv
    <3>2. QED
      BY <1>1, <3>1, UsersFinite, FS_EmptySet
  <2>4. ~HeldBlock(r, b) /\ \A q \in out[r] : ~Has(q, b)
    BY <1>1, <2>1 DEF RefsInv, HeldBlock, Has
  <2>5. Users(r, b) = {}
    BY <2>4 DEF Users
  <2>6. \A x \in Regions : <<s, x>> \notin puts[r]
    BY <1>1, <1>2, <2>2 DEF WritebackInv
  <2>7. \A x \in Regions : <<s, x>> \notin gets[r]
    BY <1>1, <1>2, <1>3, <2>3 DEF GetsInv
  <2>8. slot[r][s].ref = Cardinality(Users(r, b))
    BY <2>2, <2>5, FS_EmptySet
  <2>9. \A q \in out[r], x \in Regions : <<b, x>> \notin LocsOf(q.blks)
    BY <1>4, <2>4
  <2>10. QED
    BY <2>1, <2>2, <2>3, <2>6, <2>7, <2>8, <2>9
<1>8. QED
  BY <1>6, <1>7 DEF PinsBlock

\* The part that has been pinned is held, by the current request, besides the
\* parts that were.
LEMMA PinHolds ==
  ASSUME TypeOK, setup' = setup, NEW r \in Ranks, RankInv(r), NEW s, NEW b, NEW X, NEW V, NEW F,
         PinsBlock(r, s, b, X, V, F)
  PROVE  /\ CheckingOut(r) /\ CheckingOut(r)' /\ ~CheckingIn(r) /\ ~CheckingIn(r)'
         /\ Done(r)' = Done(r) + 1
         /\ HeldNow(r)' = HeldNow(r) \cup {Done(r) + 1}
         /\ req[r].blks[Done(r) + 1][1] = b /\ req[r].blks[Done(r) + 1][2] = X
         /\ \A c : HeldBlock(r, c)' <=> (HeldBlock(r, c) \/ c = b)
         /\ \A c : c # b => Users(r, c)' = Users(r, c)
         /\ Cardinality(Users(r, b)') = Cardinality(Users(r, b)) + 1
         /\ ControlInv(r)'
<1>0. Ranks' = Ranks /\ Blocks' = Blocks /\ Regions' = Regions /\ Slots' = Slots /\ Requests' = Requests
  BY SameSetup
<1>1. /\ pc[r] = "checkout" /\ todo[r] # <<>> /\ todo[r][1][1] = b /\ todo[r][1][2] = X
      /\ todo'[r] = Tail(todo[r]) /\ (then'[r] = then[r] \/ then'[r] = "idle")
      /\ pc' = pc /\ req' = req /\ out' = out
  BY DEF PinsBlock
<1>2. ControlInv(r)
  BY DEF RankInv
<1>3. CheckingOut(r) /\ CheckingOut(r)' /\ ~CheckingIn(r) /\ ~CheckingIn(r)'
  BY <1>1 DEF CheckingOut, CheckingIn
<1>4. /\ Done(r) \in Nat /\ Done(r) + 1 \in 1..Len(req[r].blks)
      /\ DOMAIN req[r].blks = 1..Len(req[r].blks) /\ Len(req[r].blks) \in Nat
      /\ req[r].blks[Done(r) + 1] = todo[r][1]
      /\ \A i, j \in DOMAIN req[r].blks : req[r].blks[i][1] = req[r].blks[j][1] => i = j
  BY <1>1, <1>3, PartInRequest
<1>5. /\ Len(todo'[r]) = Len(todo[r]) - 1 /\ Len(todo[r]) \in Nat /\ Len(todo[r]) > 0
      /\ \A i \in 1..(Len(todo[r]) - 1) : todo'[r][i] = todo[r][i + 1]
  <2>1. Len(todo[r]) \in Nat
    BY DEF TypeOK
  <2>2. QED
    BY <1>1, <2>1, NextPart
<1>6. Done(r)' = Done(r) + 1
  <2>1. Done(r) = Len(req[r].blks) - Len(todo[r]) /\ Done(r)' = Len(req[r].blks) - Len(todo'[r])
    BY <1>1 DEF Done
  <2>2. QED
    BY <1>4, <1>5, <2>1
<1>7. HeldNow(r)' = HeldNow(r) \cup {Done(r) + 1} /\ Done(r) + 1 \notin HeldNow(r)
  BY <1>1, <1>3, <1>4, <1>6 DEF HeldNow
<1>8. req[r].blks[Done(r) + 1][1] = b /\ req[r].blks[Done(r) + 1][2] = X
  BY <1>1, <1>4
<1>9. ~HeldBlock(r, b) /\ \A c : HeldBlock(r, c)' <=> (HeldBlock(r, c) \/ c = b)
  BY <1>1, <1>4, <1>7, <1>8 DEF HeldBlock, HeldNow
<1>10. req[r] \notin out[r]
  BY <1>2, <1>3 DEF ControlInv
<1>11. \A c : c # b => Users(r, c)' = Users(r, c)
  BY <1>1, <1>9 DEF Users
<1>12. Users(r, b)' = Users(r, b) \cup {req[r]} /\ req[r] \notin Users(r, b)
  BY <1>1, <1>9, <1>10 DEF Users
<1>13. Cardinality(Users(r, b)') = Cardinality(Users(r, b)) + 1
  BY <1>2, <1>12, UsersFinite, FS_AddElement
<1>14. ControlInv(r)'
  <2>1. \A i \in 1..Len(todo'[r]) : todo'[r][i] = req'[r].blks[Done(r)' + i]
    <3>1. ASSUME NEW i \in 1..Len(todo'[r])
          PROVE  todo'[r][i] = req'[r].blks[Done(r)' + i]
      <4>1. i \in 1..(Len(todo[r]) - 1) /\ i + 1 \in 1..Len(todo[r]) /\ i \in Int
        BY <1>5
      <4>2. todo[r][i + 1] = req[r].blks[Done(r) + (i + 1)]
        BY <1>2, <1>3, <4>1 DEF ControlInv
      <4>3. Done(r) + (i + 1) = Done(r)' + i
        BY <1>4, <1>6, <4>1
      <4>4. QED
        BY <1>1, <1>5, <4>1, <4>2, <4>3
    <3>2. QED
      BY <3>1
  <2>2. Len(todo'[r]) <= Len(req'[r].blks)
    <3>1. Len(todo[r]) <= Len(req[r].blks)
      BY <1>2, <1>3 DEF ControlInv
    <3>2. QED
      BY <1>1, <1>4, <1>5, <3>1
  <2>3. QED
    BY <1>0, <1>1, <1>2, <1>3, <2>1, <2>2 DEF ControlInv
<1>15. QED
  BY <1>3, <1>6, <1>7, <1>8, <1>9, <1>11, <1>13, <1>14

\* Pinning a block keeps what does not depend on how it is found and mapped.
LEMMA PinKeeps ==
  ASSUME TypeOK, setup' = setup, NEW r \in Ranks, RankInv(r), NEW s, NEW b, NEW X, NEW V, NEW F,
         PinsBlock(r, s, b, X, V, F)
  PROVE  ControlInv(r)' /\ RefsInv(r)' /\ WritebackInv(r)' /\ GetsInv(r)' /\ DeadInv(r)'
<1>0. Ranks' = Ranks /\ Blocks' = Blocks /\ Regions' = Regions /\ Slots' = Slots /\ Requests' = Requests
  BY SameSetup
<1>1. /\ HeldNow(r)' = HeldNow(r) \cup {Done(r) + 1}
      /\ req[r].blks[Done(r) + 1][1] = b /\ req[r].blks[Done(r) + 1][2] = X
      /\ \A c : HeldBlock(r, c)' <=> (HeldBlock(r, c) \/ c = b)
      /\ \A c : c # b => Users(r, c)' = Users(r, c)
      /\ Cardinality(Users(r, b)') = Cardinality(Users(r, b)) + 1
      /\ ControlInv(r)'
  BY PinHolds
<1>2. /\ \A t \in Slots : t # s => slot[r][t].key # b
      /\ Users(r, slot[r][s].key) # {} => slot[r][s].key = b /\ V = slot[r][s].valid
      /\ slot[r][s].dirty \subseteq V
      /\ \A x \in Regions : <<s, x>> \in puts[r] => x \in V
      /\ \A x \in Regions : <<s, x>> \in gets[r] => x \in V /\ slot[r][s].key = b
      /\ slot[r][s].ref = Cardinality(Users(r, b))
      /\ \A q \in out[r], x \in Regions : <<b, x>> \in LocsOf(q.blks) => x \in V
  BY PinFacts
<1>3. /\ s \in Slots /\ b \in Blocks /\ X \subseteq Regions /\ V \subseteq Regions /\ F \subseteq Regions
      /\ \A t \in Slots : t # s => slot'[r][t] = slot[r][t]
      /\ slot'[r][s].key = b /\ slot'[r][s].ref = slot[r][s].ref + 1
      /\ slot'[r][s].wbe = slot[r][s].wbe /\ slot'[r][s].dirty = slot[r][s].dirty
      /\ slot'[r][s].valid = V \cup X \cup F
      /\ F \cap V = {}
  BY DEF PinsBlock
<1>4. /\ pc[r] = "checkout" /\ (then'[r] = then[r] \/ then'[r] = "idle")
      /\ pc' = pc /\ req' = req /\ out' = out /\ puts' = puts /\ wins' = wins
      /\ dirtyList' = dirtyList /\ hasDirty' = hasDirty /\ wbEpoch' = wbEpoch
  BY DEF PinsBlock
<1>5. RefsInv(r) /\ WritebackInv(r) /\ GetsInv(r)
  BY DEF RankInv
<1>6. RefsInv(r)'
  <2>1. ASSUME NEW t \in Slots
        PROVE  (slot[r][t].ref = Cardinality(Users(r, slot[r][t].key)))'
    <3>1. CASE t = s
      <4>1. Cardinality(Users(r, slot[r][s].key))' = Cardinality(Users(r, b)')
        BY <1>3
      <4>2. QED
        BY <1>1, <1>2, <1>3, <3>1, <4>1
    <3>2. CASE t # s
      <4>1. slot[r][t].ref = Cardinality(Users(r, slot[r][t].key))
        BY <1>5 DEF RefsInv
      <4>2. QED
        BY <1>1, <1>2, <1>3, <3>2, <4>1
    <3>3. QED
      BY <3>1, <3>2
  <2>2. ASSUME NEW t \in Slots, NEW Y, Users(r, slot[r][t].key) # {}, Y \subseteq slot[r][t].valid
        PROVE  slot'[r][t].key = slot[r][t].key /\ Y \subseteq slot'[r][t].valid
    <3>1. CASE t = s
      BY <1>2, <1>3, <2>2, <3>1
    <3>2. CASE t # s
      BY <1>3, <2>2, <3>2
    <3>3. QED
      BY <3>1, <3>2
  <2>3. ASSUME NEW q \in out[r], NEW i \in DOMAIN q.blks
        PROVE  \E t \in Slots : slot'[r][t].key = q.blks[i][1] /\ q.blks[i][2] \subseteq slot'[r][t].valid
    <3>1. PICK t \in Slots : slot[r][t].key = q.blks[i][1] /\ q.blks[i][2] \subseteq slot[r][t].valid
      BY <1>5 DEF RefsInv
    <3>2. q \in Users(r, slot[r][t].key)
      BY <3>1 DEF Users, Has
    <3>3. QED
      BY <2>2, <3>1, <3>2
  <2>4. ASSUME NEW i \in HeldNow(r)
        PROVE  \E t \in Slots : slot'[r][t].key = req[r].blks[i][1] /\ req[r].blks[i][2] \subseteq slot'[r][t].valid
    <3>1. PICK t \in Slots : slot[r][t].key = req[r].blks[i][1] /\ req[r].blks[i][2] \subseteq slot[r][t].valid
      BY <1>5 DEF RefsInv
    <3>2. req[r] \in Users(r, slot[r][t].key)
      BY <3>1 DEF Users, HeldBlock
    <3>3. QED
      BY <2>2, <3>1, <3>2
  <2>5. slot'[r][s].key = req[r].blks[Done(r) + 1][1] /\ req[r].blks[Done(r) + 1][2] \subseteq slot'[r][s].valid
    BY <1>1, <1>3
  <2>6. \A i \in HeldNow(r)' : \E t \in Slots :
          slot'[r][t].key = req[r].blks[i][1] /\ req[r].blks[i][2] \subseteq slot'[r][t].valid
    BY <1>1, <1>3, <2>4, <2>5
  <2>7. QED
    BY <1>0, <1>4, <2>1, <2>3, <2>6 DEF RefsInv
<1>7. WritebackInv(r)'
  <2>1. ASSUME NEW t \in Slots
        PROVE  /\ slot'[r][t].dirty = slot[r][t].dirty /\ slot'[r][t].wbe = slot[r][t].wbe
               /\ slot'[r][t].dirty \subseteq slot'[r][t].valid
               /\ \A x \in Regions : <<t, x>> \in puts[r] => x \in slot'[r][t].valid
    <3>1. CASE t = s
      BY <1>2, <1>3, <3>1
    <3>2. CASE t # s
      BY <1>3, <1>5, <3>2 DEF WritebackInv
    <3>3. QED
      BY <3>1, <3>2
  <2>2. QED
    BY <1>0, <1>4, <1>5, <2>1 DEF WritebackInv
<1>8. GetsInv(r)'
  <2>1. ASSUME NEW t \in Slots, NEW x \in Regions, <<t, x>> \in gets'[r]
        PROVE  (/\ HeldBlock(r, slot[r][t].key)
                /\ x \in slot[r][t].valid /\ x \notin slot[r][t].dirty
                /\ <<t, x>> \notin puts[r]
                /\ \A q \in out[r] : <<slot[r][t].key, x>> \notin LocsOf(q.blks))'
    <3>1. <<t, x>> \in gets[r] \/ (t = s /\ x \in F)
      BY <2>1 DEF PinsBlock
    <3>2. CASE t = s /\ x \in F
      <4>1. x \notin V
        BY <1>3, <3>2
      <4>2. HeldBlock(r, slot[r][t].key)'
        BY <1>1, <1>3, <3>2
      <4>3. QED
        BY <1>2, <1>3, <1>4, <3>2, <4>1, <4>2
    <3>3. CASE <<t, x>> \in gets[r]
      <4>1. /\ HeldBlock(r, slot[r][t].key)
            /\ x \in slot[r][t].valid /\ x \notin slot[r][t].dirty
            /\ <<t, x>> \notin puts[r]
            /\ \A q \in out[r] : <<slot[r][t].key, x>> \notin LocsOf(q.blks)
        BY <1>5, <3>3 DEF GetsInv
      <4>2. slot'[r][t].key = slot[r][t].key /\ x \in slot'[r][t].valid /\ slot'[r][t].dirty = slot[r][t].dirty
        BY <1>2, <1>3, <3>3, <4>1
      <4>3. HeldBlock(r, slot[r][t].key)'
        BY <1>1, <4>1, <4>2
      <4>4. QED
        BY <1>4, <4>1, <4>2, <4>3
    <3>4. QED
      BY <3>1, <3>2, <3>3
  <2>2. QED
    BY <1>0, <2>1 DEF GetsInv
<1>9. DeadInv(r)'
  BY <1>4 DEF DeadInv
<1>10. QED
  BY <1>1, <1>6, <1>7, <1>8, <1>9

\* What Pin does to slot s, with F for what it fetches.
PinEffect(r, s, X, mode, c, F) ==
  /\ F \subseteq Regions
  /\ F \cap c.valid = {}
  /\ mode = "write" \/ X \subseteq c.valid \cup F
  /\ gets'[r] = gets[r] \cup ({s} \X F)
  /\ \A t \in Slots : t # s => slot'[r][t] = slot[r][t]
  /\ slot'[r][s].key = c.key /\ slot'[r][s].addr = c.addr /\ slot'[r][s].mapped = c.mapped
  /\ slot'[r][s].ref = c.ref + 1
  /\ slot'[r][s].wbe = c.wbe /\ slot'[r][s].dirty = c.dirty
  /\ slot'[r][s].valid = c.valid \cup X \cup F

\* Pin has this effect.
LEMMA PinIs ==
  ASSUME TypeOK, NEW r \in Ranks, NEW s \in Slots, NEW X \in SUBSET Regions,
         NEW mode \in Modes, NEW c \in SlotType, Pin(r, s, X, mode, c)
  PROVE  \E F : PinEffect(r, s, X, mode, c, F)
<1> DEFINE F == IF mode = "write" THEN {} ELSE FetchRegions(c, X)
           n == [c EXCEPT !.valid = @ \cup X \cup F, !.ref = @ + 1]
<1>1. F \in SUBSET Regions /\ F \cap c.valid = {} /\ (mode = "write" \/ X \subseteq c.valid \cup F)
  BY FetchType DEF TypeOK
<1>2. slot' = [slot EXCEPT ![r][s] = n] /\ gets' = [gets EXCEPT ![r] = @ \cup ({s} \X F)]
  BY DEF Pin
<1> HIDE DEF F
<1>3. /\ n.key = c.key /\ n.addr = c.addr /\ n.mapped = c.mapped /\ n.ref = c.ref + 1
      /\ n.wbe = c.wbe /\ n.dirty = c.dirty /\ n.valid = c.valid \cup X \cup F
  BY DEF SlotType
<1> HIDE DEF n
<1>4. slot'[r][s] = n /\ \A t \in Slots : t # s => slot'[r][t] = slot[r][t]
  BY <1>2, OneSlot
<1>5. gets'[r] = gets[r] \cup ({s} \X F)
  BY <1>2 DEF TypeOK
<1>6. PinEffect(r, s, X, mode, c, F)
  BY <1>1, <1>3, <1>4, <1>5 DEF PinEffect
<1>7. QED
  BY <1>6

\* checkout_fast pins the block that the TLB has found.
LEMMA FastPins ==
  ASSUME TypeOK, NEW r \in Ranks, RankInv(r), CheckoutFast(r)
  PROVE  /\ \E s, b, X, V, F : PinsBlock(r, s, b, X, V, F) /\ slot[r][s].key = b
         /\ lru' = lru /\ tlb' = tlb /\ toMap' = toMap
<1> USE DEF cacheVars, rmaVars, wbVars, ctlVars, userVars
<1>1. PICK b, X : b = todo[r][1][1] /\ X = todo[r][1][2]
  OBVIOUS
<1>2. PICK s \in TlbGet(r, b) : Pin(r, s, X, req[r].mode, slot[r][s])
  BY <1>1 DEF CheckoutFast
<1>3. b \in Blocks /\ X \in SUBSET Regions /\ pc[r] = "checkout" /\ todo[r] # <<>>
  BY <1>1, NextPart DEF CheckoutFast
<1>4. s \in Slots /\ slot[r][s].key = b
  BY <1>3 DEF TlbGet, RankInv, KeysInv
<1>5. slot[r][s] \in SlotType /\ req[r].mode \in Modes
  BY <1>4 DEF TypeOK, RequestType
<1>6. PICK F : PinEffect(r, s, X, req[r].mode, slot[r][s], F)
  BY <1>2, <1>3, <1>4, <1>5, PinIs
<1>7. slot[r][s].addr = b /\ slot[r][s].valid \subseteq Regions
  <2>1. NoBlock \notin Blocks
    BY SetupFacts DEF TypeOK
  <2>2. QED
    BY <1>3, <1>4, <1>5, <2>1 DEF RankInv, KeysInv, SlotType
<1>8. todo'[r] = Tail(todo[r])
  BY DEF CheckoutFast, TypeOK
<1>9. /\ then' = then /\ pc' = pc /\ req' = req /\ out' = out /\ vm' = vm /\ data' = data
      /\ memory' = memory /\ puts' = puts /\ wins' = wins /\ dirtyList' = dirtyList
      /\ hasDirty' = hasDirty /\ wbEpoch' = wbEpoch /\ epoch' = epoch /\ perm' = perm
      /\ latest' = latest /\ lru' = lru /\ tlb' = tlb /\ toMap' = toMap
  BY DEF CheckoutFast
<1>10. PinsBlock(r, s, b, X, slot[r][s].valid, F)
  BY <1>1, <1>3, <1>4, <1>6, <1>7, <1>8, <1>9 DEF PinsBlock, PinEffect
<1>11. QED
  BY <1>4, <1>9, <1>10

\* A block that is found and has no part done yet is mapped where it belongs.
LEMMA HitIsMapped ==
  ASSUME TypeOK, NEW r \in Ranks, RankInv(r), pc[r] = "checkout", todo[r] # <<>>,
         NEW s \in Slots, slot[r][s].key = todo[r][1][1]
  PROVE  slot[r][s].mapped = slot[r][s].key /\ slot[r][s].addr = slot[r][s].key
<1>1. slot[r][s].key # NoBlock
  <2>1. NoBlock \notin Blocks
    BY SetupFacts DEF TypeOK
  <2>2. QED
    BY <2>1, NextPart
<1>2. KeysInv(r) /\ MapInv(r)
  BY DEF RankInv
<1>3. slot[r][s].addr = slot[r][s].key
  BY <1>1, <1>2 DEF KeysInv
<1>4. CheckingOut(r) /\ ~CheckingIn(r)
  BY DEF CheckingOut, CheckingIn
<1>5. ~HeldBlock(r, slot[r][s].key)
  <2>1. /\ Done(r) \in Nat /\ Done(r) + 1 \in 1..Len(req[r].blks)
        /\ DOMAIN req[r].blks = 1..Len(req[r].blks)
        /\ req[r].blks[Done(r) + 1] = todo[r][1]
        /\ \A i, j \in DOMAIN req[r].blks : req[r].blks[i][1] = req[r].blks[j][1] => i = j
    BY <1>4, PartInRequest
  <2>2. ASSUME NEW i \in HeldNow(r), req[r].blks[i][1] = slot[r][s].key
        PROVE  FALSE
    <3>1. i \in DOMAIN req[r].blks /\ i <= Done(r)
      BY <1>4 DEF HeldNow
    <3>2. i = Done(r) + 1
      BY <2>1, <2>2, <3>1
    <3>3. QED
      BY <2>1, <3>1, <3>2
  <2>3. QED
    BY <2>2 DEF HeldBlock
<1>6. \A i \in DOMAIN toMap[r] : toMap[r][i] # s
  BY <1>2, <1>5 DEF MapInv
<1>7. slot[r][s].addr = slot[r][s].mapped
  BY <1>2, <1>6 DEF MapInv
<1>8. QED
  BY <1>3, <1>7

\* checkout_blk of a cached block pins it, and has nothing to map.
LEMMA HitPins ==
  ASSUME TypeOK, NEW r \in Ranks, RankInv(r), CheckoutHit(r)
  PROVE  /\ toMap' = toMap
         /\ \E s, b, X, V, F :
              /\ PinsBlock(r, s, b, X, V, F) /\ slot[r][s].key = b
              /\ lru'[r] = ToBack(s, lru[r]) /\ tlb'[r] = tlb[r] \cup {<<b, s>>}
<1> USE DEF cacheVars, rmaVars, wbVars, ctlVars, userVars
<1>1. PICK b, X : b = todo[r][1][1] /\ X = todo[r][1][2]
  OBVIOUS
<1>2. PICK s \in SlotOf(r, b) :
        /\ Attach(r, s, b, X, req[r].mode, slot[r][s])
        /\ tlb' = [tlb EXCEPT ![r] = @ \cup {<<b, s>>}]
  BY <1>1 DEF CheckoutHit
<1>3. b \in Blocks /\ X \in SUBSET Regions /\ pc[r] = "checkout" /\ todo[r] # <<>>
  BY <1>1, NextPart DEF CheckoutHit
<1>4. s \in Slots /\ slot[r][s].key = b
  BY DEF SlotOf
<1>5. slot[r][s] \in SlotType /\ req[r].mode \in Modes
  BY <1>4 DEF TypeOK, RequestType
<1>6. slot[r][s].mapped = b /\ slot[r][s].addr = b /\ slot[r][s].valid \subseteq Regions
  <2>1. slot[r][s].mapped = b /\ slot[r][s].addr = b
    BY <1>1, <1>3, <1>4, HitIsMapped
  <2>2. QED
    BY <2>1, <1>5 DEF SlotType
<1>7. [slot[r][s] EXCEPT !.key = b, !.addr = IF b # slot[r][s].mapped THEN b ELSE @] = slot[r][s]
  BY <1>4, <1>5, <1>6 DEF SlotType
<1>8. Pin(r, s, X, req[r].mode, slot[r][s]) /\ toMap' = toMap
  BY <1>2, <1>6, <1>7 DEF Attach
<1>9. PICK F : PinEffect(r, s, X, req[r].mode, slot[r][s], F)
  BY <1>3, <1>4, <1>5, <1>8, PinIs
<1>10. /\ todo'[r] = Tail(todo[r]) /\ then'[r] = "idle" /\ lru'[r] = ToBack(s, lru[r])
       /\ tlb'[r] = tlb[r] \cup {<<b, s>>}
  BY <1>2 DEF Attach, TypeOK
<1>11. /\ pc' = pc /\ req' = req /\ out' = out /\ vm' = vm /\ data' = data
       /\ memory' = memory /\ puts' = puts /\ wins' = wins /\ dirtyList' = dirtyList
       /\ hasDirty' = hasDirty /\ wbEpoch' = wbEpoch /\ epoch' = epoch /\ perm' = perm
       /\ latest' = latest
  BY <1>2 DEF Attach
<1>12. PinsBlock(r, s, b, X, slot[r][s].valid, F)
  BY <1>1, <1>3, <1>4, <1>6, <1>9, <1>10, <1>11 DEF PinsBlock, PinEffect
<1>13. QED
  BY <1>4, <1>8, <1>10, <1>12

\* A slot that get_empty_slot may return is in nobody's use, and not queued.
LEMMA MissSlot ==
  ASSUME TypeOK, NEW r \in Ranks, RankInv(r), NEW s \in Slots,
         slot[r][s].key = NoBlock \/ IsEvictable(r, s)
  PROVE  /\ Users(r, slot[r][s].key) = {}
         /\ \A i \in DOMAIN toMap[r] : toMap[r][i] # s
         /\ slot[r][s].addr = slot[r][s].mapped
<1>1. ControlInv(r) /\ KeysInv(r) /\ RefsInv(r) /\ MapInv(r)
  BY DEF RankInv
<1>2. slot[r][s].ref = 0
  BY <1>1 DEF KeysInv, EmptySlot, IsEvictable
<1>3. Cardinality(Users(r, slot[r][s].key)) = 0
  BY <1>1, <1>2 DEF RefsInv
<1>4. Users(r, slot[r][s].key) = {}
  BY <1>1, <1>3, UsersFinite, FS_EmptySet
<1>5. ~HeldBlock(r, slot[r][s].key)
  BY <1>4 DEF Users
<1>6. \A i \in DOMAIN toMap[r] : toMap[r][i] # s
  BY <1>1, <1>5 DEF MapInv
<1>7. QED
  BY <1>1, <1>4, <1>6 DEF MapInv

\* No slot without a block has the address of one.
LEMMA AddrIsKey ==
  ASSUME TypeOK, NEW r \in Ranks, RankInv(r), NEW s \in Slots, NEW b \in Blocks,
         slot[r][s].addr = b
  PROVE  slot[r][s].key = b
<1>1. NoBlock \notin Blocks
  BY SetupFacts DEF TypeOK
<1>2. QED
  BY <1>1 DEF RankInv, KeysInv, EmptySlot

\* checkout_blk of a block that is not cached takes a slot for it, which is mapped
\* elsewhere.
LEMMA MissPins ==
  ASSUME TypeOK, NEW r \in Ranks, RankInv(r), CheckoutMiss(r)
  PROVE  \E s, b, X, V, F :
           /\ PinsBlock(r, s, b, X, V, F)
           /\ SlotOf(r, b) = {} /\ (slot[r][s].key = NoBlock \/ IsEvictable(r, s))
           /\ toMap'[r] = Append(toMap[r], s)
           /\ lru'[r] = ToBack(s, lru[r])
           /\ tlb'[r] = (IF slot[r][s].key = NoBlock THEN tlb[r] ELSE {}) \cup {<<b, s>>}
<1> USE DEF cacheVars, rmaVars, wbVars, ctlVars, userVars
<1>1. PICK b, X, s, c : /\ b = todo[r][1][1] /\ X = todo[r][1][2] /\ s = FirstEmpty(r)
                        /\ c = [slot[r][s] EXCEPT !.valid = {}]
  OBVIOUS
<1>2. /\ SlotOf(r, b) = {} /\ EmptySlots(r) # {}
      /\ Attach(r, s, b, X, req[r].mode, c)
      /\ tlb' = [tlb EXCEPT ![r] = (IF slot[r][s].key = NoBlock THEN @ ELSE {}) \cup {<<b, s>>}]
  BY <1>1 DEF CheckoutMiss
<1>3. b \in Blocks /\ X \in SUBSET Regions /\ pc[r] = "checkout" /\ todo[r] # <<>>
  BY <1>1, NextPart DEF CheckoutMiss
<1>4. s \in Slots /\ (slot[r][s].key = NoBlock \/ IsEvictable(r, s))
  BY <1>1, <1>2, FirstEmptyIs
<1>5. slot[r][s] \in SlotType /\ req[r].mode \in Modes
  BY <1>4 DEF TypeOK, RequestType
<1>6. slot[r][s].mapped # b
  <2>1. slot[r][s].addr = slot[r][s].mapped
    BY <1>4, MissSlot
  <2>2. slot[r][s].key # b
    BY <1>2, <1>4 DEF SlotOf
  <2>3. QED
    BY <1>3, <1>4, <2>1, <2>2, AddrIsKey
<1>7. /\ c \in SlotType /\ c.mapped = slot[r][s].mapped /\ c.valid = {} /\ c.ref = slot[r][s].ref
      /\ c.wbe = slot[r][s].wbe /\ c.dirty = slot[r][s].dirty
  BY <1>1, <1>5, EvictedType DEF SlotType
<1>8. PICK d : d = [c EXCEPT !.key = b, !.addr = IF b # c.mapped THEN b ELSE @]
  OBVIOUS
<1>9. d = [c EXCEPT !.key = b, !.addr = b]
  BY <1>6, <1>7, <1>8
<1>10. b \in Keys
  BY <1>3 DEF Keys
<1>11. /\ d \in SlotType /\ d.key = b /\ d.addr = b /\ d.mapped = slot[r][s].mapped /\ d.valid = {}
       /\ d.ref = slot[r][s].ref /\ d.wbe = slot[r][s].wbe /\ d.dirty = slot[r][s].dirty
  BY <1>7, <1>9, <1>10 DEF SlotType
<1>12. Pin(r, s, X, req[r].mode, d) /\ toMap' = [toMap EXCEPT ![r] = Append(@, s)]
  BY <1>2, <1>6, <1>7, <1>8 DEF Attach
<1>13. PICK F : PinEffect(r, s, X, req[r].mode, d, F)
  BY <1>3, <1>4, <1>5, <1>11, <1>12, PinIs
<1>14. /\ todo'[r] = Tail(todo[r]) /\ then'[r] = "idle" /\ lru'[r] = ToBack(s, lru[r])
       /\ tlb'[r] = (IF slot[r][s].key = NoBlock THEN tlb[r] ELSE {}) \cup {<<b, s>>}
       /\ toMap'[r] = Append(toMap[r], s)
  BY <1>2, <1>12 DEF Attach, TypeOK
<1>15. /\ pc' = pc /\ req' = req /\ out' = out /\ vm' = vm /\ data' = data
       /\ memory' = memory /\ puts' = puts /\ wins' = wins /\ dirtyList' = dirtyList
       /\ hasDirty' = hasDirty /\ wbEpoch' = wbEpoch /\ epoch' = epoch /\ perm' = perm
       /\ latest' = latest
  BY <1>2 DEF Attach
<1>16. PinsBlock(r, s, b, X, {}, F)
  BY <1>1, <1>2, <1>3, <1>4, <1>11, <1>13, <1>14, <1>15 DEF PinsBlock, PinEffect
<1>17. QED
  BY <1>2, <1>4, <1>14, <1>16

\* move_to_back_lru loses no slot.
LEMMA ToBackOnto ==
  ASSUME NSlots \in Nat \ {0}, NEW s \in Slots, NEW seq \in [Slots -> Slots],
         \A t \in Slots : \E i \in Slots : seq[i] = t, NEW t \in Slots
  PROVE  \E i \in Slots : ToBack(s, seq)[i] = t
<1>0. Slots = 1..NSlots
  BY DEF Slots
<1>1. Len(seq) = NSlots /\ seq \in Seq(Slots) /\ Slots = 1..NSlots
  BY <1>0, LruIsSeq
<1> DEFINE k == CHOOSE i \in 1..Len(seq) : seq[i] = s
<1>2. k \in 1..NSlots /\ seq[k] = s
  BY <1>1
<1>3. ToBack(s, seq) = [i \in 1..Len(seq) |-> IF i < k THEN seq[i]
                                               ELSE IF i < Len(seq) THEN seq[i + 1] ELSE s]
  BY DEF ToBack
<1> HIDE DEF k
<1>4. CASE t = s
  <2>1. ToBack(s, seq)[NSlots] = s /\ NSlots \in Slots
    BY <1>1, <1>2, <1>3
  <2>2. QED
    BY <1>4, <2>1
<1>5. CASE t # s
  <2>1. PICK j \in Slots : seq[j] = t
    OBVIOUS
  <2>2. j # k /\ j \in 1..NSlots
    BY <1>1, <1>2, <1>5, <2>1
  <2>3. CASE j < k
    BY <1>1, <1>3, <2>1, <2>2, <2>3
  <2>4. CASE j > k
    <3>1. j - 1 \in Slots /\ ~(j - 1 < k) /\ j - 1 < Len(seq) /\ (j - 1) + 1 = j
      BY <1>1, <1>2, <2>2, <2>4
    <3>2. ToBack(s, seq)[j - 1] = t
      BY <1>1, <1>3, <2>1, <3>1
    <3>3. QED
      BY <3>1, <3>2
  <2>5. QED
    BY <1>2, <2>2, <2>3, <2>4
<1>6. QED
  BY <1>4, <1>5

\* Pinning keeps keys unique and the TLB true.
LEMMA PinKeys ==
  ASSUME TypeOK, setup' = setup, NEW r \in Ranks, RankInv(r), NEW s, NEW b, NEW X, NEW V, NEW F,
         PinsBlock(r, s, b, X, V, F),
         lru'[r] = lru[r] \/ lru'[r] = ToBack(s, lru[r]),
         \A c \in Blocks, t \in Slots : <<c, t>> \in tlb'[r] =>
           (c = b /\ t = s) \/ (<<c, t>> \in tlb[r] /\ (t = s => slot[r][s].key = b))
  PROVE  KeysInv(r)'
<1>0. Ranks' = Ranks /\ Blocks' = Blocks /\ Regions' = Regions /\ Slots' = Slots
  BY SameSetup
<1>1. KeysInv(r) /\ NoBlock \notin Blocks /\ NSlots \in Nat \ {0} /\ lru[r] \in [Slots -> Slots]
  BY SetupFacts DEF RankInv, TypeOK
<1>2. \A t \in Slots : t # s => slot[r][t].key # b
  BY PinFacts
<1>3. /\ s \in Slots /\ b \in Blocks /\ b # NoBlock
      /\ \A t \in Slots : t # s => slot'[r][t] = slot[r][t]
      /\ slot'[r][s].key = b /\ slot'[r][s].addr = b
  BY <1>1 DEF PinsBlock
<1>4. (\A t, u \in Slots : slot[r][t].key = slot[r][u].key /\ slot[r][t].key # NoBlock => t = u)'
  BY <1>0, <1>1, <1>2, <1>3 DEF KeysInv
<1>5. (\A t \in Slots : slot[r][t].key # NoBlock => slot[r][t].addr = slot[r][t].key)'
  BY <1>0, <1>1, <1>3 DEF KeysInv
<1>6. (\A t \in Slots : slot[r][t].key = NoBlock => slot[r][t] = EmptySlot)'
  BY <1>0, <1>1, <1>3 DEF KeysInv, EmptySlot
<1>7. (\A c \in Blocks, t \in Slots : <<c, t>> \in tlb[r] => slot[r][t].key = c)'
  BY <1>0, <1>1, <1>3 DEF KeysInv
<1>8. \A t \in Slots : \E i \in Slots : lru'[r][i] = t
  <2>1. \A t \in Slots : \E i \in Slots : lru[r][i] = t
    BY <1>1 DEF KeysInv
  <2>2. CASE lru'[r] = lru[r]
    BY <2>1, <2>2
  <2>3. CASE lru'[r] = ToBack(s, lru[r])
    <3>1. NSlots \in Nat \ {0} /\ s \in Slots /\ lru[r] \in [Slots -> Slots]
      BY <1>1, <1>3
    <3>2. PICK seq \in [Slots -> Slots] : seq = lru[r]
      BY <3>1
    <3>3. ASSUME NEW t \in Slots
          PROVE  \E i \in Slots : ToBack(s, seq)[i] = t
      <4>1. \A u \in Slots : \E i \in Slots : seq[i] = u
        BY <2>1, <3>2
      <4>2. QED
        BY <3>1, <4>1, ToBackOnto
    <3>4. QED
      BY <2>3, <3>2, <3>3
  <2>4. QED
    BY <2>2, <2>3
<1>9. QED
  BY <1>0, <1>4, <1>5, <1>6, <1>7, <1>8 DEF KeysInv

\* Pinning a cached block leaves the mapping as it is.
LEMMA HitMap ==
  ASSUME TypeOK, setup' = setup, NEW r \in Ranks, RankInv(r), NEW s, NEW b, NEW X, NEW V, NEW F,
         PinsBlock(r, s, b, X, V, F), slot[r][s].key = b, toMap' = toMap
  PROVE  MapInv(r)'
<1>0. Ranks' = Ranks /\ Blocks' = Blocks /\ Regions' = Regions /\ Slots' = Slots
  BY SameSetup
<1>1. MapInv(r) /\ KeysInv(r)
  BY DEF RankInv
<1>2. \A c : HeldBlock(r, c) => HeldBlock(r, c)'
  BY PinHolds
<1>3. \A i \in DOMAIN toMap[r] : toMap[r][i] \in Slots
  BY DEF TypeOK
<1>4. slot[r][s].addr = b /\ vm' = vm /\ out' = out
  <2>1. NoBlock \notin Blocks
    BY SetupFacts DEF TypeOK
  <2>2. QED
    BY <1>1, <2>1 DEF KeysInv, PinsBlock
<1>5. \A t \in Slots : /\ slot'[r][t].key = slot[r][t].key /\ slot'[r][t].addr = slot[r][t].addr
                       /\ slot'[r][t].mapped = slot[r][t].mapped
  BY <1>4 DEF PinsBlock
<1>6. (\A c \in Blocks, t \in Slots : vm[r][c] = t <=> slot[r][t].mapped = c)'
  BY <1>0, <1>1, <1>4, <1>5 DEF MapInv
<1>7. (\A t \in Slots : slot[r][t].addr # slot[r][t].mapped => \E i \in DOMAIN toMap[r] : toMap[r][i] = t)'
  BY <1>0, <1>1, <1>5 DEF MapInv
<1>8. ASSUME NEW i \in DOMAIN toMap[r]
      PROVE  (/\ HeldBlock(r, slot[r][toMap[r][i]].key)
              /\ \A q \in out[r] : ~Has(q, slot[r][toMap[r][i]].key)
              /\ \A t \in Slots : slot[r][t].mapped = slot[r][toMap[r][i]].addr /\ t # toMap[r][i] =>
                   \E j \in 1..(i - 1) : t = toMap[r][j])'
  <2>1. PICK u \in Slots : u = toMap[r][i]
    BY <1>3
  <2>2. /\ HeldBlock(r, slot[r][u].key)
        /\ \A q \in out[r] : ~Has(q, slot[r][u].key)
        /\ \A t \in Slots : slot[r][t].mapped = slot[r][u].addr /\ t # u =>
             \E j \in 1..(i - 1) : t = toMap[r][j]
    BY <1>1, <2>1 DEF MapInv
  <2>3. HeldBlock(r, slot[r][u].key)'
    BY <1>2, <1>5, <2>2
  <2>4. QED
    BY <1>0, <1>4, <1>5, <2>1, <2>2, <2>3
<1>9. QED
  BY <1>0, <1>1, <1>6, <1>7, <1>8 DEF MapInv

\* A checkout step that finds the block, in the TLB or in the cache.
LEMMA HitStep ==
  ASSUME TypeOK, setup' = setup, NEW r \in Ranks, RankInv(r), CheckoutFast(r) \/ CheckoutHit(r)
  PROVE  RankInv(r)'
<1>1. PICK s, b, X, V, F :
        /\ PinsBlock(r, s, b, X, V, F) /\ slot[r][s].key = b /\ toMap' = toMap
        /\ lru'[r] = lru[r] \/ lru'[r] = ToBack(s, lru[r])
        /\ tlb'[r] \subseteq tlb[r] \cup {<<b, s>>}
  <2>1. CASE CheckoutFast(r)
    BY <2>1, FastPins
  <2>2. CASE CheckoutHit(r)
    BY <2>2, HitPins
  <2>3. QED
    BY <2>1, <2>2
<1>2. \A c \in Blocks, t \in Slots : <<c, t>> \in tlb'[r] =>
        (c = b /\ t = s) \/ (<<c, t>> \in tlb[r] /\ (t = s => slot[r][s].key = b))
  BY <1>1
<1>3. KeysInv(r)'
  BY <1>1, <1>2, PinKeys
<1>4. MapInv(r)'
  BY <1>1, HitMap
<1>5. ControlInv(r)' /\ RefsInv(r)' /\ WritebackInv(r)' /\ GetsInv(r)' /\ DeadInv(r)'
  BY <1>1, PinKeeps
<1>6. QED
  BY <1>3, <1>4, <1>5 DEF RankInv

\* Giving a slot to a block that is not cached queues it for mapping, after the
\* slots it takes addresses from.
LEMMA MissMap ==
  ASSUME TypeOK, setup' = setup, NEW r \in Ranks, RankInv(r), NEW s, NEW b, NEW X, NEW V, NEW F,
         PinsBlock(r, s, b, X, V, F), SlotOf(r, b) = {},
         slot[r][s].key = NoBlock \/ IsEvictable(r, s),
         toMap'[r] = Append(toMap[r], s)
  PROVE  MapInv(r)'
<1>0. Ranks' = Ranks /\ Blocks' = Blocks /\ Regions' = Regions /\ Slots' = Slots
  BY SameSetup
<1>1. MapInv(r) /\ RefsInv(r)
  BY DEF RankInv
<1>2. \A c : HeldBlock(r, c)' <=> (HeldBlock(r, c) \/ c = b)
  BY PinHolds
<1>3. toMap[r] \in Seq(Slots)
  BY DEF TypeOK
<1>4. /\ s \in Slots /\ b \in Blocks /\ vm' = vm /\ out' = out
      /\ \A t \in Slots : t # s => slot'[r][t] = slot[r][t]
      /\ slot'[r][s].key = b /\ slot'[r][s].addr = b /\ slot'[r][s].mapped = slot[r][s].mapped
  BY DEF PinsBlock
<1>5. /\ \A i \in DOMAIN toMap[r] : toMap[r][i] # s
      /\ slot[r][s].addr = slot[r][s].mapped
  BY <1>4, MissSlot
<1>6. PICK n \in Nat : n = Len(toMap[r])
  BY <1>3
<1>7. /\ DOMAIN toMap[r] = 1..n /\ DOMAIN toMap'[r] = 1..(n + 1)
      /\ \A i \in 1..n : toMap'[r][i] = toMap[r][i] /\ toMap[r][i] \in Slots
      /\ toMap'[r][n + 1] = s
  BY <1>3, <1>4, <1>6
<1>8. \A t \in Slots : slot'[r][t].mapped = slot[r][t].mapped
  BY <1>4
<1>9. (\A c \in Blocks, t \in Slots : vm[r][c] = t <=> slot[r][t].mapped = c)'
  BY <1>0, <1>1, <1>4, <1>8 DEF MapInv
<1>10. ASSUME NEW t \in Slots, slot'[r][t].addr # slot'[r][t].mapped
       PROVE  \E i \in DOMAIN toMap'[r] : toMap'[r][i] = t
  <2>1. CASE t = s
    BY <1>7, <2>1
  <2>2. CASE t # s
    <3>1. \E i \in DOMAIN toMap[r] : toMap[r][i] = t
      BY <1>1, <1>4, <1>10, <2>2 DEF MapInv
    <3>2. QED
      BY <1>7, <3>1
  <2>3. QED
    BY <2>1, <2>2
<1>11. \A i, j \in DOMAIN toMap'[r] : toMap'[r][i] = toMap'[r][j] => i = j
  <2>1. \A i, j \in 1..n : toMap[r][i] = toMap[r][j] => i = j
    BY <1>1, <1>7 DEF MapInv
  <2>2. \A i \in 1..n : toMap[r][i] # s
    BY <1>5, <1>7
  <2>3. \A i \in 1..(n + 1) : i \in 1..n \/ i = n + 1
    OBVIOUS
  <2>4. QED
    BY <1>7, <2>1, <2>2, <2>3
<1>12. ASSUME NEW i \in DOMAIN toMap'[r]
       PROVE  (/\ HeldBlock(r, slot[r][toMap[r][i]].key)
               /\ \A q \in out[r] : ~Has(q, slot[r][toMap[r][i]].key)
               /\ \A t \in Slots : slot[r][t].mapped = slot[r][toMap[r][i]].addr /\ t # toMap[r][i] =>
                    \E j \in 1..(i - 1) : t = toMap[r][j])'
  <2>1. CASE i = n + 1
    <3>1. HeldBlock(r, b)'
      BY <1>2
    <3>2. \A q \in out[r] : ~Has(q, b)
      BY <1>1 DEF RefsInv, Has, SlotOf
    <3>3. ASSUME NEW t \in Slots, slot'[r][t].mapped = b, t # s
          PROVE  \E j \in 1..n : t = toMap'[r][j]
      <4>1. slot[r][t].mapped = b /\ slot[r][t].key # b
        BY <1>8, <3>3 DEF SlotOf
      <4>2. slot[r][t].addr # b
        BY <1>4, <4>1, AddrIsKey
      <4>3. \E j \in DOMAIN toMap[r] : toMap[r][j] = t
        BY <1>1, <4>1, <4>2 DEF MapInv
      <4>4. QED
        BY <1>7, <4>3
    <3>4. (n + 1) - 1 = n
      OBVIOUS
    <3>5. HeldBlock(r, slot[r][toMap[r][i]].key)'
      BY <1>4, <1>7, <2>1, <3>1
    <3>6. QED
      BY <1>0, <1>4, <1>7, <2>1, <3>2, <3>3, <3>4, <3>5
  <2>2. CASE i \in 1..n
    <3>1. PICK u \in Slots : u = toMap[r][i] /\ u = toMap'[r][i] /\ u # s
      BY <1>5, <1>7, <2>2
    <3>2. /\ HeldBlock(r, slot[r][u].key)
          /\ \A q \in out[r] : ~Has(q, slot[r][u].key)
          /\ \A t \in Slots : slot[r][t].mapped = slot[r][u].addr /\ t # u =>
               \E j \in 1..(i - 1) : t = toMap[r][j]
      BY <1>1, <1>7, <2>2, <3>1 DEF MapInv
    <3>3. slot'[r][u] = slot[r][u]
      BY <1>4, <3>1
    <3>4. HeldBlock(r, slot[r][toMap[r][i]].key)'
      BY <1>2, <3>1, <3>2, <3>3
    <3>5. \A j \in 1..(i - 1) : j \in 1..n
      BY <2>2
    <3>6. \A t \in Slots : slot'[r][t].mapped = slot'[r][u].addr /\ t # u =>
            \E j \in 1..(i - 1) : t = toMap'[r][j]
      BY <1>7, <1>8, <3>2, <3>3, <3>5
    <3>7. QED
      BY <1>0, <1>4, <3>1, <3>2, <3>3, <3>4, <3>6
  <2>3. QED
    BY <1>7, <2>1, <2>2
<1>13. QED
  BY <1>0, <1>9, <1>10, <1>11, <1>12 DEF MapInv

\* A checkout step that takes a slot for the block.
LEMMA MissStep ==
  ASSUME TypeOK, setup' = setup, NEW r \in Ranks, RankInv(r), CheckoutMiss(r)
  PROVE  RankInv(r)'
<1>1. PICK s, b, X, V, F :
        /\ PinsBlock(r, s, b, X, V, F)
        /\ SlotOf(r, b) = {} /\ (slot[r][s].key = NoBlock \/ IsEvictable(r, s))
        /\ toMap'[r] = Append(toMap[r], s)
        /\ lru'[r] = ToBack(s, lru[r])
        /\ tlb'[r] = (IF slot[r][s].key = NoBlock THEN tlb[r] ELSE {}) \cup {<<b, s>>}
  BY MissPins
<1>2. \A c \in Blocks, t \in Slots : <<c, t>> \in tlb'[r] =>
        (c = b /\ t = s) \/ (<<c, t>> \in tlb[r] /\ (t = s => slot[r][s].key = b))
  <2>1. ASSUME NEW c \in Blocks, slot[r][s].key = NoBlock
        PROVE  <<c, s>> \notin tlb[r]
    <3>1. NoBlock \notin Blocks /\ s \in Slots
      BY <1>1, SetupFacts DEF TypeOK, PinsBlock
    <3>2. QED
      BY <2>1, <3>1 DEF RankInv, KeysInv
  <2>2. QED
    BY <1>1, <2>1
<1>3. KeysInv(r)'
  BY <1>1, <1>2, PinKeys
<1>4. MapInv(r)'
  BY <1>1, MissMap
<1>5. ControlInv(r)' /\ RefsInv(r)' /\ WritebackInv(r)' /\ GetsInv(r)' /\ DeadInv(r)'
  BY <1>1, PinKeeps
<1>6. QED
  BY <1>3, <1>4, <1>5 DEF RankInv

-----------------------------------------------------------------------------
(* The invariant.                                                           *)

\* Nothing is cached, pinned or in flight at the start.
LEMMA InitInv ==
  ASSUME Init, NEW r \in Ranks
  PROVE  RankInv(r)
<1>0. setup \in DOMAIN Setups
  BY DEF Init
<1>1. NoBlock \notin Blocks /\ NSlots \in Nat \ {0}
  BY <1>0, SetupFacts
<1>2. /\ pc[r] = "idle" /\ then[r] = "idle" /\ todo[r] = <<>> /\ out[r] = {} /\ toMap[r] = <<>>
      /\ gets[r] = {} /\ puts[r] = {} /\ tlb[r] = {} /\ wbEpoch[r] = 1
      /\ \A s \in Slots : slot[r][s] = EmptySlot /\ lru[r][s] = s
      /\ \A b \in Blocks : vm[r][b] = NoSlot
  BY DEF Init
<1>3. ~CheckingOut(r) /\ ~CheckingIn(r)
  BY <1>2 DEF CheckingOut, CheckingIn
<1>4. HeldNow(r) = {}
  BY <1>3 DEF HeldNow
<1>5. \A b : Users(r, b) = {}
  BY <1>2, <1>4 DEF Users, HeldBlock
<1>6. ControlInv(r)
  BY <1>2, <1>3, FS_EmptySet DEF ControlInv
<1>7. KeysInv(r)
  <2>1. \A s \in Slots : slot[r][s].key = NoBlock
    BY <1>2 DEF EmptySlot
  <2>2. QED
    BY <1>2, <2>1 DEF KeysInv
<1>8. RefsInv(r)
  <2>1. \A s \in Slots : slot[r][s].ref = 0
    BY <1>2 DEF EmptySlot
  <2>2. \A s \in Slots : Cardinality(Users(r, slot[r][s].key)) = 0
    BY <1>5, FS_EmptySet
  <2>3. QED
    BY <1>2, <1>4, <2>1, <2>2 DEF RefsInv
<1>9. MapInv(r)
  <2>1. \A s \in Slots : s # NoSlot
    BY <1>1 DEF Slots, NoSlot
  <2>2. \A s \in Slots : slot[r][s].mapped = NoBlock /\ slot[r][s].addr = NoBlock
    BY <1>2 DEF EmptySlot
  <2>3. DOMAIN toMap[r] = {}
    BY <1>2
  <2>4. QED
    BY <1>1, <1>2, <2>1, <2>2, <2>3 DEF MapInv
<1>10. WritebackInv(r)
  <2>1. \A s \in Slots : slot[r][s].valid = {} /\ slot[r][s].dirty = {} /\ slot[r][s].wbe = 0
    BY <1>2 DEF EmptySlot
  <2>2. QED
    BY <1>2, <2>1 DEF WritebackInv
<1>11. GetsInv(r)
  BY <1>2 DEF GetsInv
<1>12. DeadInv(r)
  BY <1>2 DEF DeadInv
<1>13. QED
  BY <1>6, <1>7, <1>8, <1>9, <1>10, <1>11, <1>12 DEF RankInv

\* The rank that takes a step keeps its invariant.
LEMMA RankStepInv ==
  ASSUME TypeOK, setup' = setup, NEW r \in Ranks, RankInv(r), RankNext(r)
  PROVE  RankInv(r)'
<1>1. CASE \/ \E blks \in Requests, mode \in Modes : CheckoutCall(r, blks, mode)
           \/ ReleaseCall(r)
           \/ \E l \in Locs : AcquireCall(r, l)
  BY <1>1, CallStep
<1>2. CASE \E q \in out[r] : CheckinCall(r, q)
  BY <1>2, CheckinCallStep
<1>3. CASE \E q \in Ranks, l \in Locs : Give(r, q, l)
  <2>1. SameRank(r)
    BY <1>3 DEF Give, SameRank, cacheVars, rmaVars, wbVars, ctlVars
  <2>2. QED
    BY <2>1, RankFrame
<1>4. CASE CheckoutFast(r) \/ CheckoutHit(r)
  BY <1>4, HitStep
<1>5. CASE CheckoutMiss(r)
  BY <1>5, MissStep
<1>6. CASE CheckoutFull(r) \/ CheckoutDies(r)
  BY <1>6, FullStep
<1>7. CASE CheckoutComplete(r)
  BY <1>7, CheckoutCompleteStep
<1>8. CASE CheckinBlk(r)
  BY <1>8, CheckinBlkStep
<1>9. CASE CheckinReturns(r)
  BY <1>9, CheckinReturnsStep
<1>10. CASE WritebackBlk(r)
  BY <1>10, WritebackBlkStep
<1>11. CASE WritebackOverlap(r) \/ WritebackBegun(r)
  BY <1>11, WritebackListStep
<1>12. CASE WritebackComplete(r)
  BY <1>12, WritebackCompleteStep
<1>13. CASE AcquireInvalidate(r)
  BY <1>13, AcquireInvalidateStep
<1>14. CASE \E s \in Slots, x \in Regions : GetArrives(r, s, x) \/ PutArrives(r, s, x)
  BY <1>14, TransferStep
<1>15. QED
  BY <1>1, <1>2, <1>3, <1>4, <1>5, <1>6, <1>7, <1>8, <1>9, <1>10, <1>11, <1>12, <1>13, <1>14
  DEF RankNext, RankStep

\* The invariant is inductive.
LEMMA NextInv == CacheInv /\ [Next]_vars => CacheInv'
<1> SUFFICES ASSUME CacheInv, [Next]_vars
    PROVE  CacheInv'
  OBVIOUS
<1>1. TypeOK /\ \A r \in Ranks : RankInv(r)
  BY DEF CacheInv
<1>2. CASE UNCHANGED vars
  <2>1. TypeOK'
    <3>1. setup' = setup
      BY <1>2 DEF vars
    <3>2. Locs' = Locs /\ Slots' = Slots /\ SlotType' = SlotType /\ RequestType' = RequestType
          /\ HandlerType' = HandlerType /\ Ranks' = Ranks /\ Regions' = Regions /\ Blocks' = Blocks
          /\ Parts' = Parts /\ Requests' = Requests
      BY <3>1, SameSetup
    <3>3. QED
      BY <1>1, <1>2, <3>2 DEF TypeOK, vars
  <2>2. setup' = setup /\ \A p \in Ranks : SameRank(p)
    BY <1>2 DEF vars, SameRank
  <2>3. \A p \in Ranks : RankInv(p)'
    BY <1>1, <2>2, RankFrame
  <2>4. Ranks' = Ranks
    BY <2>2, SameSetup
  <2>5. QED
    BY <2>1, <2>3, <2>4 DEF CacheInv
<1>3. CASE Acts /\ UNCHANGED setup
  <2>1. PICK r \in Ranks : RankNext(r)
    BY <1>3 DEF Acts, RankNext
  <2>2. setup' = setup /\ RankInv(r)
    BY <1>1, <1>3
  <2>3. TypeOK'
    BY <1>1, <2>1, <2>2, TypeStep
  <2>4. RankInv(r)'
    BY <1>1, <2>1, <2>2, RankStepInv
  <2>5. ASSUME NEW p \in Ranks, p # r
        PROVE  RankInv(p)'
    <3>1. SameRank(p)
      BY <1>1, <2>1, <2>5, OthersSame
    <3>2. QED
      BY <1>1, <2>2, <3>1, RankFrame
  <2>6. Ranks' = Ranks
    BY <2>2, SameSetup
  <2>7. QED
    BY <2>3, <2>4, <2>5, <2>6 DEF CacheInv
<1>4. CASE Died
  BY <1>2, <1>4 DEF Died
<1>5. QED
  BY <1>2, <1>3, <1>4 DEF Next

\* Every reachable state of the cache has the type and the invariant above.
THEOREM CacheInvariant == Spec => []CacheInv
<1>1. Init => CacheInv
  BY InitType, InitInv DEF CacheInv
<1>2. QED
  BY <1>1, NextInv, PTL DEF Spec

-----------------------------------------------------------------------------
(* What it says.                                                            *)

\* A slot has users just if its reference count is positive.
LEMMA PinnedHasUsers ==
  ASSUME TypeOK, NEW r \in Ranks, RankInv(r), NEW s \in Slots
  PROVE  /\ slot[r][s].ref > 0 <=> Users(r, slot[r][s].key) # {}
         /\ slot[r][s].ref = 0 <=> Users(r, slot[r][s].key) = {}
<1>1. ControlInv(r) /\ slot[r][s].ref = Cardinality(Users(r, slot[r][s].key))
  BY DEF RankInv, RefsInv
<1>2. /\ IsFiniteSet(Users(r, slot[r][s].key)) /\ Cardinality(Users(r, slot[r][s].key)) \in Nat
  BY <1>1, UsersFinite
<1>3. Cardinality(Users(r, slot[r][s].key)) = 0 <=> Users(r, slot[r][s].key) = {}
  BY <1>2, FS_EmptySet
<1>4. QED
  BY <1>1, <1>2, <1>3

\* A block that a completed checkout has is in the slot that its addresses map
\* to, with the parts that the request has valid.
LEMMA OutIsMapped ==
  ASSUME TypeOK, NEW r \in Ranks, RankInv(r), NEW q \in out[r], NEW i \in DOMAIN q.blks
  PROVE  /\ vm[r][q.blks[i][1]] \in Slots
         /\ slot[r][vm[r][q.blks[i][1]]].key = q.blks[i][1]
         /\ q.blks[i][2] \subseteq slot[r][vm[r][q.blks[i][1]]].valid
         /\ slot[r][vm[r][q.blks[i][1]]].ref > 0
         /\ q.blks[i] \in Parts
<1>1. KeysInv(r) /\ RefsInv(r) /\ MapInv(r)
  BY DEF RankInv
<1>2. PICK b : b = q.blks[i][1]
  OBVIOUS
<1>3. b \in Blocks /\ b # NoBlock /\ q.blks[i] \in Parts
  <2>1. q.blks \in Requests
    BY DEF TypeOK
  <2>2. q.blks \in Seq(Parts) /\ NoBlock \notin Blocks
    BY <2>1, SetupFacts DEF TypeOK
  <2>3. q.blks[i] \in Parts
    BY <2>2
  <2>4. QED
    BY <1>2, <2>2, <2>3 DEF Parts
<1>4. PICK s \in Slots : slot[r][s].key = b /\ q.blks[i][2] \subseteq slot[r][s].valid
  BY <1>1, <1>2 DEF RefsInv
<1>5. \A j \in DOMAIN toMap[r] : toMap[r][j] # s
  BY <1>1, <1>2, <1>4 DEF MapInv, Has
<1>6. slot[r][s].mapped = b
  BY <1>1, <1>3, <1>4, <1>5 DEF MapInv, KeysInv
<1>7. vm[r][b] = s
  BY <1>1, <1>3, <1>6 DEF MapInv
<1>8. q \in Users(r, slot[r][s].key)
  BY <1>2, <1>4 DEF Users, Has
<1>9. slot[r][s].ref > 0
  BY <1>8, PinnedHasUsers
<1>10. QED
  BY <1>2, <1>3, <1>4, <1>7, <1>9

\* PinnedIsMapped, for all requests and any number of slots: what the program has
\* checked out it finds at its addresses, however checkouts evict and remap.
THEOREM MappingSound == Spec => []PinnedIsMapped
<1>1. CacheInv => PinnedIsMapped
  <2> SUFFICES ASSUME CacheInv, NEW r \in Ranks
      PROVE  /\ \A q \in out[r] : \A i \in DOMAIN q.blks :
                  LET s == vm[r][q.blks[i][1]]
                  IN s # NoSlot /\ slot[r][s].key = q.blks[i][1] /\ slot[r][s].ref > 0
             /\ \A s, t \in Slots : slot[r][s].key = slot[r][t].key =>
                  s = t \/ slot[r][s].key = NoBlock
    BY DEF PinnedIsMapped
  <2>1. TypeOK /\ RankInv(r)
    BY DEF CacheInv
  <2>2. \A s \in Slots : s # NoSlot
    <3>1. NSlots \in Nat \ {0}
      BY <2>1, SetupFacts DEF TypeOK
    <3>2. QED
      BY <3>1 DEF Slots, NoSlot
  <2>3. ASSUME NEW q \in out[r], NEW i \in DOMAIN q.blks
        PROVE  LET s == vm[r][q.blks[i][1]]
               IN s # NoSlot /\ slot[r][s].key = q.blks[i][1] /\ slot[r][s].ref > 0
    BY <2>1, <2>2, OutIsMapped
  <2>4. KeysInv(r)
    BY <2>1 DEF RankInv
  <2>5. QED
    BY <2>3, <2>4 DEF KeysInv
<1>2. QED
  BY <1>1, CacheInvariant, PTL

\* TransfersSafe, for all requests and any number of slots: no transfer in flight
\* touches bytes that another one, the program or an eviction may change.
THEOREM TransfersAreSafe == Spec => []TransfersSafe
<1>1. CacheInv => TransfersSafe
  <2> SUFFICES ASSUME CacheInv, NEW r \in Ranks
      PROVE  /\ \A p \in puts[r] : IsWritingBack(r, p[1]) /\ wins[r]
             /\ \A g \in gets[r] : g[2] \notin slot[r][g[1]].dirty /\ g \notin puts[r]
             /\ pc[r] = "acquire" => \A s \in Slots : IsEvictable(r, s)
    BY DEF TransfersSafe
  <2>1. TypeOK /\ RankInv(r)
    BY DEF CacheInv
  <2>2. ControlInv(r) /\ WritebackInv(r) /\ GetsInv(r)
    BY <2>1 DEF RankInv
  <2>3. ASSUME NEW p \in puts[r]
        PROVE  IsWritingBack(r, p[1]) /\ wins[r]
    <3>1. PICK s \in Slots, x \in Regions : p = <<s, x>>
      BY <2>1 DEF TypeOK
    <3>2. slot[r][s].wbe = wbEpoch[r] /\ wins[r] = TRUE
      BY <2>2, <2>3, <3>1 DEF WritebackInv
    <3>3. QED
      BY <3>1, <3>2 DEF IsWritingBack
  <2>4. ASSUME NEW g \in gets[r]
        PROVE  g[2] \notin slot[r][g[1]].dirty /\ g \notin puts[r]
    <3>1. PICK s \in Slots, x \in Regions : g = <<s, x>>
      BY <2>1 DEF TypeOK
    <3>2. QED
      BY <2>2, <2>4, <3>1 DEF GetsInv
  <2>5. ASSUME pc[r] = "acquire", NEW s \in Slots
        PROVE  IsEvictable(r, s)
    <3>1. slot[r][s].dirty = {} /\ slot[r][s].wbe # wbEpoch[r]
      <4>1. slot[r][s].dirty = {} /\ slot[r][s].wbe < wbEpoch[r]
        BY <2>2, <2>5 DEF WritebackInv
      <4>2. wbEpoch[r] \in Nat
        BY <2>1 DEF TypeOK
      <4>3. QED
        BY <4>1, <4>2
    <3>2. ~CheckingOut(r) /\ ~CheckingIn(r) /\ out[r] = {}
      BY <2>2, <2>5 DEF ControlInv, CheckingOut, CheckingIn
    <3>3. Users(r, slot[r][s].key) = {}
      BY <3>2 DEF Users, HeldBlock, HeldNow
    <3>4. slot[r][s].ref = 0
      BY <2>1, <3>3, PinnedHasUsers
    <3>5. QED
      BY <3>1, <3>4 DEF IsEvictable, IsWritingBack
  <2>6. QED
    BY <2>3, <2>4, <2>5
<1>2. QED
  BY <1>1, CacheInvariant, PTL

\* DiesOnlyWhenPinned, for any number of slots: after the writeback that get_entry
\* tries first, only blocks that are checked out can be in its way.
THEOREM DyingIsJustified == Spec => []DiesOnlyWhenPinned
<1>1. CacheInv => DiesOnlyWhenPinned
  <2> SUFFICES ASSUME CacheInv, NEW r \in Ranks, pc[r] = "dead", NEW s \in Slots
      PROVE  slot[r][s].ref > 0
    BY DEF DiesOnlyWhenPinned
  <2>1. TypeOK /\ RankInv(r)
    BY DEF CacheInv
  <2>2. ControlInv(r) /\ KeysInv(r) /\ WritebackInv(r) /\ EmptySlots(r) = {}
    BY <2>1 DEF RankInv, DeadInv
  <2>3. PICK i \in Slots : lru[r][i] = s
    BY <2>2 DEF KeysInv
  <2>4. ~IsEvictable(r, s)
    BY <2>2, <2>3 DEF EmptySlots
  <2>5. slot[r][s].dirty = {} /\ slot[r][s].wbe < wbEpoch[r] /\ wbEpoch[r] \in Nat
    BY <2>1, <2>2 DEF WritebackInv, ControlInv, TypeOK
  <2>6. slot[r][s].ref # 0
    BY <2>4, <2>5 DEF IsEvictable, IsWritingBack
  <2>7. QED
    BY <2>1, <2>6, PinnedHasUsers
<1>2. QED
  BY <1>1, CacheInvariant, PTL

-----------------------------------------------------------------------------
(* Coherence: what a program without data races reads is what was last      *)
(* written.  Its inductive invariant.                                       *)

\* The requests that the program has or is getting.
Using(r) == out[r] \cup (IF CheckingOut(r) THEN {req[r]} ELSE {})

\* The program is going to write l whole, and the cached bytes mean nothing.
Overwriting(r, l) == \E q \in Using(r) : q.mode = "write" /\ l \in LocsOf(q.blks)

\* A checkin of l, which has been written, has not come to it yet.
BeingCheckedIn(r, l) ==
  /\ CheckingIn(r) /\ req[r].mode # "read"
  /\ \E i \in HeldNow(r) : req[r].blks[i][1] = l[1] /\ l[2] \in req[r].blks[i][2]

\* Slot s of rank r has a copy of l that is newer than its home: dirty, on its
\* way home, or being checked in.
Unsaved(r, s, l) ==
  /\ slot[r][s].key = l[1]
  /\ l[2] \in slot[r][s].dirty \/ <<s, l[2]>> \in puts[r] \/ BeingCheckedIn(r, l)

\* Slot s of rank r has a copy of l that has arrived.
Holds(r, s, l) ==
  slot[r][s].key = l[1] /\ l[2] \in slot[r][s].valid /\ <<s, l[2]>> \notin gets[r]

Owns(r, l) == perm[l].rank = r /\ perm[l].ok = TRUE

\* A copy that is newer than its home is the latest; its rank uses the location,
\* or has handed it over with an epoch that has not come yet.
UnsavedInv ==
  \A r \in Ranks, s \in Slots, l \in Locs : Unsaved(r, s, l) =>
    /\ data[r][s][l[2]] = latest[l]
    /\ \/ Owns(r, l)
       \/ perm[l].ok = FALSE /\ perm[l].h.rank = r /\ perm[l].h.epoch > epoch[r]

\* The latest value is at home, or in a copy that is newer than home.
HomeInv ==
  \A l \in Locs : memory[l] = latest[l] \/ \E r \in Ranks, s \in Slots : Unsaved(r, s, l)

\* What the rank that may use l has of it is the latest.
FreshInv ==
  \A r \in Ranks, s \in Slots, l \in Locs :
    Owns(r, l) /\ Holds(r, s, l) /\ ~Overwriting(r, l) => data[r][s][l[2]] = latest[l]

\* The program uses what it may use, and writes nothing twice at a time.
UsingInv(r) ==
  \A q \in Using(r) :
    /\ \A l \in LocsOf(q.blks) : Owns(r, l)
    /\ \A o \in Using(r) : o # q => WrittenBy(q) \cap LocsOf(o.blks) = {}

\* acquire is for a location that has been handed to the rank.
AcquiringInv(r) ==
  then[r] = "acquire" => \E l \in Locs :
    req[r].blks = <<<<l[1], {l[2]}>>>> /\ perm[l].rank = r /\ perm[l].ok = FALSE

\* A location is handed over to another rank.
HandlerInv ==
  \A l \in Locs : perm[l].ok = FALSE /\ perm[l].h.epoch > 0 => perm[l].h.rank # perm[l].rank

CoherenceInv ==
  /\ UnsavedInv /\ HomeInv /\ FreshInv /\ HandlerInv
  /\ \A r \in Ranks : UsingInv(r) /\ AcquiringInv(r)

-----------------------------------------------------------------------------
(* What a step may do to the copies of a rank.                              *)

\* Nothing.
SameView(p) ==
  /\ Using(p)' = Using(p)
  /\ \A s \in Slots, l \in Locs :
       /\ Unsaved(p, s, l)' <=> Unsaved(p, s, l)
       /\ Holds(p, s, l)' <=> Holds(p, s, l)
       /\ data'[p][s][l[2]] = data[p][s][l[2]]

\* The copies that are newer than home stay so, and what is held has been held.
ViewKept(p) ==
  \A s \in Slots, l \in Locs :
    /\ Unsaved(p, s, l)' <=> Unsaved(p, s, l)
    /\ Unsaved(p, s, l) => data'[p][s][l[2]] = data[p][s][l[2]]
    /\ Holds(p, s, l)' /\ ~Overwriting(p, l)' =>
         Holds(p, s, l) /\ ~Overwriting(p, l) /\ data'[p][s][l[2]] = data[p][s][l[2]]

\* The memory, the latest values and who may use what are as before.
SameWorld == memory' = memory /\ latest' = latest /\ perm' = perm /\ epoch' = epoch

\* With the same requests in use, the same locations are being overwritten.
LEMMA SameOverwriting ==
  ASSUME NEW p, Using(p)' = Using(p)
  PROVE  \A l : Overwriting(p, l)' <=> Overwriting(p, l)
BY DEF Overwriting

\* A rank writes only to its own cached bytes.
LEMMA OthersData ==
  ASSUME TypeOK, NEW r \in Ranks, RankNext(r), NEW p \in Ranks, p # r
  PROVE  data'[p] = data[p]
<1> USE DEF cacheVars, rmaVars, wbVars, ctlVars, userVars, TypeOK
<1>1. ASSUME NEW blks \in Requests, NEW mode \in Modes, CheckoutCall(r, blks, mode)
      PROVE  data'[p] = data[p]
  BY <1>1 DEF CheckoutCall
<1>2. ASSUME NEW q \in out[r], CheckinCall(r, q)
      PROVE  data'[p] = data[p]
  BY <1>2 DEF CheckinCall
<1>3. ASSUME \/ ReleaseCall(r) \/ CheckoutFull(r) \/ CheckoutDies(r) \/ CheckinReturns(r)
             \/ CheckoutComplete(r) \/ WritebackBlk(r)
      PROVE  data'[p] = data[p]
  BY <1>3 DEF ReleaseCall, CheckoutFull, CheckoutDies, CheckinReturns, CheckoutComplete,
       WritebackBlk
<1>4. ASSUME NEW q \in Ranks, NEW l \in Locs, Give(r, q, l) \/ AcquireCall(r, l)
      PROVE  data'[p] = data[p]
  BY <1>4 DEF Give, AcquireCall
<1>5. ASSUME \/ WritebackOverlap(r) \/ WritebackBegun(r) \/ WritebackComplete(r)
             \/ AcquireInvalidate(r) \/ CheckinBlk(r) \/ CheckoutFast(r)
      PROVE  data'[p] = data[p]
  BY <1>5 DEF WritebackOverlap, WritebackBegun, WritebackComplete, AcquireInvalidate, CheckinBlk,
       CheckoutFast
<1>6. ASSUME CheckoutHit(r) \/ CheckoutMiss(r)
      PROVE  data'[p] = data[p]
  BY <1>6 DEF CheckoutHit, CheckoutMiss, Attach
<1>7. ASSUME NEW s \in Slots, NEW x \in Regions, GetArrives(r, s, x) \/ PutArrives(r, s, x)
      PROVE  data'[p] = data[p]
  BY <1>7 DEF GetArrives, PutArrives
<1>8. QED
  BY <1>1, <1>2, <1>3, <1>4, <1>5, <1>6, <1>7 DEF RankNext, RankStep

\* A rank that does not change has the same copies.
LEMMA FrameView ==
  ASSUME NEW p, SameRank(p), data'[p] = data[p]
  PROVE  SameView(p)
<1> USE DEF SameRank
<1>1. (CheckingOut(p)' <=> CheckingOut(p)) /\ (CheckingIn(p)' <=> CheckingIn(p)) /\ Done(p)' = Done(p)
  BY DEF CheckingOut, CheckingIn, Done
<1>2. HeldNow(p)' = HeldNow(p)
  BY <1>1 DEF HeldNow
<1>3. Using(p)' = Using(p)
  BY <1>1 DEF Using
<1>4. \A l : BeingCheckedIn(p, l)' <=> BeingCheckedIn(p, l)
  BY <1>1, <1>2 DEF BeingCheckedIn
<1>5. ASSUME NEW s \in Slots, NEW l \in Locs
      PROVE  /\ Unsaved(p, s, l)' <=> Unsaved(p, s, l)
             /\ Holds(p, s, l)' <=> Holds(p, s, l)
             /\ data'[p][s][l[2]] = data[p][s][l[2]]
  BY <1>4 DEF Unsaved, Holds
<1>6. QED
  BY <1>3, <1>5 DEF SameView

\* and keeps what is said of them.
LEMMA SameIsKept ==
  ASSUME NEW p, SameView(p)
  PROVE  ViewKept(p)
<1>1. \A l : Overwriting(p, l)' <=> Overwriting(p, l)
  BY SameOverwriting DEF SameView
<1>2. QED
  BY <1>1 DEF SameView, ViewKept

\* Such steps keep what is said of copies.
LEMMA KeptInv ==
  ASSUME setup' = setup, UnsavedInv, HomeInv, FreshInv, HandlerInv, SameWorld,
         \A p \in Ranks : ViewKept(p)
  PROVE  UnsavedInv' /\ HomeInv' /\ FreshInv' /\ HandlerInv'
<1>0. Ranks' = Ranks /\ Slots' = Slots /\ Locs' = Locs
  BY SameSetup
<1>1. memory' = memory /\ latest' = latest /\ perm' = perm /\ epoch' = epoch
  BY DEF SameWorld
<1>2. \A p, l : Owns(p, l)' <=> Owns(p, l)
  BY <1>1 DEF Owns
<1>3. UnsavedInv'
  BY <1>0, <1>1, <1>2 DEF UnsavedInv, ViewKept
<1>4. HomeInv'
  BY <1>0, <1>1 DEF HomeInv, ViewKept
<1>5. FreshInv'
  BY <1>0, <1>1, <1>2 DEF FreshInv, ViewKept
<1>6. HandlerInv'
  BY <1>0, <1>1 DEF HandlerInv
<1>7. QED
  BY <1>3, <1>4, <1>5, <1>6

\* With no more requests in use, the program uses what it may use.
LEMMA UsingFrame ==
  ASSUME NEW p, Using(p)' \subseteq Using(p), UsingInv(p),
         \A q \in Using(p) : \A l \in LocsOf(q.blks) : Owns(p, l)'
  PROVE  UsingInv(p)'
BY DEF UsingInv

\* acquire goes on for the same location.
LEMMA AcquiringFrame ==
  ASSUME setup' = setup, NEW p, AcquiringInv(p),
         then'[p] = "acquire" => then[p] = "acquire" /\ req'[p] = req[p],
         \A l \in Locs : perm[l].rank = p /\ perm[l].ok = FALSE => perm'[l] = perm[l] \/ then'[p] # "acquire"
  PROVE  AcquiringInv(p)'
<1>0. Locs' = Locs
  BY SameSetup
<1>1. QED
  BY <1>0 DEF AcquiringInv

-----------------------------------------------------------------------------
(* Steps that keep the copies of their rank.                                *)

\* Nothing cached or in flight changes, and no request is dropped.
LEMMA CopiesSame ==
  ASSUME NEW r, slot'[r] = slot[r], gets'[r] = gets[r], puts'[r] = puts[r], data' = data,
         \A l : BeingCheckedIn(r, l)' <=> BeingCheckedIn(r, l), Using(r) \subseteq Using(r)'
  PROVE  ViewKept(r)
<1>1. \A l : Overwriting(r, l) => Overwriting(r, l)'
  BY DEF Overwriting
<1>2. \A s, l : (Unsaved(r, s, l)' <=> Unsaved(r, s, l)) /\ (Holds(r, s, l)' <=> Holds(r, s, l))
  BY DEF Unsaved, Holds
<1>3. QED
  BY <1>1, <1>2 DEF ViewKept

\* A step that keeps the copies of its rank, uses nothing new and begins no
\* acquire.
KeptStep(r) ==
  /\ SameWorld /\ ViewKept(r)
  /\ Using(r)' \subseteq Using(r)
  /\ then'[r] = "acquire" => then[r] = "acquire" /\ req'[r] = req[r]

\* The calls of checkout and acquire keep the copies.
LEMMA CallView ==
  ASSUME TypeOK, NEW r \in Ranks, RankInv(r),
         \/ \E blks \in Requests, mode \in Modes : CheckoutCall(r, blks, mode)
         \/ \E l \in Locs : AcquireCall(r, l)
  PROVE  SameWorld /\ ViewKept(r) /\ ~CheckingOut(r) /\ out' = out
<1> USE DEF cacheVars, rmaVars, wbVars, ctlVars, userVars, Goto
<1>1. /\ pc[r] = "idle" /\ SameWorld
      /\ slot' = slot /\ data' = data /\ gets' = gets /\ puts' = puts /\ out' = out
      /\ pc'[r] = "checkout" \/ (pc'[r] = "writeback" /\ then'[r] = "acquire")
  <2>1. ASSUME NEW blks \in Requests, NEW mode \in Modes, CheckoutCall(r, blks, mode)
        PROVE  /\ pc[r] = "idle" /\ SameWorld /\ pc'[r] = "checkout"
               /\ slot' = slot /\ data' = data /\ gets' = gets /\ puts' = puts /\ out' = out
    BY <2>1 DEF CheckoutCall, SameWorld, TypeOK
  <2>2. ASSUME NEW l \in Locs, AcquireCall(r, l)
        PROVE  /\ pc[r] = "idle" /\ SameWorld /\ pc'[r] = "writeback" /\ then'[r] = "acquire"
               /\ slot' = slot /\ data' = data /\ gets' = gets /\ puts' = puts /\ out' = out
    BY <2>2 DEF AcquireCall, SameWorld, TypeOK
  <2>3. QED
    BY <2>1, <2>2
<1>2. ~CheckingIn(r) /\ ~CheckingIn(r)' /\ ~CheckingOut(r)
  BY <1>1 DEF CheckingIn, CheckingOut
<1>3. \A l : BeingCheckedIn(r, l)' <=> BeingCheckedIn(r, l)
  BY <1>2 DEF BeingCheckedIn
<1>4. Using(r) \subseteq Using(r)'
  BY <1>1, <1>2 DEF Using
<1>5. QED
  BY <1>1, <1>2, <1>3, <1>4, CopiesSame

\* release, and the steps of checkout, checkin and writeback that only change where
\* the rank is.
LEMMA ControlView ==
  ASSUME TypeOK, setup' = setup, NEW r \in Ranks, RankInv(r),
         \/ ReleaseCall(r) \/ CheckoutFull(r) \/ CheckoutDies(r)
         \/ WritebackOverlap(r) \/ WritebackBegun(r)
  PROVE  KeptStep(r)
<1> USE DEF cacheVars, rmaVars, wbVars, ctlVars, userVars, Goto
<1>1. /\ SameWorld /\ slot' = slot /\ data' = data /\ gets' = gets /\ puts' = puts /\ out' = out
      /\ req' = req /\ todo' = todo
  BY DEF ReleaseCall, CheckoutFull, CheckoutDies, WritebackOverlap, WritebackBegun, SameWorld
<1>2. /\ CheckingOut(r)' <=> CheckingOut(r)
      /\ CheckingIn(r)' <=> CheckingIn(r)
      /\ then'[r] = "acquire" => then[r] = "acquire"
  <2>1. CASE ReleaseCall(r)
    <3>1. pc[r] = "idle" /\ pc'[r] = "writeback" /\ then'[r] = "idle"
      BY <2>1 DEF ReleaseCall, TypeOK
    <3>2. QED
      BY <3>1 DEF CheckingOut, CheckingIn
  <2>2. CASE CheckoutFull(r) \/ CheckoutDies(r)
    <3>1. pc[r] = "checkout" /\ pc'[r] \in {"writeback", "dead"} /\ then'[r] = "checkout"
      BY <2>2 DEF CheckoutFull, CheckoutDies, TypeOK
    <3>2. QED
      BY <3>1 DEF CheckingOut, CheckingIn
  <2>3. CASE WritebackOverlap(r) \/ WritebackBegun(r)
    <3>1. /\ pc[r] = "writeback" /\ then' = then
          /\ \/ pc'[r] = "writeback"
             \/ pc'[r] = "checkin" /\ then[r] = "checkin"
             \/ pc'[r] = "flush" /\ then[r] # "checkin"
      BY <2>3 DEF WritebackOverlap, WritebackBegun, TypeOK
    <3>2. QED
      BY <3>1 DEF CheckingOut, CheckingIn
  <2>4. QED
    BY <2>1, <2>2, <2>3
<1>3. Done(r)' = Done(r)
  BY <1>1 DEF Done
<1>4. HeldNow(r)' = HeldNow(r)
  BY <1>1, <1>2, <1>3 DEF HeldNow
<1>5. \A l : BeingCheckedIn(r, l)' <=> BeingCheckedIn(r, l)
  BY <1>1, <1>2, <1>4 DEF BeingCheckedIn
<1>6. Using(r)' = Using(r)
  BY <1>1, <1>2 DEF Using
<1>7. ViewKept(r)
  BY <1>1, <1>5, <1>6, CopiesSame
<1>8. QED
  BY <1>1, <1>2, <1>6, <1>7 DEF KeptStep

\* The end of checkin: every part has been checked in.
LEMMA ReturnView ==
  ASSUME TypeOK, setup' = setup, NEW r \in Ranks, RankInv(r), CheckinReturns(r)
  PROVE  KeptStep(r)
<1> USE DEF cacheVars, rmaVars, wbVars, ctlVars, userVars, Goto
<1>1. /\ SameWorld /\ slot' = slot /\ data' = data /\ gets' = gets /\ puts' = puts /\ out' = out
      /\ pc[r] = "checkin" /\ todo[r] = <<>> /\ pc'[r] = "idle" /\ then'[r] = "idle"
  BY DEF CheckinReturns, SameWorld, TypeOK
<1>2. ~CheckingOut(r) /\ ~CheckingOut(r)' /\ ~CheckingIn(r)' /\ req[r].blks \in Seq(Parts)
  BY <1>1 DEF CheckingOut, CheckingIn, TypeOK, RequestType
<1>3. HeldNow(r) = {}
  <2>1. Done(r) = Len(req[r].blks) /\ DOMAIN req[r].blks = 1..Len(req[r].blks)
    BY <1>1, <1>2 DEF Done
  <2>2. QED
    BY <1>2, <2>1 DEF HeldNow
<1>4. \A l : BeingCheckedIn(r, l)' <=> BeingCheckedIn(r, l)
  BY <1>2, <1>3 DEF BeingCheckedIn
<1>5. Using(r)' = Using(r)
  BY <1>1, <1>2 DEF Using
<1>6. ViewKept(r)
  BY <1>1, <1>4, <1>5, CopiesSame
<1>7. QED
  BY <1>1, <1>5, <1>6 DEF KeptStep

\* The end of checkout: the request that was being checked out has been.
LEMMA CompleteView ==
  ASSUME TypeOK, setup' = setup, NEW r \in Ranks, RankInv(r), CheckoutComplete(r)
  PROVE  KeptStep(r)
<1> USE DEF cacheVars, rmaVars, wbVars, ctlVars, userVars, Goto
<1>1. /\ SameWorld /\ data' = data /\ gets' = gets /\ puts' = puts
      /\ out'[r] = out[r] \cup {req[r]}
      /\ pc[r] = "checkout" /\ pc'[r] = "idle" /\ then'[r] = "idle"
  BY DEF CheckoutComplete, SameWorld, TypeOK
<1>2. CheckingOut(r) /\ ~CheckingOut(r)' /\ ~CheckingIn(r) /\ ~CheckingIn(r)'
  BY <1>1 DEF CheckingOut, CheckingIn
<1>3. Using(r)' = Using(r)
  BY <1>1, <1>2 DEF Using
<1>4. ASSUME NEW s \in Slots
      PROVE  /\ slot'[r][s].key = slot[r][s].key /\ slot'[r][s].dirty = slot[r][s].dirty
             /\ slot'[r][s].valid = slot[r][s].valid
  <2>1. slot'[r][s] = IF \E i \in DOMAIN toMap[r] : toMap[r][i] = s
                      THEN [slot[r][s] EXCEPT !.mapped = slot[r][s].addr]
                      ELSE slot[r][s]
    BY DEF CheckoutComplete, TypeOK
  <2>2. slot[r][s] \in SlotType
    BY DEF TypeOK
  <2>3. QED
    BY <2>1, <2>2 DEF SlotType
<1>5. \A l : ~BeingCheckedIn(r, l)' /\ ~BeingCheckedIn(r, l)
  BY <1>2 DEF BeingCheckedIn
<1>6. \A s \in Slots, l \in Locs :
        (Unsaved(r, s, l)' <=> Unsaved(r, s, l)) /\ (Holds(r, s, l)' <=> Holds(r, s, l))
  BY <1>1, <1>4, <1>5 DEF Unsaved, Holds
<1>7. \A l : Overwriting(r, l)' <=> Overwriting(r, l)
  BY <1>3, SameOverwriting
<1>8. ViewKept(r)
  BY <1>1, <1>6, <1>7 DEF ViewKept
<1>9. QED
  BY <1>1, <1>3, <1>8 DEF KeptStep

\* Pinning a block: its fetched bytes are not held before they arrive, and those
\* that are to be overwritten do not count.
LEMMA PinView ==
  ASSUME TypeOK, setup' = setup, NEW r \in Ranks, RankInv(r), NEW s, NEW b, NEW X, NEW V, NEW F,
         PinsBlock(r, s, b, X, V, F)
  PROVE  KeptStep(r)
<1>1. /\ CheckingOut(r) /\ CheckingOut(r)' /\ ~CheckingIn(r) /\ ~CheckingIn(r)'
      /\ req[r].blks[Done(r) + 1][1] = b /\ req[r].blks[Done(r) + 1][2] = X
  BY PinHolds
<1>2. /\ slot[r][s].dirty \subseteq V
      /\ \A x \in Regions : <<s, x>> \in puts[r] => x \in V
  BY PinFacts
<1>3. /\ s \in Slots /\ X \subseteq Regions /\ V \subseteq Regions /\ F \subseteq Regions
      /\ pc[r] = "checkout" /\ todo[r] # <<>>
      /\ \A t \in Slots : t # s => slot'[r][t] = slot[r][t]
      /\ slot'[r][s].key = b /\ slot'[r][s].dirty = slot[r][s].dirty
      /\ slot'[r][s].valid = V \cup X \cup F
      /\ req[r].mode = "write" \/ X \subseteq V \cup F
      /\ gets'[r] = gets[r] \cup ({s} \X F)
      /\ puts' = puts /\ data' = data /\ req' = req /\ out' = out
      /\ then'[r] = then[r] \/ then'[r] = "idle"
  BY DEF PinsBlock
<1>4. V # {} => slot[r][s].key = b /\ V = slot[r][s].valid
  BY DEF PinsBlock
<1>5. SameWorld
  BY DEF PinsBlock, SameWorld
<1>6. Using(r)' = Using(r)
  BY <1>1, <1>3 DEF Using
<1>7. \A l : ~BeingCheckedIn(r, l)' /\ ~BeingCheckedIn(r, l)
  BY <1>1 DEF BeingCheckedIn
<1>8. \A l : Overwriting(r, l)' <=> Overwriting(r, l)
  BY <1>6, SameOverwriting
<1>9. ASSUME NEW t \in Slots, NEW l \in Locs
      PROVE  /\ Unsaved(r, t, l)' <=> Unsaved(r, t, l)
             /\ Holds(r, t, l)' /\ ~Overwriting(r, l)' => Holds(r, t, l)
  <2>1. l = <<l[1], l[2]>> /\ l[2] \in Regions
    BY DEF Locs
  <2>2. CASE t # s
    <3>1. slot'[r][t] = slot[r][t] /\ (<<t, l[2]>> \in gets[r] => <<t, l[2]>> \in gets'[r])
      BY <1>3, <2>2
    <3>2. QED
      BY <1>3, <1>7, <3>1 DEF Unsaved, Holds
  <2>3. CASE t = s
    <3>1. Unsaved(r, s, l)' <=> Unsaved(r, s, l)
      BY <1>2, <1>3, <1>4, <1>7, <2>1 DEF Unsaved
    <3>2. ASSUME Holds(r, s, l)', ~Overwriting(r, l)'
          PROVE  Holds(r, s, l)
      <4>1. b = l[1] /\ l[2] \in V \cup X \cup F /\ <<s, l[2]>> \notin gets'[r]
        BY <1>3, <3>2 DEF Holds
      <4>2. l[2] \notin F /\ <<s, l[2]>> \notin gets[r]
        BY <1>3, <4>1
      <4>3. CASE l[2] \in V
        BY <1>4, <4>1, <4>2, <4>3 DEF Holds
      <4>4. CASE l[2] \notin V
        <5>1. l[2] \in X /\ req[r].mode = "write"
          BY <1>3, <4>1, <4>2, <4>4
        <5>2. Done(r) + 1 \in DOMAIN req[r].blks
          BY <1>1, <1>3, PartInRequest
        <5>3. l \in {req[r].blks[Done(r) + 1][1]} \X req[r].blks[Done(r) + 1][2]
          BY <1>1, <2>1, <4>1, <5>1
        <5>4. l \in LocsOf(req[r].blks)
          BY <5>2, <5>3 DEF LocsOf
        <5>5. req[r] \in Using(r)
          BY <1>1 DEF Using
        <5>6. QED
          BY <1>8, <3>2, <5>1, <5>4, <5>5 DEF Overwriting
      <4>5. QED
        BY <4>3, <4>4
    <3>3. QED
      BY <2>3, <3>1, <3>2
  <2>4. QED
    BY <2>2, <2>3
<1>10. ViewKept(r)
  BY <1>3, <1>8, <1>9 DEF ViewKept
<1>11. then'[r] = "acquire" => then[r] = "acquire" /\ req'[r] = req[r]
  BY <1>3
<1>12. QED
  BY <1>5, <1>6, <1>10, <1>11 DEF KeptStep

\* A part that is checked in becomes dirty.
LEMMA CheckinView ==
  ASSUME TypeOK, setup' = setup, NEW r \in Ranks, RankInv(r), CheckinBlk(r)
  PROVE  KeptStep(r)
<1>1. PICK s, b, X : UnpinsBlock(r, s, b, X)
  BY CheckinBlkIs
<1>2. /\ s \in Slots /\ slot[r][s].key = b
      /\ CheckingIn(r) /\ CheckingIn(r)' /\ ~CheckingOut(r) /\ ~CheckingOut(r)'
      /\ HeldNow(r)' = HeldNow(r) \ {Done(r) + 1} /\ Done(r) + 1 \in HeldNow(r)
      /\ b = req[r].blks[Done(r) + 1][1]
      /\ X = IF req[r].mode = "read" THEN {} ELSE req[r].blks[Done(r) + 1][2]
      /\ \A t \in Slots : t # s => slot[r][t].key # b
      /\ \A t \in Slots : t # s => slot'[r][t] = slot[r][t]
      /\ slot'[r][s].key = b /\ slot'[r][s].valid = slot[r][s].valid
      /\ slot'[r][s].dirty = slot[r][s].dirty \cup X
      /\ gets' = gets /\ puts' = puts /\ req' = req /\ out' = out /\ data' = data
      /\ then'[r] = then[r] \/ then'[r] = "checkin"
  BY <1>1 DEF UnpinsBlock
<1>3. SameWorld
  BY <1>1 DEF UnpinsBlock, SameWorld
<1>4. Using(r)' = Using(r)
  BY <1>2 DEF Using
<1>5. \A l : BeingCheckedIn(r, l) <=> BeingCheckedIn(r, l)' \/ (l[1] = b /\ l[2] \in X)
  <2>1. ASSUME NEW l
        PROVE  BeingCheckedIn(r, l) <=> BeingCheckedIn(r, l)' \/ (l[1] = b /\ l[2] \in X)
    <3>1. CASE req[r].mode = "read"
      BY <1>2, <3>1 DEF BeingCheckedIn
    <3>2. CASE req[r].mode # "read"
      BY <1>2, <3>2 DEF BeingCheckedIn
    <3>3. QED
      BY <3>1, <3>2
  <2>2. QED
    BY <2>1
<1>6. ASSUME NEW t \in Slots, NEW l \in Locs
      PROVE  (Unsaved(r, t, l)' <=> Unsaved(r, t, l)) /\ (Holds(r, t, l)' <=> Holds(r, t, l))
  <2>1. CASE t = s
    BY <1>2, <1>5, <2>1 DEF Unsaved, Holds
  <2>2. CASE t # s
    BY <1>2, <1>5, <2>2 DEF Unsaved, Holds
  <2>3. QED
    BY <2>1, <2>2
<1>7. \A l : Overwriting(r, l)' <=> Overwriting(r, l)
  BY <1>4, SameOverwriting
<1>8. ViewKept(r)
  BY <1>2, <1>6, <1>7 DEF ViewKept
<1>9. QED
  BY <1>2, <1>3, <1>4, <1>8 DEF KeptStep

\* What is dirty is on its way home.
LEMMA WritebackView ==
  ASSUME TypeOK, setup' = setup, NEW r \in Ranks, RankInv(r), WritebackBlk(r)
  PROVE  KeptStep(r)
<1> USE DEF cacheVars, rmaVars, wbVars, ctlVars, userVars
<1>1. /\ gets' = gets /\ out' = out /\ pc' = pc /\ then' = then /\ req' = req /\ todo' = todo
      /\ data' = data /\ SameWorld
  BY DEF WritebackBlk, SameWorld
<1>2. PICK s : s = FirstDirty(r)
  OBVIOUS
<1>3. s \in Slots
  BY <1>2, FirstDirtyIs DEF WritebackBlk
<1>4. /\ puts' = [puts EXCEPT ![r] = @ \cup ({s} \X slot[r][s].dirty)]
      /\ slot' = [slot EXCEPT ![r][s].dirty = {}, ![r][s].wbe = wbEpoch[r]]
  BY <1>2 DEF WritebackBlk
<1>5. /\ slot'[r][s] = [slot[r][s] EXCEPT !.dirty = {}, !.wbe = wbEpoch[r]]
      /\ \A t \in Slots : t # s => slot'[r][t] = slot[r][t]
  BY <1>3, <1>4 DEF TypeOK
<1>6. slot[r][s] \in SlotType
  BY <1>3 DEF TypeOK
<1>7. /\ slot'[r][s].key = slot[r][s].key /\ slot'[r][s].valid = slot[r][s].valid
      /\ slot'[r][s].dirty = {}
  BY <1>5, <1>6 DEF SlotType
<1>8. \A t \in Slots, x \in Regions :
        <<t, x>> \in puts'[r] <=> \/ <<t, x>> \in puts[r]
                                  \/ t = s /\ x \in slot[r][s].dirty
  BY <1>3, <1>4 DEF TypeOK
<1>9. /\ CheckingOut(r)' <=> CheckingOut(r)
      /\ CheckingIn(r)' <=> CheckingIn(r)
      /\ Done(r)' = Done(r)
  BY <1>1 DEF CheckingOut, CheckingIn, Done
<1>10. HeldNow(r)' = HeldNow(r) /\ Using(r)' = Using(r)
  BY <1>1, <1>9 DEF HeldNow, Using
<1>11. \A l : BeingCheckedIn(r, l)' <=> BeingCheckedIn(r, l)
  BY <1>1, <1>9, <1>10 DEF BeingCheckedIn
<1>12. ASSUME NEW t \in Slots, NEW l \in Locs
       PROVE  (Unsaved(r, t, l)' <=> Unsaved(r, t, l)) /\ (Holds(r, t, l)' <=> Holds(r, t, l))
  <2>1. l[2] \in Regions
    BY DEF Locs
  <2>2. CASE t = s
    BY <1>1, <1>7, <1>8, <1>11, <2>1, <2>2 DEF Unsaved, Holds
  <2>3. CASE t # s
    BY <1>1, <1>5, <1>8, <1>11, <2>1, <2>3 DEF Unsaved, Holds
  <2>4. QED
    BY <2>2, <2>3
<1>13. \A l : Overwriting(r, l)' <=> Overwriting(r, l)
  BY <1>10, SameOverwriting
<1>14. ViewKept(r)
  BY <1>1, <1>12, <1>13 DEF ViewKept
<1>15. QED
  BY <1>1, <1>10, <1>14 DEF KeptStep

-----------------------------------------------------------------------------
(* Steps that change copies, homes or who may use them.                     *)

\* A copy that is newer than home is the only one: nobody else may have written.
LEMMA UnsavedOwner ==
  ASSUME UnsavedInv, NEW r \in Ranks, NEW s \in Slots, NEW p \in Ranks, NEW l \in Locs,
         Unsaved(r, s, l), Owns(p, l)
  PROVE  p = r /\ data[r][s][l[2]] = latest[l]
BY DEF UnsavedInv, Owns

\* A get brings the latest value to a rank that may use the location.
LEMMA GetView ==
  ASSUME CacheInv, CoherenceInv, setup' = setup, NEW r \in Ranks,
         NEW s \in Slots, NEW x \in Regions, GetArrives(r, s, x),
         \A p \in Ranks : p # r => SameView(p)
  PROVE  /\ UnsavedInv' /\ HomeInv' /\ FreshInv' /\ HandlerInv'
         /\ SameWorld /\ Using(r)' = Using(r)
<1> USE DEF cacheVars, rmaVars, wbVars, ctlVars, userVars
<1>0. Ranks' = Ranks /\ Slots' = Slots /\ Locs' = Locs
  BY SameSetup
<1>1. /\ TypeOK /\ RankInv(r) /\ UnsavedInv /\ HomeInv /\ FreshInv /\ HandlerInv
  BY DEF CacheInv, CoherenceInv
<1>2. PICK b : b = slot[r][s].key
  OBVIOUS
<1>3. /\ SameWorld /\ slot' = slot /\ puts' = puts /\ out' = out /\ pc' = pc /\ then' = then
      /\ req' = req /\ todo' = todo /\ <<s, x>> \in gets[r]
      /\ gets'[r] = gets[r] \ {<<s, x>>}
      /\ data'[r][s][x] = memory[<<slot[r][s].addr, x>>]
      /\ \A t \in Slots, y \in Regions : t # s \/ y # x => data'[r][t][y] = data[r][t][y]
  BY <1>1, SMTT(20) DEF GetArrives, SameWorld, TypeOK
<1>4. GetsInv(r) /\ KeysInv(r) /\ ControlInv(r)
  BY <1>1 DEF RankInv
<1>5. HeldBlock(r, b) /\ x \notin slot[r][s].dirty /\ <<s, x>> \notin puts[r]
  BY <1>2, <1>3, <1>4 DEF GetsInv
<1>6. CheckingOut(r) /\ ~CheckingIn(r)
  BY <1>3, <1>4 DEF ControlInv, CheckingOut, CheckingIn
<1>7. \A l : ~BeingCheckedIn(r, l)
  BY <1>6 DEF BeingCheckedIn
<1>8. /\ CheckingOut(r)' <=> CheckingOut(r)
      /\ CheckingIn(r)' <=> CheckingIn(r)
  BY <1>3 DEF CheckingOut, CheckingIn
<1>9. \A l : ~BeingCheckedIn(r, l)'
  BY <1>6, <1>8 DEF BeingCheckedIn
<1>10. Using(r)' = Using(r)
  BY <1>3, <1>8 DEF Using
<1>11. \A t \in Slots, l \in Locs : Unsaved(r, t, l)' <=> Unsaved(r, t, l)
  BY <1>3, <1>7, <1>9 DEF Unsaved
<1>12. \A t \in Slots, l \in Locs : Unsaved(r, t, l) => t # s \/ l[2] # x
  BY <1>5, <1>7 DEF Unsaved
<1>13. \A l \in Locs : l[2] \in Regions /\ l = <<l[1], l[2]>>
  BY DEF Locs
<1>14. \A l : Overwriting(r, l)' <=> Overwriting(r, l)
  BY <1>10, SameOverwriting
<1>15. \A p \in Ranks : p # r => \A t \in Slots, l \in Locs :
         /\ Unsaved(p, t, l)' <=> Unsaved(p, t, l)
         /\ Holds(p, t, l)' <=> Holds(p, t, l)
         /\ Overwriting(p, l)' <=> Overwriting(p, l)
         /\ data'[p][t][l[2]] = data[p][t][l[2]]
  BY SameOverwriting DEF SameView
<1>16. /\ memory' = memory /\ latest' = latest /\ perm' = perm /\ epoch' = epoch
       /\ \A p, l : Owns(p, l)' <=> Owns(p, l)
  BY <1>3 DEF SameWorld, Owns
<1>17. UnsavedInv'
  <2>1. ASSUME NEW p \in Ranks, NEW t \in Slots, NEW l \in Locs, Unsaved(p, t, l)'
        PROVE  Unsaved(p, t, l) /\ data'[p][t][l[2]] = data[p][t][l[2]]
    <3>1. CASE p = r
      BY <1>3, <1>11, <1>12, <1>13, <2>1, <3>1
    <3>2. CASE p # r
      BY <1>15, <2>1, <3>2
    <3>3. QED
      BY <3>1, <3>2
  <2>2. QED
    BY <1>0, <1>1, <1>16, <2>1 DEF UnsavedInv
<1>18. HomeInv'
  <2>1. \A p \in Ranks, t \in Slots, l \in Locs : Unsaved(p, t, l)' <=> Unsaved(p, t, l)
    BY <1>11, <1>15
  <2>2. QED
    BY <1>0, <1>1, <1>16, <2>1 DEF HomeInv
<1>19. FreshInv'
  <2>1. ASSUME NEW p \in Ranks, NEW t \in Slots, NEW l \in Locs,
               Owns(p, l), Holds(p, t, l)', ~Overwriting(p, l)
        PROVE  data'[p][t][l[2]] = latest[l]
    <3>1. CASE p # r
      BY <1>1, <1>15, <2>1, <3>1 DEF FreshInv
    <3>2. CASE p = r /\ (t # s \/ l[2] # x)
      <4>1. Holds(r, t, l)
        BY <1>3, <2>1, <3>2 DEF Holds
      <4>2. data'[r][t][l[2]] = data[r][t][l[2]]
        BY <1>3, <1>13, <3>2
      <4>3. QED
        BY <1>1, <2>1, <3>2, <4>1, <4>2 DEF FreshInv
    <3>3. CASE p = r /\ t = s /\ l[2] = x
      <4>1. l = <<b, x>> /\ b \in Blocks
        BY <1>2, <1>3, <1>13, <2>1, <3>3 DEF Holds, Locs
      <4>2. slot[r][s].addr = b
        <5>1. NoBlock \notin Blocks
          BY <1>1, SetupFacts DEF TypeOK
        <5>2. QED
          BY <1>2, <1>4, <4>1, <5>1 DEF KeysInv
      <4>3. ASSUME NEW u \in Ranks, NEW v \in Slots, Unsaved(u, v, l)
            PROVE  FALSE
        <5>1. u = r
          BY <1>1, <2>1, <3>3, <4>3, UnsavedOwner
        <5>2. slot[r][v].key = b /\ v # s
          BY <1>12, <3>3, <4>1, <4>3, <5>1 DEF Unsaved
        <5>3. NoBlock \notin Blocks
          BY <1>1, SetupFacts DEF TypeOK
        <5>4. QED
          BY <1>2, <1>4, <4>1, <5>2, <5>3 DEF KeysInv
      <4>4. memory[l] = latest[l]
        BY <1>1, <4>3 DEF HomeInv
      <4>5. QED
        BY <1>3, <3>3, <4>1, <4>2, <4>4
    <3>4. QED
      BY <3>1, <3>2, <3>3
  <2>2. \A p \in Ranks, l \in Locs : Overwriting(p, l)' <=> Overwriting(p, l)
    <3>1. s \in Slots
      OBVIOUS
    <3>2. QED
      BY <1>14, <1>15, <3>1
  <2>3. QED
    BY <1>0, <1>16, <2>1, <2>2 DEF FreshInv
<1>20. HandlerInv'
  BY <1>0, <1>1, <1>16 DEF HandlerInv
<1>21. QED
  BY <1>3, <1>10, <1>17, <1>18, <1>19, <1>20

\* A put brings the latest value home.
LEMMA PutView ==
  ASSUME CacheInv, CoherenceInv, setup' = setup, NEW r \in Ranks,
         NEW s \in Slots, NEW x \in Regions, PutArrives(r, s, x),
         \A p \in Ranks : p # r => SameView(p)
  PROVE  /\ UnsavedInv' /\ HomeInv' /\ FreshInv' /\ HandlerInv'
         /\ perm' = perm /\ Using(r)' = Using(r)
<1> USE DEF cacheVars, rmaVars, wbVars, ctlVars, userVars
<1>0. Ranks' = Ranks /\ Slots' = Slots /\ Locs' = Locs
  BY SameSetup
<1>1. /\ TypeOK /\ RankInv(r) /\ UnsavedInv /\ HomeInv /\ FreshInv /\ HandlerInv
  BY DEF CacheInv, CoherenceInv
<1>2. PICK k : k = <<slot[r][s].key, x>>
  OBVIOUS
<1>3. /\ slot' = slot /\ gets' = gets /\ out' = out /\ pc' = pc /\ then' = then
      /\ req' = req /\ todo' = todo /\ data' = data /\ latest' = latest /\ perm' = perm
      /\ epoch' = epoch
      /\ <<s, x>> \in puts[r] /\ puts'[r] = puts[r] \ {<<s, x>>}
      /\ memory' = [memory EXCEPT ![<<slot[r][s].addr, x>>] = data[r][s][x]]
  BY <1>1 DEF PutArrives, TypeOK
<1>4. x \in slot[r][s].valid
  BY <1>1, <1>3 DEF RankInv, WritebackInv
<1>5. slot[r][s].key \in Blocks /\ slot[r][s].addr = slot[r][s].key
  BY <1>1, <1>4, ValidHasBlock
<1>6. k \in Locs /\ k[1] = slot[r][s].key /\ k[2] = x
  BY <1>2, <1>5 DEF Locs
<1>7. Unsaved(r, s, k)
  BY <1>3, <1>6 DEF Unsaved
<1>8. data[r][s][x] = latest[k]
  BY <1>1, <1>6, <1>7 DEF UnsavedInv
<1>9. memory'[k] = latest[k] /\ \A l \in Locs : l # k => memory'[l] = memory[l]
  BY <1>1, <1>2, <1>3, <1>5, <1>6, <1>8 DEF TypeOK
<1>10. /\ CheckingOut(r)' <=> CheckingOut(r)
       /\ CheckingIn(r)' <=> CheckingIn(r)
       /\ Done(r)' = Done(r)
  BY <1>3 DEF CheckingOut, CheckingIn, Done
<1>11. HeldNow(r)' = HeldNow(r) /\ Using(r)' = Using(r)
  BY <1>3, <1>10 DEF HeldNow, Using
<1>12. \A l : BeingCheckedIn(r, l)' <=> BeingCheckedIn(r, l)
  BY <1>3, <1>10, <1>11 DEF BeingCheckedIn
<1>13. ASSUME NEW t \in Slots, NEW l \in Locs
       PROVE  /\ Unsaved(r, t, l)' => Unsaved(r, t, l)
              /\ l # k /\ Unsaved(r, t, l) => Unsaved(r, t, l)'
              /\ Holds(r, t, l)' <=> Holds(r, t, l)
  <2>1. Unsaved(r, t, l)' => Unsaved(r, t, l)
    BY <1>3, <1>12 DEF Unsaved
  <2>2. Holds(r, t, l)' <=> Holds(r, t, l)
    BY <1>3 DEF Holds
  <2>3. ASSUME l # k, Unsaved(r, t, l)
        PROVE  Unsaved(r, t, l)'
    <3>1. l = <<l[1], l[2]>>
      BY DEF Locs
    <3>2. slot[r][t].key = l[1]
      BY <2>3 DEF Unsaved
    <3>3. t # s \/ l[2] # x
      BY <1>2, <2>3, <3>1, <3>2
    <3>4. <<t, l[2]>> \in puts[r] => <<t, l[2]>> \in puts'[r]
      BY <1>3, <3>3
    <3>5. QED
      BY <1>3, <1>12, <2>3, <3>4 DEF Unsaved
  <2>4. QED
    BY <2>1, <2>2, <2>3
<1>14. \A p \in Ranks, l \in Locs : Overwriting(p, l)' <=> Overwriting(p, l)
  BY <1>11, SameOverwriting DEF SameView
<1>15. \A p \in Ranks, t \in Slots, l \in Locs :
         /\ Unsaved(p, t, l)' => Unsaved(p, t, l)
         /\ l # k /\ Unsaved(p, t, l) => Unsaved(p, t, l)'
         /\ Holds(p, t, l)' <=> Holds(p, t, l)
  BY <1>13 DEF SameView
<1>16. \A p, l : Owns(p, l)' <=> Owns(p, l)
  BY <1>3 DEF Owns
<1>17. UnsavedInv'
  BY <1>0, <1>1, <1>3, <1>15, <1>16 DEF UnsavedInv
<1>18. HomeInv'
  <2>1. ASSUME NEW l \in Locs
        PROVE  memory'[l] = latest[l] \/ \E p \in Ranks, t \in Slots : Unsaved(p, t, l)'
    <3>1. CASE l = k
      BY <1>9, <3>1
    <3>2. CASE l # k
      BY <1>1, <1>9, <1>15, <3>2 DEF HomeInv
    <3>3. QED
      BY <3>1, <3>2
  <2>2. QED
    BY <1>0, <1>3, <2>1 DEF HomeInv
<1>19. FreshInv'
  BY <1>0, <1>1, <1>3, <1>14, <1>15, <1>16 DEF FreshInv
<1>20. HandlerInv'
  BY <1>0, <1>1, <1>3 DEF HandlerInv
<1>21. QED
  BY <1>3, <1>11, <1>17, <1>18, <1>19, <1>20

\* Requests are for locations that exist.
LEMMA UsedLocs ==
  ASSUME TypeOK, NEW p \in Ranks, NEW o \in Using(p), NEW l \in LocsOf(o.blks)
  PROVE  l \in Locs
<1>1. o.blks \in Seq(Parts)
  <2>1. Requests \subseteq Seq(Parts)
    BY SetupFacts DEF TypeOK
  <2>2. CASE o \in out[p]
    BY <2>1, <2>2 DEF TypeOK
  <2>3. CASE o = req[p]
    BY <2>3 DEF TypeOK, RequestType
  <2>4. QED
    BY <2>2, <2>3 DEF Using
<1>2. PICK i \in DOMAIN o.blks : l \in {o.blks[i][1]} \X o.blks[i][2]
  BY DEF LocsOf
<1>3. o.blks[i] \in Parts
  BY <1>1
<1>4. QED
  BY <1>2, <1>3 DEF Parts, Locs

\* When the epoch moves on, everything is at home.
LEMMA CompleteWriteback ==
  ASSUME CacheInv, CoherenceInv, setup' = setup, NEW r \in Ranks, WritebackComplete(r),
         \A p \in Ranks : p # r => SameView(p)
  PROVE  /\ UnsavedInv' /\ HomeInv' /\ FreshInv' /\ HandlerInv'
         /\ perm' = perm /\ Using(r)' = Using(r)
<1> USE DEF cacheVars, rmaVars, wbVars, ctlVars, userVars, Goto
<1>0. Ranks' = Ranks /\ Slots' = Slots /\ Locs' = Locs
  BY SameSetup
<1>1. /\ TypeOK /\ RankInv(r) /\ UnsavedInv /\ HomeInv /\ FreshInv /\ HandlerInv
  BY DEF CacheInv, CoherenceInv
<1>2. /\ pc[r] = "flush" /\ pc'[r] = then[r] /\ puts[r] = {} /\ puts' = puts /\ slot' = slot
      /\ gets' = gets /\ data' = data /\ memory' = memory /\ latest' = latest /\ perm' = perm
      /\ out' = out /\ req' = req /\ then' = then
      /\ \A p \in Ranks : p # r => epoch'[p] = epoch[p]
  BY <1>1 DEF WritebackComplete, TypeOK
<1>3. then[r] \in {"idle", "checkout", "acquire"}
  BY <1>1, <1>2 DEF TypeOK, Thens, RankInv, ControlInv
<1>4. /\ CheckingOut(r)' <=> CheckingOut(r)
      /\ ~CheckingIn(r) /\ ~CheckingIn(r)'
  BY <1>2, <1>3 DEF CheckingOut, CheckingIn
<1>5. Using(r)' = Using(r)
  BY <1>2, <1>4 DEF Using
<1>6. \A s \in Slots : slot[r][s].dirty = {}
  BY <1>1, <1>2 DEF RankInv, WritebackInv
<1>7. \A s \in Slots, l \in Locs : ~Unsaved(r, s, l) /\ ~Unsaved(r, s, l)'
  BY <1>2, <1>4, <1>6 DEF Unsaved, BeingCheckedIn
<1>8. \A p \in Ranks, l \in Locs : Overwriting(p, l)' <=> Overwriting(p, l)
  BY <1>5, SameOverwriting DEF SameView
<1>9. \A p \in Ranks, s \in Slots, l \in Locs :
        /\ Unsaved(p, s, l)' <=> Unsaved(p, s, l)
        /\ Unsaved(p, s, l) => p # r
        /\ Holds(p, s, l)' <=> Holds(p, s, l)
  <2>1. \A s, l : Holds(r, s, l)' <=> Holds(r, s, l)
    BY <1>2 DEF Holds
  <2>2. QED
    BY <1>7, <2>1 DEF SameView
<1>10. \A p, l : Owns(p, l)' <=> Owns(p, l)
  BY <1>2 DEF Owns
<1>11. UnsavedInv'
  BY <1>0, <1>1, <1>2, <1>9, <1>10 DEF UnsavedInv
<1>12. HomeInv'
  BY <1>0, <1>1, <1>2, <1>9 DEF HomeInv
<1>13. FreshInv'
  BY <1>0, <1>1, <1>2, <1>8, <1>9, <1>10 DEF FreshInv
<1>14. HandlerInv'
  BY <1>0, <1>1, <1>2 DEF HandlerInv
<1>15. QED
  BY <1>2, <1>5, <1>11, <1>12, <1>13, <1>14

\* Handing over a location: the handler's epoch comes after the writeback of what
\* is newer than home.
LEMMA GiveView ==
  ASSUME CacheInv, CoherenceInv, setup' = setup, NEW r \in Ranks, NEW q \in Ranks, NEW l \in Locs,
         Give(r, q, l)
  PROVE  CoherenceInv'
<1> USE DEF cacheVars, rmaVars, wbVars, ctlVars, userVars
<1>0. Ranks' = Ranks /\ Slots' = Slots /\ Locs' = Locs
  BY SameSetup
<1>1. /\ TypeOK /\ RankInv(r) /\ UnsavedInv /\ HomeInv /\ FreshInv /\ HandlerInv
      /\ \A p \in Ranks : UsingInv(p) /\ AcquiringInv(p)
  BY DEF CacheInv, CoherenceInv
<1>2. /\ pc[r] = "idle" /\ r # q /\ Owns(r, l)
      /\ \A o \in out[r] : l \notin LocsOf(o.blks)
      /\ \A k \in Locs : k # l => perm'[k] = perm[k]
      /\ perm'[l] = [rank |-> q, h |-> ReleaseLazy(r), ok |-> FALSE]
      /\ memory' = memory /\ latest' = latest /\ epoch' = epoch /\ data' = data /\ then' = then
      /\ req' = req
  BY <1>1 DEF Give, Owns, TypeOK
<1>3. \A p \in Ranks : SameView(p)
  <2>1. \A p \in Ranks : SameRank(p) /\ data'[p] = data[p]
    BY DEF Give, SameRank
  <2>2. QED
    BY <2>1, FrameView
<1>4. \A p \in Ranks, s \in Slots, k \in Locs :
        /\ Unsaved(p, s, k)' <=> Unsaved(p, s, k)
        /\ Holds(p, s, k)' <=> Holds(p, s, k)
  BY <1>3 DEF SameView
<1>5. \A p \in Ranks, k \in Locs : Overwriting(p, k)' <=> Overwriting(p, k)
  BY <1>3, SameOverwriting DEF SameView
<1>6. \A p \in Ranks, k \in Locs : k # l => (Owns(p, k)' <=> Owns(p, k))
  BY <1>2 DEF Owns
<1>7. \A p \in Ranks : ~Owns(p, l)'
  BY <1>2 DEF Owns
<1>8. ~CheckingOut(r) /\ ~CheckingIn(r)
  BY <1>1, <1>2 DEF RankInv, ControlInv, CheckingOut, CheckingIn
<1>9. UnsavedInv'
  <2>1. ASSUME NEW p \in Ranks, NEW s \in Slots, Unsaved(p, s, l)
        PROVE  /\ data[p][s][l[2]] = latest[l]
               /\ perm'[l].h.rank = p /\ perm'[l].h.epoch > epoch[p]
    <3>1. p = r /\ data[p][s][l[2]] = latest[l]
      BY <1>1, <1>2, <2>1, UnsavedOwner
    <3>2. hasDirty[r] = TRUE
      <4>1. WritebackInv(r)
        BY <1>1 DEF RankInv
      <4>2. l[2] \in slot[r][s].dirty \/ <<s, l[2]>> \in puts[r]
        BY <1>8, <2>1, <3>1 DEF Unsaved, BeingCheckedIn
      <4>3. l[2] \in Regions
        BY DEF Locs
      <4>4. QED
        BY <4>1, <4>2, <4>3 DEF WritebackInv
    <3>3. perm'[l].h = [rank |-> r, epoch |-> epoch[r] + 1]
      BY <1>2, <3>2 DEF ReleaseLazy
    <3>4. epoch[r] \in Nat
      BY <1>1 DEF TypeOK
    <3>5. QED
      BY <3>1, <3>3, <3>4
  <2>2. ASSUME NEW p \in Ranks, NEW s \in Slots, NEW k \in Locs, Unsaved(p, s, k)
        PROVE  /\ data[p][s][k[2]] = latest[k]
               /\ \/ Owns(p, k)'
                  \/ perm'[k].ok = FALSE /\ perm'[k].h.rank = p /\ perm'[k].h.epoch > epoch[p]
    <3>1. CASE k = l
      BY <1>2, <2>1, <2>2, <3>1
    <3>2. CASE k # l
      BY <1>1, <1>2, <1>6, <2>2, <3>2 DEF UnsavedInv
    <3>3. QED
      BY <3>1, <3>2
  <2>3. ASSUME NEW p \in Ranks, NEW s \in Slots, NEW k \in Locs, Unsaved(p, s, k)'
        PROVE  (/\ data[p][s][k[2]] = latest[k]
                /\ \/ Owns(p, k)
                   \/ perm[k].ok = FALSE /\ perm[k].h.rank = p /\ perm[k].h.epoch > epoch[p])'
    <3>1. Unsaved(p, s, k)
      BY <1>4, <2>3
    <3>2. /\ data[p][s][k[2]] = latest[k]
          /\ \/ Owns(p, k)'
             \/ perm'[k].ok = FALSE /\ perm'[k].h.rank = p /\ perm'[k].h.epoch > epoch[p]
      BY <2>2, <3>1
    <3>3. data' = data /\ latest' = latest /\ epoch' = epoch
      BY <1>2
    <3>4. QED
      BY <3>2, <3>3
  <2>4. QED
    BY <1>0, <2>3 DEF UnsavedInv
<1>10. HomeInv'
  BY <1>0, <1>1, <1>2, <1>4 DEF HomeInv
<1>11. FreshInv'
  BY <1>0, <1>1, <1>2, <1>4, <1>5, <1>6, <1>7 DEF FreshInv
<1>12. HandlerInv'
  <2>1. perm'[l].h.epoch > 0 => perm'[l].h.rank = r
    BY <1>2 DEF ReleaseLazy, DummyHandler
  <2>2. QED
    BY <1>0, <1>1, <1>2, <2>1 DEF HandlerInv
<1>13. ASSUME NEW p \in Ranks
       PROVE  UsingInv(p)'
  <2>1. Using(p)' = Using(p) /\ UsingInv(p)
    BY <1>1, <1>3 DEF SameView
  <2>2. ASSUME NEW o \in Using(p), NEW k \in LocsOf(o.blks)
        PROVE  Owns(p, k)'
    <3>1. Owns(p, k)
      BY <2>1, <2>2 DEF UsingInv
    <3>2. k # l
      <4>1. ASSUME k = l
            PROVE  FALSE
        <5>1. p = r
          BY <1>2, <3>1, <4>1 DEF Owns
        <5>2. o \in out[r]
          BY <1>8, <2>2, <5>1 DEF Using
        <5>3. QED
          BY <1>2, <2>2, <4>1, <5>2
      <4>2. QED
        BY <4>1
    <3>3. k \in Locs
      BY <1>1, UsedLocs
    <3>4. QED
      BY <1>2, <3>1, <3>2, <3>3 DEF Owns
  <2>3. QED
    BY <2>1, <2>2, UsingFrame
<1>14. ASSUME NEW p \in Ranks
       PROVE  AcquiringInv(p)'
  <2>1. \A k \in Locs : perm[k].rank = p /\ perm[k].ok = FALSE => perm'[k] = perm[k]
    BY <1>2 DEF Owns
  <2>2. AcquiringInv(p)
    BY <1>1
  <2>3. then'[p] = "acquire" => then[p] = "acquire" /\ req'[p] = req[p]
    BY <1>2
  <2>4. QED
    BY <2>1, <2>2, <2>3, AcquiringFrame
<1>15. QED
  BY <1>0, <1>9, <1>10, <1>11, <1>12, <1>13, <1>14 DEF CoherenceInv

\* acquire: the epoch has come, so what others wrote to the location is at home,
\* and nothing old is left in the cache.
LEMMA AcquireView ==
  ASSUME CacheInv, CoherenceInv, setup' = setup, NEW r \in Ranks, AcquireInvalidate(r),
         \A p \in Ranks : p # r => SameView(p) /\ SameRank(p)
  PROVE  CoherenceInv'
<1> USE DEF cacheVars, rmaVars, wbVars, ctlVars, userVars, Goto
<1>0. Ranks' = Ranks /\ Slots' = Slots /\ Locs' = Locs
  BY SameSetup
<1>1. /\ TypeOK /\ RankInv(r) /\ UnsavedInv /\ HomeInv /\ FreshInv /\ HandlerInv
      /\ \A p \in Ranks : UsingInv(p) /\ AcquiringInv(p)
  BY DEF CacheInv, CoherenceInv
<1>2. pc[r] = "acquire" /\ then[r] = "acquire"
  BY <1>1 DEF AcquireInvalidate, RankInv, ControlInv
<1>3. PICK k \in Locs : req[r].blks = <<<<k[1], {k[2]}>>>> /\ perm[k].rank = r /\ perm[k].ok = FALSE
  BY <1>1, <1>2 DEF AcquiringInv
<1>4. <<req[r].blks[1][1], CHOOSE x \in req[r].blks[1][2] : TRUE>> = k
  <2>1. req[r].blks[1][1] = k[1] /\ req[r].blks[1][2] = {k[2]}
    BY <1>3
  <2>2. (CHOOSE x \in {k[2]} : TRUE) = k[2]
    OBVIOUS
  <2>3. k = <<k[1], k[2]>>
    BY DEF Locs
  <2>4. QED
    BY <2>1, <2>2, <2>3
<1>5. /\ perm[k].h.epoch > 0 /\ perm[k].h.rank # r => epoch[perm[k].h.rank] >= perm[k].h.epoch
      /\ perm' = [perm EXCEPT ![k].h = DummyHandler, ![k].ok = TRUE]
      /\ slot' = [slot EXCEPT ![r] = [s \in Slots |-> [slot[r][s] EXCEPT !.valid = {}]]]
      /\ pc' = [pc EXCEPT ![r] = "idle"] /\ then' = [then EXCEPT ![r] = "idle"]
      /\ memory' = memory /\ gets' = gets /\ puts' = puts /\ data' = data /\ out' = out
      /\ latest' = latest /\ epoch' = epoch
  BY <1>4 DEF AcquireInvalidate
<1>6. /\ \A l \in Locs : l # k => perm'[l] = perm[l]
      /\ perm'[k].rank = r /\ perm'[k].ok = TRUE
  <2>1. perm[k] \in [rank : Ranks, h : HandlerType, ok : BOOLEAN]
    BY <1>1 DEF TypeOK
  <2>2. perm'[k] = [perm[k] EXCEPT !.h = DummyHandler, !.ok = TRUE] /\ \A l \in Locs : l # k => perm'[l] = perm[l]
    BY <1>1, <1>5 DEF TypeOK
  <2>3. QED
    BY <1>3, <2>1, <2>2
<1>7. ASSUME NEW s \in Slots
      PROVE  slot'[r][s].key = slot[r][s].key /\ slot'[r][s].dirty = slot[r][s].dirty /\ slot'[r][s].valid = {}
  <2>1. slot'[r][s] = [slot[r][s] EXCEPT !.valid = {}] /\ slot[r][s] \in SlotType
    BY <1>1, <1>5 DEF TypeOK
  <2>2. QED
    BY <2>1 DEF SlotType
<1>8. pc'[r] = "idle" /\ then'[r] = "idle"
  BY <1>1, <1>5 DEF TypeOK
<1>9. ~CheckingOut(r) /\ ~CheckingOut(r)' /\ ~CheckingIn(r) /\ ~CheckingIn(r)'
  BY <1>2, <1>8 DEF CheckingOut, CheckingIn
<1>10. Using(r)' = Using(r)
  BY <1>5, <1>9 DEF Using
<1>11. \A s \in Slots, l \in Locs : (Unsaved(r, s, l)' <=> Unsaved(r, s, l)) /\ ~Holds(r, s, l)'
  BY <1>5, <1>7, <1>9 DEF Unsaved, BeingCheckedIn, Holds
<1>12. \A p \in Ranks, s \in Slots, l \in Locs :
         /\ Unsaved(p, s, l)' <=> Unsaved(p, s, l)
         /\ Holds(p, s, l)' => Holds(p, s, l) /\ p # r
  BY <1>11 DEF SameView
<1>13. \A p \in Ranks, l \in Locs : Overwriting(p, l)' <=> Overwriting(p, l)
  BY <1>10, SameOverwriting DEF SameView
<1>14. \A p \in Ranks, l \in Locs : l # k => (Owns(p, l)' <=> Owns(p, l))
  BY <1>6 DEF Owns
<1>15. \A p \in Ranks : Owns(p, k)' => p = r
  BY <1>6 DEF Owns
<1>16. UnsavedInv'
  <2>1. ASSUME NEW p \in Ranks, NEW s \in Slots, Unsaved(p, s, k)
        PROVE  FALSE
    <3>1. perm[k].h.rank = p /\ perm[k].h.epoch > epoch[p]
      BY <1>1, <1>3, <2>1 DEF UnsavedInv, Owns
    <3>2. epoch[p] \in Nat /\ perm[k].h.epoch \in Nat
      BY <1>1 DEF TypeOK, HandlerType
    <3>3. perm[k].h.epoch > 0 /\ ~(epoch[p] >= perm[k].h.epoch)
      BY <3>1, <3>2
    <3>4. p # r
      BY <1>1, <1>3, <3>1, <3>3 DEF HandlerInv
    <3>5. QED
      BY <1>5, <3>1, <3>3, <3>4
  <2>2. ASSUME NEW p \in Ranks, NEW s \in Slots, NEW l \in Locs, Unsaved(p, s, l)'
        PROVE  (/\ data[p][s][l[2]] = latest[l]
                /\ \/ Owns(p, l)
                   \/ perm[l].ok = FALSE /\ perm[l].h.rank = p /\ perm[l].h.epoch > epoch[p])'
    <3>1. Unsaved(p, s, l) /\ l # k
      BY <1>12, <2>1, <2>2
    <3>2. /\ data[p][s][l[2]] = latest[l]
          /\ \/ Owns(p, l)
             \/ perm[l].ok = FALSE /\ perm[l].h.rank = p /\ perm[l].h.epoch > epoch[p]
      BY <1>1, <3>1 DEF UnsavedInv
    <3>3. QED
      BY <1>5, <1>6, <1>14, <3>1, <3>2
  <2>3. QED
    BY <1>0, <2>2 DEF UnsavedInv
<1>17. HomeInv'
  BY <1>0, <1>1, <1>5, <1>12 DEF HomeInv
<1>18. FreshInv'
  <2>1. ASSUME NEW p \in Ranks, NEW s \in Slots, NEW l \in Locs,
               Owns(p, l)', Holds(p, s, l)', ~Overwriting(p, l)'
        PROVE  data[p][s][l[2]] = latest[l]
    <3>1. Holds(p, s, l) /\ p # r /\ ~Overwriting(p, l)
      BY <1>12, <1>13, <2>1
    <3>2. l # k
      BY <1>15, <2>1, <3>1
    <3>3. QED
      BY <1>1, <1>14, <2>1, <3>1, <3>2 DEF FreshInv
  <2>2. QED
    BY <1>0, <1>5, <2>1 DEF FreshInv
<1>19. HandlerInv'
  BY <1>0, <1>1, <1>6 DEF HandlerInv
<1>20. ASSUME NEW p \in Ranks
       PROVE  UsingInv(p)'
  <2>1. Using(p)' = Using(p) /\ UsingInv(p)
    BY <1>1, <1>10 DEF SameView
  <2>2. ASSUME NEW o \in Using(p), NEW l \in LocsOf(o.blks)
        PROVE  Owns(p, l)'
    <3>1. Owns(p, l)
      BY <2>1, <2>2 DEF UsingInv
    <3>2. l # k
      BY <1>3, <3>1 DEF Owns
    <3>3. perm'[l] = perm[l]
      <4>1. l \in Locs
        BY <1>1, UsedLocs
      <4>2. QED
        BY <1>6, <3>2, <4>1
    <3>4. QED
      BY <3>1, <3>3 DEF Owns
  <2>3. QED
    BY <2>1, <2>2, UsingFrame
<1>21. ASSUME NEW p \in Ranks
       PROVE  AcquiringInv(p)'
  <2>1. CASE p = r
    BY <1>8, <2>1 DEF AcquiringInv
  <2>2. CASE p # r
    <3>1. AcquiringInv(p) /\ then'[p] = then[p] /\ req'[p] = req[p]
      BY <1>1, <2>2 DEF SameRank
    <3>2. \A l \in Locs : perm[l].rank = p /\ perm[l].ok = FALSE => perm'[l] = perm[l]
      BY <1>3, <1>6, <2>2
    <3>3. QED
      BY <3>1, <3>2, AcquiringFrame
  <2>3. QED
    BY <2>1, <2>2
<1>22. QED
  BY <1>0, <1>16, <1>17, <1>18, <1>19, <1>20, <1>21 DEF CoherenceInv

\* The program's writes: they reach the slots that hold what it has checked out,
\* and no others.
LEMMA Written ==
  ASSUME TypeOK, NEW r \in Ranks, RankInv(r), NEW q \in out[r], CheckinCall(r, q),
         NEW s \in Slots, NEW l \in Locs, slot[r][s].key = l[1]
  PROVE  /\ l \in WrittenBy(q) => data'[r][s][l[2]] = latest[l] + 1
         /\ l \notin WrittenBy(q) => data'[r][s][l[2]] = data[r][s][l[2]]
<1> DEFINE L == {m \in WrittenBy(q) : m[2] = l[2] /\ vm[r][m[1]] = s}
<1>1. l[1] \in Blocks /\ l[2] \in Regions /\ l = <<l[1], l[2]>>
  BY DEF Locs
<1>2. data'[r][s][l[2]] = IF L = {} THEN data[r][s][l[2]] ELSE latest[CHOOSE m \in L : TRUE] + 1
  BY <1>1 DEF CheckinCall, TypeOK
<1>3. ASSUME NEW m \in WrittenBy(q)
      PROVE  vm[r][m[1]] \in Slots /\ slot[r][vm[r][m[1]]].key = m[1] /\ m = <<m[1], m[2]>>
  <2>1. m \in LocsOf(q.blks)
    BY <1>3 DEF WrittenBy
  <2>2. PICK i \in DOMAIN q.blks : m \in {q.blks[i][1]} \X q.blks[i][2]
    BY <2>1 DEF LocsOf
  <2>3. QED
    BY <2>2, OutIsMapped
<1>4. \A m \in L : m = l
  BY <1>1, <1>3
<1>5. l \in WrittenBy(q) => l \in L
  <2>1. ASSUME l \in WrittenBy(q)
        PROVE  l \in L
    <3>1. vm[r][l[1]] \in Slots /\ slot[r][vm[r][l[1]]].key = l[1]
      BY <1>3, <2>1
    <3>2. l[1] # NoBlock
      BY <1>1, SetupFacts DEF TypeOK
    <3>3. vm[r][l[1]] = s
      BY <3>1, <3>2 DEF RankInv, KeysInv
    <3>4. QED
      BY <2>1, <3>3
  <2>2. QED
    BY <2>1
<1>6. L \subseteq WrittenBy(q)
  OBVIOUS
<1> HIDE DEF L
<1>7. ASSUME l \in WrittenBy(q)
      PROVE  data'[r][s][l[2]] = latest[l] + 1
  <2>1. (CHOOSE m \in L : TRUE) = l
    BY <1>4, <1>5, <1>7
  <2>2. QED
    BY <1>2, <1>5, <1>7, <2>1
<1>8. ASSUME l \notin WrittenBy(q)
      PROVE  data'[r][s][l[2]] = data[r][s][l[2]]
  <2>1. L = {}
    BY <1>4, <1>6, <1>8
  <2>2. QED
    BY <1>2, <2>1
<1>9. QED
  BY <1>7, <1>8

\* checkin of a request that has been written makes its copies newer than home.
LEMMA CheckinCallView ==
  ASSUME CacheInv, CoherenceInv, setup' = setup, NEW r \in Ranks, NEW q \in out[r], CheckinCall(r, q),
         \A p \in Ranks : p # r => SameView(p)
  PROVE  /\ UnsavedInv' /\ HomeInv' /\ FreshInv' /\ HandlerInv'
         /\ perm' = perm /\ then' = then /\ pc[r] = "idle" /\ Using(r)' \subseteq Using(r)
<1> USE DEF cacheVars, rmaVars, wbVars, ctlVars, userVars, Goto
<1>0. Ranks' = Ranks /\ Slots' = Slots /\ Locs' = Locs
  BY SameSetup
<1>1. /\ TypeOK /\ RankInv(r) /\ UnsavedInv /\ HomeInv /\ FreshInv /\ HandlerInv /\ UsingInv(r)
  BY DEF CacheInv, CoherenceInv
<1>2. /\ pc[r] = "idle" /\ pc'[r] = "checkin" /\ then' = then /\ out'[r] = out[r] \ {q}
      /\ req'[r] = q /\ todo'[r] = q.blks
      /\ slot' = slot /\ gets' = gets /\ puts' = puts /\ memory' = memory /\ perm' = perm
      /\ epoch' = epoch
  BY <1>1 DEF CheckinCall, TypeOK
<1>3. PICK W : W = WrittenBy(q)
  OBVIOUS
<1>4. \A l \in Locs : latest'[l] = IF l \in W THEN latest[l] + 1 ELSE latest[l]
  BY <1>3 DEF CheckinCall
<1>5. \A s \in Slots, l \in Locs : slot[r][s].key = l[1] =>
        /\ l \in W => data'[r][s][l[2]] = latest[l] + 1
        /\ l \notin W => data'[r][s][l[2]] = data[r][s][l[2]]
  BY <1>1, <1>3, Written
<1>6. ~CheckingOut(r) /\ ~CheckingOut(r)' /\ ~CheckingIn(r) /\ CheckingIn(r)'
  BY <1>1, <1>2 DEF CheckingOut, CheckingIn, RankInv, ControlInv
<1>7. HeldNow(r)' = DOMAIN q.blks
  <2>1. q.blks \in Seq(Parts)
    BY <1>1, SetupFacts DEF TypeOK
  <2>2. Done(r)' = 0
    BY <1>2, <2>1 DEF Done
  <2>3. QED
    BY <1>2, <1>6, <2>1, <2>2 DEF HeldNow
<1>8. q \in Using(r) /\ Using(r)' \subseteq Using(r)
  BY <1>2, <1>6 DEF Using
<1>9. \A l \in Locs : BeingCheckedIn(r, l)' <=> l \in W
  <2>1. ASSUME NEW l \in Locs
        PROVE  BeingCheckedIn(r, l)' <=> l \in W
    <3>1. l = <<l[1], l[2]>>
      BY DEF Locs
    <3>2. l \in LocsOf(q.blks) <=> \E i \in DOMAIN q.blks : q.blks[i][1] = l[1] /\ l[2] \in q.blks[i][2]
      BY <3>1 DEF LocsOf
    <3>3. BeingCheckedIn(r, l)' <=> q.mode # "read" /\ l \in LocsOf(q.blks)
      BY <1>2, <1>6, <1>7, <3>2 DEF BeingCheckedIn
    <3>4. QED
      BY <1>3, <3>3 DEF WrittenBy
  <2>2. QED
    BY <2>1
<1>10. \A l \in W : Owns(r, l)
  BY <1>1, <1>3, <1>8 DEF WrittenBy, UsingInv
<1>11. \A s \in Slots, l \in Locs :
         /\ Unsaved(r, s, l)' <=> (Unsaved(r, s, l) \/ (slot[r][s].key = l[1] /\ l \in W))
         /\ Holds(r, s, l)' <=> Holds(r, s, l)
  <2>1. \A l : ~BeingCheckedIn(r, l)
    BY <1>6 DEF BeingCheckedIn
  <2>2. QED
    BY <1>2, <1>9, <2>1 DEF Unsaved, Holds
<1>12. \A p, l : Owns(p, l)' <=> Owns(p, l)
  BY <1>2 DEF Owns
<1>13. \A p \in Ranks, l \in Locs : p # r => (Overwriting(p, l)' <=> Overwriting(p, l))
  BY SameOverwriting DEF SameView
<1>14. \A l \in Locs : ~Overwriting(r, l)' /\ l \notin W => ~Overwriting(r, l)
  <2>1. ASSUME NEW l \in Locs, Overwriting(r, l), l \notin W
        PROVE  Overwriting(r, l)'
    <3>1. PICK o \in Using(r) : o.mode = "write" /\ l \in LocsOf(o.blks)
      BY <2>1 DEF Overwriting
    <3>2. o # q
      BY <1>3, <2>1, <3>1 DEF WrittenBy
    <3>3. o \in Using(r)'
      BY <1>2, <1>6, <3>1, <3>2 DEF Using
    <3>4. QED
      BY <3>1, <3>3 DEF Overwriting
  <2>2. QED
    BY <2>1
<1>15. UnsavedInv'
  <2>1. ASSUME NEW p \in Ranks, NEW s \in Slots, NEW l \in Locs, Unsaved(p, s, l)'
        PROVE  (/\ data[p][s][l[2]] = latest[l]
                /\ \/ Owns(p, l)
                   \/ perm[l].ok = FALSE /\ perm[l].h.rank = p /\ perm[l].h.epoch > epoch[p])'
    <3>1. CASE p = r /\ l \in W
      <4>1. slot[r][s].key = l[1]
        BY <1>11, <2>1, <3>1 DEF Unsaved
      <4>2. data'[r][s][l[2]] = latest[l] + 1 /\ latest'[l] = latest[l] + 1
        BY <1>4, <1>5, <3>1, <4>1
      <4>3. QED
        BY <1>10, <1>12, <3>1, <4>2
    <3>2. CASE ~(p = r /\ l \in W)
      <4>1. Unsaved(p, s, l)
        BY <1>11, <2>1, <3>2 DEF SameView
      <4>2. l \notin W
        BY <1>1, <1>10, <3>2, <4>1, UnsavedOwner
      <4>3. data'[p][s][l[2]] = data[p][s][l[2]]
        <5>1. CASE p = r
          BY <1>5, <4>1, <4>2, <5>1 DEF Unsaved
        <5>2. CASE p # r
          BY <5>2 DEF SameView
        <5>3. QED
          BY <5>1, <5>2
      <4>4. /\ data[p][s][l[2]] = latest[l]
            /\ \/ Owns(p, l)
               \/ perm[l].ok = FALSE /\ perm[l].h.rank = p /\ perm[l].h.epoch > epoch[p]
        BY <1>1, <4>1 DEF UnsavedInv
      <4>5. latest'[l] = latest[l] /\ perm' = perm /\ epoch' = epoch
        BY <1>2, <1>4, <4>2
      <4>6. QED
        BY <1>12, <4>3, <4>4, <4>5
    <3>3. QED
      BY <3>1, <3>2
  <2>2. QED
    BY <1>0, <2>1 DEF UnsavedInv
<1>16. HomeInv'
  <2>1. ASSUME NEW l \in Locs
        PROVE  memory'[l] = latest'[l] \/ \E p \in Ranks, s \in Slots : Unsaved(p, s, l)'
    <3>1. CASE l \in W
      <4>1. l \in LocsOf(q.blks)
        BY <1>3, <3>1 DEF WrittenBy
      <4>2. PICK i \in DOMAIN q.blks : l \in {q.blks[i][1]} \X q.blks[i][2]
        BY <4>1 DEF LocsOf
      <4>3. PICK s \in Slots : slot[r][s].key = l[1]
        <5>1. vm[r][q.blks[i][1]] \in Slots /\ slot[r][vm[r][q.blks[i][1]]].key = q.blks[i][1]
          BY <1>1, OutIsMapped
        <5>2. QED
          BY <4>2, <5>1
      <4>4. Unsaved(r, s, l)'
        BY <1>11, <3>1, <4>3
      <4>5. QED
        BY <4>4
    <3>2. CASE l \notin W
      <4>1. memory'[l] = memory[l] /\ latest'[l] = latest[l]
        BY <1>2, <1>4, <3>2
      <4>2. \A p \in Ranks, s \in Slots : Unsaved(p, s, l) => Unsaved(p, s, l)'
        BY <1>11 DEF SameView
      <4>3. QED
        BY <1>1, <4>1, <4>2 DEF HomeInv
    <3>3. QED
      BY <3>1, <3>2
  <2>2. QED
    BY <1>0, <2>1 DEF HomeInv
<1>17. FreshInv'
  <2>1. ASSUME NEW p \in Ranks, NEW s \in Slots, NEW l \in Locs,
               Owns(p, l)', Holds(p, s, l)', ~Overwriting(p, l)'
        PROVE  data'[p][s][l[2]] = latest'[l]
    <3>1. Owns(p, l)
      BY <1>12, <2>1
    <3>2. CASE p = r /\ l \in W
      BY <1>4, <1>5, <1>11, <2>1, <3>2 DEF Holds
    <3>3. CASE p = r /\ l \notin W
      <4>1. Holds(r, s, l) /\ ~Overwriting(r, l)
        BY <1>11, <1>14, <2>1, <3>3
      <4>2. data[r][s][l[2]] = latest[l]
        BY <1>1, <3>1, <3>3, <4>1 DEF FreshInv
      <4>3. QED
        BY <1>4, <1>5, <3>3, <4>1, <4>2 DEF Holds
    <3>4. CASE p # r
      <4>1. l \notin W
        BY <1>10, <3>1, <3>4 DEF Owns
      <4>2. Holds(p, s, l) /\ ~Overwriting(p, l) /\ data'[p][s][l[2]] = data[p][s][l[2]]
        BY <1>13, <2>1, <3>4 DEF SameView
      <4>3. data[p][s][l[2]] = latest[l]
        BY <1>1, <3>1, <4>2 DEF FreshInv
      <4>4. QED
        BY <1>4, <4>1, <4>2, <4>3
    <3>5. QED
      BY <3>2, <3>3, <3>4
  <2>2. QED
    BY <1>0, <2>1 DEF FreshInv
<1>18. HandlerInv'
  BY <1>0, <1>1, <1>2 DEF HandlerInv
<1>19. QED
  BY <1>2, <1>8, <1>15, <1>16, <1>17, <1>18

-----------------------------------------------------------------------------
(* The invariant.                                                           *)

\* At the start everything is at home.
LEMMA InitCoherence ==
  ASSUME Init
  PROVE  CoherenceInv
<1>1. \A r \in Ranks :
        /\ out[r] = {} /\ pc[r] = "idle" /\ then[r] = "idle" /\ puts[r] = {}
        /\ \A s \in Slots : slot[r][s].valid = {} /\ slot[r][s].dirty = {}
  BY DEF Init, EmptySlot
<1>2. \A r \in Ranks : ~CheckingOut(r) /\ ~CheckingIn(r)
  BY <1>1 DEF CheckingOut, CheckingIn
<1>3. \A r \in Ranks, s \in Slots, l \in Locs : ~Unsaved(r, s, l) /\ ~Holds(r, s, l)
  BY <1>1, <1>2 DEF Unsaved, Holds, BeingCheckedIn
<1>4. \A r \in Ranks : Using(r) = {}
  BY <1>1, <1>2 DEF Using
<1>5. \A l \in Locs : memory[l] = latest[l] /\ perm[l].ok = TRUE
  BY DEF Init
<1>6. UnsavedInv /\ HomeInv /\ FreshInv
  BY <1>3, <1>5 DEF UnsavedInv, HomeInv, FreshInv
<1>7. HandlerInv
  BY <1>5 DEF HandlerInv
<1>8. \A r \in Ranks : UsingInv(r) /\ AcquiringInv(r)
  BY <1>1, <1>4 DEF UsingInv, AcquiringInv
<1>9. QED
  BY <1>6, <1>7, <1>8 DEF CoherenceInv

\* With nobody's rights changed, the ranks use what they may use.
LEMMA UsersKept ==
  ASSUME setup' = setup, perm' = perm, NEW p \in Ranks, UsingInv(p), AcquiringInv(p),
         Using(p)' \subseteq Using(p),
         then'[p] = "acquire" => then[p] = "acquire" /\ req'[p] = req[p]
  PROVE  UsingInv(p)' /\ AcquiringInv(p)'
<1>1. \A l : Owns(p, l)' <=> Owns(p, l)
  BY DEF Owns
<1>2. \A q \in Using(p) : \A l \in LocsOf(q.blks) : Owns(p, l)'
  BY <1>1 DEF UsingInv
<1>3. UsingInv(p)'
  BY <1>2, UsingFrame
<1>4. AcquiringInv(p)'
  BY AcquiringFrame
<1>5. QED
  BY <1>3, <1>4

\* A rank that another one's step leaves alone.
LEMMA OthersKept ==
  ASSUME setup' = setup, perm' = perm, NEW p \in Ranks, UsingInv(p), AcquiringInv(p),
         SameView(p), SameRank(p)
  PROVE  UsingInv(p)' /\ AcquiringInv(p)'
<1>1. Using(p)' \subseteq Using(p) /\ then'[p] = then[p] /\ req'[p] = req[p]
  BY DEF SameView, SameRank
<1>2. QED
  BY <1>1, UsersKept

\* The call of checkout: the program may use what it asks for.
LEMMA CheckoutUses ==
  ASSUME TypeOK, NEW r \in Ranks, UsingInv(r), NEW blks \in Requests, NEW mode \in Modes,
         CheckoutCall(r, blks, mode), ~CheckingOut(r), out' = out
  PROVE  UsingInv(r)' /\ then'[r] = "idle"
<1> USE DEF cacheVars, rmaVars, wbVars, ctlVars, userVars, Goto
<1>1. PICK q : q = [blks |-> blks, mode |-> mode]
  OBVIOUS
<1>2. /\ req'[r] = q /\ then'[r] = "idle" /\ perm' = perm /\ q.blks = blks
      /\ \A l \in LocsOf(blks) : Owns(r, l)
      /\ \A o \in out[r] : WrittenBy(o) \cap LocsOf(blks) = {} /\ WrittenBy(q) \cap LocsOf(o.blks) = {}
  BY <1>1 DEF CheckoutCall, Owns, TypeOK
<1>3. Using(r) = out[r] /\ Using(r)' \subseteq out[r] \cup {q}
  BY <1>2 DEF Using
<1>4. \A l : Owns(r, l)' <=> Owns(r, l)
  BY <1>2 DEF Owns
<1>5. ASSUME NEW o \in out[r] \cup {q}
      PROVE  /\ \A l \in LocsOf(o.blks) : Owns(r, l)
             /\ \A u \in out[r] \cup {q} : u # o => WrittenBy(o) \cap LocsOf(u.blks) = {}
  <2>1. CASE o = q
    BY <1>2, <2>1
  <2>2. CASE o \in out[r]
    BY <1>2, <1>3, <2>2 DEF UsingInv
  <2>3. QED
    BY <2>1, <2>2
<1>6. UsingInv(r)'
  BY <1>3, <1>4, <1>5 DEF UsingInv
<1>7. QED
  BY <1>2, <1>6

\* The call of acquire is for a location handed to the rank.
LEMMA AcquireUses ==
  ASSUME TypeOK, setup' = setup, NEW r \in Ranks, NEW l \in Locs, AcquireCall(r, l), ~CheckingOut(r),
         out' = out
  PROVE  AcquiringInv(r)' /\ Using(r)' \subseteq Using(r)
<1> USE DEF cacheVars, rmaVars, wbVars, ctlVars, userVars, Goto
<1>0. Locs' = Locs
  BY SameSetup
<1>1. /\ req'[r].blks = <<<<l[1], {l[2]}>>>> /\ pc'[r] = "writeback" /\ then'[r] = "acquire"
      /\ perm' = perm /\ perm[l].rank = r /\ ~perm[l].ok
  BY DEF AcquireCall, TypeOK
<1>2. perm[l].ok = FALSE
  <2>1. perm[l].ok \in BOOLEAN
    BY DEF TypeOK
  <2>2. QED
    BY <1>1, <2>1
<1>3. AcquiringInv(r)'
  BY <1>0, <1>1, <1>2 DEF AcquiringInv
<1>4. ~CheckingOut(r)'
  BY <1>1 DEF CheckingOut
<1>5. Using(r)' \subseteq Using(r)
  BY <1>4 DEF Using
<1>6. QED
  BY <1>3, <1>5

\* A step of one rank keeps the invariant.
LEMMA StepCoherence ==
  ASSUME CacheInv, CoherenceInv, setup' = setup, NEW r \in Ranks, RankNext(r)
  PROVE  CoherenceInv'
<1>0. Ranks' = Ranks
  BY SameSetup
<1>1. /\ TypeOK /\ RankInv(r) /\ UnsavedInv /\ HomeInv /\ FreshInv /\ HandlerInv
      /\ \A p \in Ranks : UsingInv(p) /\ AcquiringInv(p)
  BY DEF CacheInv, CoherenceInv
<1>2. \A p \in Ranks : p # r => SameView(p) /\ SameRank(p)
  <2>1. ASSUME NEW p \in Ranks, p # r
        PROVE  SameView(p) /\ SameRank(p)
    <3>1. SameRank(p)
      BY <1>1, <2>1, OthersSame
    <3>2. data'[p] = data[p]
      BY <1>1, <2>1, OthersData
    <3>3. QED
      BY <3>1, <3>2, FrameView
  <2>2. QED
    BY <2>1
<1>3. ASSUME perm' = perm, UsingInv(r)' /\ AcquiringInv(r)',
             UnsavedInv' /\ HomeInv' /\ FreshInv' /\ HandlerInv'
      PROVE  CoherenceInv'
  <2>1. \A p \in Ranks : UsingInv(p)' /\ AcquiringInv(p)'
    BY <1>1, <1>2, <1>3, OthersKept
  <2>2. QED
    BY <1>0, <1>3, <2>1 DEF CoherenceInv
<1>4. ASSUME SameWorld, ViewKept(r)
      PROVE  UnsavedInv' /\ HomeInv' /\ FreshInv' /\ HandlerInv' /\ perm' = perm
  <2>1. \A p \in Ranks : ViewKept(p)
    BY <1>2, <1>4, SameIsKept
  <2>2. UnsavedInv' /\ HomeInv' /\ FreshInv' /\ HandlerInv'
    BY <1>1, <1>4, <2>1, KeptInv
  <2>3. QED
    BY <1>4, <2>2 DEF SameWorld
<1>5. ASSUME KeptStep(r)
      PROVE  CoherenceInv'
  <2>1. SameWorld /\ ViewKept(r) /\ Using(r)' \subseteq Using(r)
    BY <1>5 DEF KeptStep
  <2>2. then'[r] = "acquire" => then[r] = "acquire" /\ req'[r] = req[r]
    BY <1>5 DEF KeptStep
  <2>3. UnsavedInv' /\ HomeInv' /\ FreshInv' /\ HandlerInv' /\ perm' = perm
    BY <1>4, <2>1
  <2>4. UsingInv(r)' /\ AcquiringInv(r)'
    BY <1>1, <2>1, <2>2, <2>3, UsersKept
  <2>5. QED
    BY <1>3, <2>3, <2>4
<1>6. ASSUME NEW blks \in Requests, NEW mode \in Modes, CheckoutCall(r, blks, mode)
      PROVE  CoherenceInv'
  <2>1. SameWorld /\ ViewKept(r) /\ ~CheckingOut(r) /\ out' = out
    BY <1>1, <1>6, CallView
  <2>2. UnsavedInv' /\ HomeInv' /\ FreshInv' /\ HandlerInv' /\ perm' = perm
    BY <1>4, <2>1
  <2>3. UsingInv(r)' /\ then'[r] = "idle"
    BY <1>1, <1>6, <2>1, CheckoutUses
  <2>4. AcquiringInv(r)'
    BY <2>3 DEF AcquiringInv
  <2>5. QED
    BY <1>3, <2>2, <2>3, <2>4
<1>7. ASSUME NEW l \in Locs, AcquireCall(r, l)
      PROVE  CoherenceInv'
  <2>1. SameWorld /\ ViewKept(r) /\ ~CheckingOut(r) /\ out' = out
    BY <1>1, <1>7, CallView
  <2>2. UnsavedInv' /\ HomeInv' /\ FreshInv' /\ HandlerInv' /\ perm' = perm
    BY <1>4, <2>1
  <2>3. AcquiringInv(r)' /\ Using(r)' \subseteq Using(r)
    BY <1>1, <1>7, <2>1, AcquireUses
  <2>4. \A q \in Using(r) : \A k \in LocsOf(q.blks) : Owns(r, k)'
    BY <1>1, <2>2 DEF UsingInv, Owns
  <2>5. UsingInv(r)'
    BY <1>1, <2>3, <2>4, UsingFrame
  <2>6. QED
    BY <1>3, <2>2, <2>3, <2>5
<1>8. ASSUME NEW q \in out[r], CheckinCall(r, q)
      PROVE  CoherenceInv'
  <2>1. /\ UnsavedInv' /\ HomeInv' /\ FreshInv' /\ HandlerInv'
        /\ perm' = perm /\ then' = then /\ pc[r] = "idle" /\ Using(r)' \subseteq Using(r)
    BY <1>2, <1>8, CheckinCallView
  <2>2. then'[r] # "acquire"
    BY <1>1, <2>1 DEF RankInv, ControlInv
  <2>3. UsingInv(r)' /\ AcquiringInv(r)'
    BY <1>1, <2>1, <2>2, UsersKept
  <2>4. QED
    BY <1>3, <2>1, <2>3
<1>9. ASSUME NEW q \in Ranks, NEW l \in Locs, Give(r, q, l)
      PROVE  CoherenceInv'
  BY <1>9, GiveView
<1>10. ASSUME CheckoutFast(r) \/ CheckoutHit(r) \/ CheckoutMiss(r)
       PROVE  CoherenceInv'
  <2>1. \E s, b, X, V, F : PinsBlock(r, s, b, X, V, F)
    <3>1. CASE CheckoutFast(r)
      BY <1>1, <3>1, FastPins
    <3>2. CASE CheckoutHit(r)
      BY <1>1, <3>2, HitPins
    <3>3. CASE CheckoutMiss(r)
      BY <1>1, <3>3, MissPins
    <3>4. QED
      BY <1>10, <3>1, <3>2, <3>3
  <2>2. KeptStep(r)
    BY <1>1, <2>1, PinView
  <2>3. QED
    BY <1>5, <2>2
<1>11. ASSUME \/ ReleaseCall(r) \/ CheckoutFull(r) \/ CheckoutDies(r)
              \/ WritebackOverlap(r) \/ WritebackBegun(r)
       PROVE  CoherenceInv'
  BY <1>1, <1>5, <1>11, ControlView
<1>12. ASSUME CheckoutComplete(r)
       PROVE  CoherenceInv'
  BY <1>1, <1>5, <1>12, CompleteView
<1>13. ASSUME CheckinBlk(r)
       PROVE  CoherenceInv'
  BY <1>1, <1>5, <1>13, CheckinView
<1>14. ASSUME CheckinReturns(r)
       PROVE  CoherenceInv'
  BY <1>1, <1>5, <1>14, ReturnView
<1>15. ASSUME WritebackBlk(r)
       PROVE  CoherenceInv'
  BY <1>1, <1>5, <1>15, WritebackView
<1>16. ASSUME WritebackComplete(r)
       PROVE  CoherenceInv'
  <2>1. /\ UnsavedInv' /\ HomeInv' /\ FreshInv' /\ HandlerInv'
        /\ perm' = perm /\ Using(r)' = Using(r)
    BY <1>2, <1>16, CompleteWriteback
  <2>2. then'[r] = then[r] /\ req'[r] = req[r]
    BY <1>16 DEF WritebackComplete
  <2>3. UsingInv(r)' /\ AcquiringInv(r)'
    BY <1>1, <2>1, <2>2, UsersKept
  <2>4. QED
    BY <1>3, <2>1, <2>3
<1>17. ASSUME AcquireInvalidate(r)
       PROVE  CoherenceInv'
  BY <1>2, <1>17, AcquireView
<1>18. ASSUME NEW s \in Slots, NEW x \in Regions, GetArrives(r, s, x) \/ PutArrives(r, s, x)
       PROVE  CoherenceInv'
  <2>1. /\ UnsavedInv' /\ HomeInv' /\ FreshInv' /\ HandlerInv'
        /\ perm' = perm /\ Using(r)' = Using(r)
    <3>1. CASE GetArrives(r, s, x)
      BY <1>2, <3>1, GetView DEF SameWorld
    <3>2. CASE PutArrives(r, s, x)
      BY <1>2, <3>2, PutView
    <3>3. QED
      BY <1>18, <3>1, <3>2
  <2>2. then'[r] = then[r] /\ req'[r] = req[r]
    BY <1>18 DEF GetArrives, PutArrives, ctlVars
  <2>3. UsingInv(r)' /\ AcquiringInv(r)'
    BY <1>1, <2>1, <2>2, UsersKept
  <2>4. QED
    BY <1>3, <2>1, <2>3
<1>19. QED
  BY <1>6, <1>7, <1>8, <1>9, <1>10, <1>11, <1>12, <1>13, <1>14, <1>15, <1>16, <1>17, <1>18
  DEF RankNext, RankStep

\* The invariant is inductive, given that of CacheManagerProofs.
LEMMA NextCoherence == CacheInv /\ CoherenceInv /\ [Next]_vars => CoherenceInv'
<1> SUFFICES ASSUME CacheInv, CoherenceInv, [Next]_vars
    PROVE  CoherenceInv'
  OBVIOUS
<1>1. CASE UNCHANGED vars
  <2>1. setup' = setup
    BY <1>1 DEF vars
  <2>2. \A p \in Ranks : SameRank(p) /\ data'[p] = data[p]
    BY <1>1 DEF vars, SameRank
  <2>3. \A p \in Ranks : SameView(p)
    BY <2>2, FrameView
  <2>4. \A p \in Ranks : ViewKept(p)
    BY <2>3, SameIsKept
  <2>5. SameWorld
    BY <1>1 DEF vars, SameWorld
  <2>6. /\ UnsavedInv /\ HomeInv /\ FreshInv /\ HandlerInv
        /\ \A p \in Ranks : UsingInv(p) /\ AcquiringInv(p)
    BY DEF CoherenceInv
  <2>7. UnsavedInv' /\ HomeInv' /\ FreshInv' /\ HandlerInv'
    BY <2>1, <2>4, <2>5, <2>6, KeptInv
  <2>8. perm' = perm
    BY <2>5 DEF SameWorld
  <2>9. \A p \in Ranks : UsingInv(p)' /\ AcquiringInv(p)'
    BY <2>1, <2>2, <2>3, <2>6, <2>8, OthersKept
  <2>10. Ranks' = Ranks
    BY <2>1, SameSetup
  <2>11. QED
    BY <2>7, <2>9, <2>10 DEF CoherenceInv
<1>2. CASE Acts /\ UNCHANGED setup
  <2>1. PICK r \in Ranks : RankNext(r)
    BY <1>2 DEF Acts, RankNext
  <2>2. QED
    BY <1>2, <2>1, StepCoherence
<1>3. CASE Died
  BY <1>1, <1>3 DEF Died
<1>4. QED
  BY <1>1, <1>2, <1>3 DEF Next

\* The latest value of every location is at home or in the one cache that may
\* still write it back, in every reachable state.
THEOREM CoherenceInvariant == Spec => [](CacheInv /\ CoherenceInv)
<1>1. Init => CoherenceInv
  BY InitCoherence
<1>2. QED
  BY <1>1, CacheInvariant, NextCoherence, PTL DEF Spec

\* ReadsSeeLatest, for all ranks, blocks, requests and any number of slots: what
\* a program without data races reads in a checkout is what was last written,
\* although checkins return before the writeback, caches are invalidated by
\* acquire alone, and fetches and writebacks of neighbours overlap.
THEOREM CacheIsCoherent == Spec => []ReadsSeeLatest
<1>1. CacheInv /\ CoherenceInv => ReadsSeeLatest
  <2> SUFFICES ASSUME CacheInv, CoherenceInv, NEW r \in Ranks, NEW q \in out[r], q.mode # "write",
                      NEW l \in LocsOf(q.blks)
      PROVE  vm[r][l[1]] # NoSlot /\ Cached(r, l) = latest[l]
    BY DEF ReadsSeeLatest
  <2>1. TypeOK /\ RankInv(r) /\ FreshInv /\ UsingInv(r)
    BY DEF CacheInv, CoherenceInv
  <2>2. PICK i \in DOMAIN q.blks : l \in {q.blks[i][1]} \X q.blks[i][2]
    BY DEF LocsOf
  <2>3. l[1] = q.blks[i][1] /\ l[2] \in q.blks[i][2] /\ l = <<l[1], l[2]>>
    BY <2>2
  <2>4. PICK s \in Slots : s = vm[r][l[1]] /\ slot[r][s].key = l[1] /\ l[2] \in slot[r][s].valid
    BY <2>1, <2>3, OutIsMapped
  <2>5. q \in Using(r)
    BY DEF Using
  <2>6. Owns(r, l) /\ l \in Locs
    BY <2>1, <2>5, UsedLocs DEF UsingInv
  <2>7. l[2] \in Regions
    BY <2>6 DEF Locs
  <2>8. <<s, l[2]>> \notin gets[r]
    BY <2>1, <2>3, <2>4, <2>7 DEF RankInv, GetsInv
  <2>9. Holds(r, s, l)
    BY <2>4, <2>8 DEF Holds
  <2>10. ~Overwriting(r, l)
    BY <2>1, <2>5 DEF Overwriting, UsingInv, WrittenBy
  <2>11. data[r][s][l[2]] = latest[l]
    BY <2>1, <2>6, <2>9, <2>10 DEF FreshInv
  <2>12. s # NoSlot
    <3>1. NSlots \in Nat \ {0}
      BY <2>1, SetupFacts DEF TypeOK
    <3>2. QED
      BY <3>1 DEF Slots, NoSlot
  <2>13. QED
    BY <2>4, <2>11, <2>12 DEF Cached
<1>2. QED
  BY <1>1, CoherenceInvariant, PTL
=============================================================================
