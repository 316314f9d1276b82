------------------------- MODULE GlobalVectorProofs -------------------------
(***************************************************************************)
(* Parallel loops and global vectors, for every call, policy and schedule  *)
(* and every program of vector operations: loops are free of data races,   *)
(* and memory has one owner and is freed as it was allocated.              *)
(***************************************************************************)
EXTENDS GlobalVector, FiniteSetTheorems, TLAPS

-----------------------------------------------------------------------------
(* Frames.                                                                  *)

FrameFields == {"pol", "gen", "op", "acc", "its", "n", "pc", "d", "css", "ser", "fix"}
IterFields == {"arr", "at", "mode"}

\* A frame as the loops make them: all iterators into one array are at the same
\* position, so that halves of a range are disjoint whatever they touch.
IsFrame(f) ==
  /\ DOMAIN f = FrameFields
  /\ f.pol.checkout \in Nat /\ f.pol.checkout > 0
  /\ f.n \in Nat /\ f.d \in 0..f.n
  /\ \A k \in DOMAIN f.its : DOMAIN f.its[k] = IterFields /\ f.its[k].at \in Int
  /\ \A k, l \in DOMAIN f.its : f.its[k].arr = f.its[l].arr => f.its[k].at = f.its[l].at
  /\ f.op \in {"scan", "scan_as_is"} => 2 \in DOMAIN f.its

\* The elements that a frame has yet to process.
Reach(f) == {Elem(f.its[k], i) : k \in DOMAIN f.its, i \in 0..(f.n - f.d - 1)}

\* A frame that is yet to run, over elements of frame f.
IsWithin(g, f) == IsFrame(g) /\ g.pc = "called" /\ g.d = 0 /\ Reach(g) \subseteq Reach(f)

\* Paths, q below p or at it.
Paths == Seq(1..3)
From(p, q) == q = p \/ Below(p, q)

\* What a frame's own place in the code says about the frames below it, in the
\* frames c of a loop.
FrameInv(c, p) ==
  LET f == c[p]
      below == {q \in DOMAIN c : Below(p, q)} IN
  /\ f.pc \in {"called", "leaf", "chunk", "forked", "right", "combine", "returned"}
  /\ f.pc \in {"called", "leaf", "chunk", "returned"} => below = {}
  /\ f.pc \in {"called", "forked", "right", "combine"} => f.d = 0
  /\ f.pc = "chunk" => f.d < f.n
  /\ f.pc = "forked" => \A q \in below : From(Sub(p, 1), q) /\ Reach(c[q]) \subseteq Reach(LeftHalf(f))
  /\ f.pc = "right" => \A q \in below : From(Sub(p, 1), q) \/ From(Sub(p, 2), q)
  /\ f.pc = "combine" =>
       /\ \A q \in below :
            \/ q \in {Sub(p, 1), Sub(p, 2)} /\ c[q].pc = "returned"
            \/ From(Sub(p, 3), q)
       /\ f.fix \in Seq(Range(f.fix))
       /\ \A k \in 1..Len(f.fix) : IsWithin(f.fix[k], f)

\* Two frames of which none is below the other, and that are not done, have
\* disjoint elements to process.
Apart(c, p, q) ==
  c[p].pc = "returned" \/ c[q].pc = "returned" \/ Reach(c[p]) \cap Reach(c[q]) = {}

\* The frames of a loop.
CallTree(c) ==
  /\ DOMAIN c \subseteq Paths
  /\ \A p \in DOMAIN c : IsFrame(c[p]) /\ FrameInv(c, p)
  /\ \A p, q \in DOMAIN c : Below(p, q) => Reach(c[q]) \subseteq Reach(c[p])
  /\ \A p, q \in DOMAIN c : ~From(p, q) /\ ~From(q, p) => Apart(c, p, q)

CallsInv == CallTree(calls)

-----------------------------------------------------------------------------
(* What the operators on frames return.                                     *)

\* An iterator that moves on.
LEMMA NextIs ==
  ASSUME NEW it, NEW d \in Int, DOMAIN it = IterFields, it.at \in Int
  PROVE  /\ DOMAIN Next1(it, d) = IterFields
         /\ Next1(it, d).arr = it.arr /\ Next1(it, d).mode = it.mode
         /\ Next1(it, d).at = it.at + d /\ Next1(it, d).at \in Int
BY DEF Next1, IterFields

\* All iterators of a frame that move on.
LEMMA AdvancedIs ==
  ASSUME NEW f, IsFrame(f), NEW d \in Int
  PROVE  LET its == Advanced(f.its, d) IN
         /\ DOMAIN its = DOMAIN f.its
         /\ \A k \in DOMAIN f.its : /\ DOMAIN its[k] = IterFields
                                    /\ its[k].arr = f.its[k].arr /\ its[k].mode = f.its[k].mode
                                    /\ its[k].at = f.its[k].at + d /\ its[k].at \in Int
BY NextIs DEF Advanced, IsFrame

\* The middle.
LEMMA MidIs ==
  ASSUME NEW f, IsFrame(f)
  PROVE  Mid(f) \in Nat /\ Mid(f) <= f.n /\ f.n - Mid(f) \in Nat
BY DEF Mid, IsFrame

\* Membership in Reach.
LEMMA ReachIs ==
  ASSUME NEW f, NEW e
  PROVE  e \in Reach(f) <=>
           \E k \in DOMAIN f.its, i \in 0..(f.n - f.d - 1) : e = <<f.its[k].arr, f.its[k].at + i>>
BY DEF Reach, Elem

\* The first half.
LEMMA LeftHalfIs ==
  ASSUME NEW f, IsFrame(f), f.d = 0
  PROVE  LET g == LeftHalf(f) IN
         /\ IsFrame(g) /\ g.pc = "called" /\ g.d = 0 /\ g.n = Mid(f) /\ g.its = f.its
         /\ Reach(g) \subseteq Reach(f)
<1> DEFINE g == LeftHalf(f)
<1>1. /\ DOMAIN g = FrameFields /\ g.pol = f.pol /\ g.op = f.op /\ g.its = f.its
      /\ g.pc = "called" /\ g.d = f.d /\ g.n = Mid(f)
  BY DEF LeftHalf, IsFrame, FrameFields
<1>2. Mid(f) \in Nat /\ Mid(f) <= f.n
  BY MidIs
<1>3. IsFrame(g)
  BY <1>1, <1>2 DEF IsFrame
<1>4. 0..(g.n - g.d - 1) \subseteq 0..(f.n - f.d - 1)
  BY <1>1, <1>2 DEF IsFrame
<1>5. Reach(g) \subseteq Reach(f)
  BY <1>1, <1>4 DEF Reach
<1>6. QED
  BY <1>1, <1>3, <1>5

\* The second half.
LEMMA RightHalfIs ==
  ASSUME NEW f, IsFrame(f), f.d = 0, NEW acc
  PROVE  LET g == RightHalf(f, acc) IN
         /\ IsFrame(g) /\ g.pc = "called" /\ g.d = 0
         /\ Reach(g) \subseteq Reach(f)
         /\ Reach(g) \cap Reach(LeftHalf(f)) = {}
<1> DEFINE g == RightHalf(f, acc)
           h == LeftHalf(f)
<1>1. /\ DOMAIN g = FrameFields /\ g.pol = f.pol /\ g.op = f.op /\ g.its = Advanced(f.its, Mid(f))
      /\ g.pc = "called" /\ g.d = f.d /\ g.n = f.n - Mid(f)
  BY DEF RightHalf, IsFrame, FrameFields
<1>2. Mid(f) \in Nat /\ Mid(f) <= f.n /\ f.n - Mid(f) \in Nat
  BY MidIs
<1>3. /\ DOMAIN g.its = DOMAIN f.its
      /\ \A k \in DOMAIN f.its : /\ DOMAIN g.its[k] = IterFields
                                 /\ g.its[k].arr = f.its[k].arr /\ g.its[k].mode = f.its[k].mode
                                 /\ g.its[k].at = f.its[k].at + Mid(f) /\ g.its[k].at \in Int
  BY <1>1, <1>2, AdvancedIs
<1>4. IsFrame(g)
  BY <1>1, <1>2, <1>3 DEF IsFrame
<1>5. Reach(g) \subseteq Reach(f)
  <2>1. SUFFICES ASSUME NEW e \in Reach(g)
                 PROVE  e \in Reach(f)
    OBVIOUS
  <2>2. PICK k \in DOMAIN g.its, i \in 0..(g.n - g.d - 1) : e = <<g.its[k].arr, g.its[k].at + i>>
    BY <2>1, ReachIs
  <2>3. Mid(f) + i \in 0..(f.n - f.d - 1) /\ f.its[k].at + (Mid(f) + i) = g.its[k].at + i
    BY <1>1, <1>2, <1>3, <2>2 DEF IsFrame
  <2>4. QED
    BY <1>3, <2>2, <2>3, ReachIs
<1>6. Reach(g) \cap Reach(h) = {}
  <2>1. SUFFICES ASSUME NEW e \in Reach(g), e \in Reach(h)
                 PROVE  FALSE
    OBVIOUS
  <2>2. PICK k \in DOMAIN g.its, i \in 0..(g.n - g.d - 1) : e = <<g.its[k].arr, g.its[k].at + i>>
    BY <2>1, ReachIs
  <2>3. PICK l \in DOMAIN h.its, j \in 0..(h.n - h.d - 1) : e = <<h.its[l].arr, h.its[l].at + j>>
    BY <2>1, ReachIs
  <2>4. h.its = f.its /\ h.n = Mid(f) /\ h.d = 0
    BY LeftHalfIs
  <2>5. f.its[k].arr = f.its[l].arr /\ f.its[k].at + Mid(f) + i = f.its[l].at + j
    BY <1>3, <2>2, <2>3, <2>4
  <2>6. f.its[k].at = f.its[l].at /\ f.its[k].at \in Int
    BY <1>3, <2>2, <2>3, <2>4, <2>5 DEF IsFrame
  <2>7. j < Mid(f) /\ i >= 0 /\ i \in Int /\ j \in Int
    BY <1>2, <2>2, <2>3, <2>4
  <2>8. QED
    BY <1>2, <2>5, <2>6, <2>7
<1>7. QED
  BY <1>1, <1>4, <1>5, <1>6

\* A new frame.
LEMMA FrameIs ==
  ASSUME NEW pol, NEW gen, NEW op, NEW acc, NEW its, NEW m
  PROVE  LET f == Frame(pol, gen, op, acc, its, m) IN
         /\ DOMAIN f = FrameFields /\ f.pol = pol /\ f.op = op /\ f.its = its /\ f.n = m
         /\ f.d = 0 /\ f.pc = "called" /\ f.acc = acc
BY DEF Frame, FrameFields

\* What is left of a chunk's frame.
LEMMA ChunkIs ==
  ASSUME NEW f, IsFrame(f), f.d < f.n
  PROVE  Chunk(f) \in Nat /\ Chunk(f) <= f.n - f.d
BY DEF Chunk, IsFrame

\* The next chunk.
LEMMA NextChunkIs ==
  ASSUME NEW f, IsFrame(f), f.d < f.n, NEW acc
  PROVE  LET g == NextChunk(f, acc) IN
         /\ IsFrame(g) /\ g.pc = "leaf" /\ Reach(g) \subseteq Reach(f)
<1> DEFINE g == NextChunk(f, acc)
<1>1. /\ DOMAIN g = FrameFields /\ g.pol = f.pol /\ g.op = f.op /\ g.its = Advanced(f.its, Chunk(f))
      /\ g.pc = "leaf" /\ g.d = f.d + Chunk(f) /\ g.n = f.n
  BY DEF NextChunk, IsFrame, FrameFields
<1>2. Chunk(f) \in Nat /\ Chunk(f) <= f.n - f.d
  BY ChunkIs
<1>3. /\ DOMAIN g.its = DOMAIN f.its
      /\ \A k \in DOMAIN f.its : /\ DOMAIN g.its[k] = IterFields
                                 /\ g.its[k].arr = f.its[k].arr
                                 /\ g.its[k].at = f.its[k].at + Chunk(f) /\ g.its[k].at \in Int
  BY <1>1, <1>2, AdvancedIs
<1>4. IsFrame(g)
  <2>1. g.d \in 0..g.n
    BY <1>1, <1>2 DEF IsFrame
  <2>2. QED
    BY <1>1, <1>2, <1>3, <2>1 DEF IsFrame
<1>5. Reach(g) \subseteq Reach(f)
  <2>1. SUFFICES ASSUME NEW e \in Reach(g)
                 PROVE  e \in Reach(f)
    OBVIOUS
  <2>2. PICK k \in DOMAIN g.its, i \in 0..(g.n - g.d - 1) : e = <<g.its[k].arr, g.its[k].at + i>>
    BY <2>1, ReachIs
  <2>3. Chunk(f) + i \in 0..(f.n - f.d - 1) /\ f.its[k].at + (Chunk(f) + i) = g.its[k].at + i
    BY <1>1, <1>2, <1>3, <2>2 DEF IsFrame
  <2>4. QED
    BY <1>3, <2>2, <2>3, ReachIs
<1>6. QED
  BY <1>1, <1>4, <1>5

\* What a chunk uses and writes is within what the frame has yet to process.
LEMMA UsesInReach ==
  ASSUME NEW f, IsFrame(f), f.d < f.n
  PROVE  Uses(f) \subseteq Reach(f) /\ Writes(f) \subseteq Reach(f)
<1>1. 0..(Chunk(f) - 1) \subseteq 0..(f.n - f.d - 1)
  BY ChunkIs DEF IsFrame
<1>2. \A modes : CheckedOut(f, modes) \subseteq Reach(f)
  BY <1>1 DEF CheckedOut, Reach
<1>3. QED
  BY <1>2 DEF Uses, Writes

\* A loop that corrects the second half of frame f.
FixLoop(f, op, its, acc) == [Frame(f.pol, "loop", op, Identity, its, f.n - Mid(f)) EXCEPT !.acc = acc]

\* A loop over the second half of one array of a frame.
LEMMA SecondHalfLoop ==
  ASSUME NEW f, IsFrame(f), f.d = 0, NEW x \in DOMAIN f.its, NEW op, op \notin {"scan", "scan_as_is"},
         NEW its, NEW acc,
         \A k \in DOMAIN its : /\ DOMAIN its[k] = IterFields
                               /\ its[k].arr = f.its[x].arr /\ its[k].at = f.its[x].at + Mid(f)
  PROVE  IsWithin(FixLoop(f, op, its, acc), f)
<1> DEFINE h == Frame(f.pol, "loop", op, Identity, its, f.n - Mid(f))
           g == FixLoop(f, op, its, acc)
<1>1. /\ DOMAIN g = FrameFields /\ g.pol = f.pol /\ g.op = op /\ g.its = its /\ g.n = f.n - Mid(f)
      /\ g.d = 0 /\ g.pc = "called"
  <2>1. /\ DOMAIN h = FrameFields /\ h.pol = f.pol /\ h.op = op /\ h.its = its /\ h.n = f.n - Mid(f)
        /\ h.d = 0 /\ h.pc = "called"
    BY FrameIs
  <2>2. QED
    BY <2>1 DEF FrameFields, FixLoop
<1> HIDE DEF g
<1>2. Mid(f) \in Nat /\ Mid(f) <= f.n /\ f.n - Mid(f) \in Nat
  BY MidIs
<1>3. f.its[x].at \in Int /\ f.its[x].at + Mid(f) \in Int
  BY <1>2 DEF IsFrame
<1>4. IsFrame(g)
  <2>1. g.pol.checkout \in Nat /\ g.pol.checkout > 0 /\ g.n \in Nat /\ g.d \in 0..g.n
    BY <1>1, <1>2 DEF IsFrame
  <2>2. \A k \in DOMAIN g.its : DOMAIN g.its[k] = IterFields /\ g.its[k].at \in Int
    BY <1>1, <1>3
  <2>3. QED
    BY <1>1, <2>1, <2>2 DEF IsFrame
<1>5. Reach(g) \subseteq Reach(f)
  <2>1. SUFFICES ASSUME NEW e \in Reach(g)
                 PROVE  e \in Reach(f)
    OBVIOUS
  <2>2. PICK k \in DOMAIN g.its, i \in 0..(g.n - g.d - 1) : e = <<g.its[k].arr, g.its[k].at + i>>
    BY <2>1, ReachIs
  <2>3. e = <<f.its[x].arr, (f.its[x].at + Mid(f)) + i>>
    BY <1>1, <2>2
  <2>4. Mid(f) + i \in 0..(f.n - f.d - 1) /\ (f.its[x].at + Mid(f)) + i = f.its[x].at + (Mid(f) + i)
    BY <1>1, <1>2, <1>3, <2>2 DEF IsFrame
  <2>5. QED
    BY <2>3, <2>4, ReachIs
<1>6. QED
  BY <1>1, <1>4, <1>5 DEF g, IsWithin

\* The loops of combine_op, with acc captured.
LoopsOf(f, acc) == [k \in DOMAIN CombineLoops(f) |-> [CombineLoops(f)[k] EXCEPT !.acc = acc]]

\* They stay within the frame they correct.
LEMMA CombineLoopsAre ==
  ASSUME NEW f, IsFrame(f), f.d = 0, 2 \in DOMAIN f.its, NEW acc
  PROVE  LET loops == LoopsOf(f, acc) IN
         /\ loops \in Seq(Range(loops)) /\ Len(loops) > 0
         /\ \A k \in 1..Len(loops) : IsWithin(loops[k], f)
<1> DEFINE dst == Next1(f.its[2], Mid(f))
           loop(op, its) == Frame(f.pol, "loop", op, Identity, its, f.n - Mid(f))
           ptr(mode) == [dst EXCEPT !.mode = mode]
           one == <<loop("prefix2", <<ptr("read"), ptr(DstMode)>>)>>
           two == <<loop("prefix", <<dst>>), loop("prefix2", <<dst, dst>>)>>
           loops == LoopsOf(f, acc)
           own(it) == DOMAIN it = IterFields /\ it.arr = f.its[2].arr /\ it.at = f.its[2].at + Mid(f)
<1>1. CombineLoops(f) = IF AutoCheckout(dst) THEN one ELSE two
  BY DEF CombineLoops
<1>2. own(dst)
  <2>1. Mid(f) \in Int /\ DOMAIN f.its[2] = IterFields /\ f.its[2].at \in Int
    BY MidIs DEF IsFrame
  <2>2. QED
    BY <2>1, NextIs
<1>3. \A mode : own(ptr(mode))
  BY <1>2 DEF IterFields
<1> HIDE DEF dst, ptr
<1>4. \A op, its : op \notin {"scan", "scan_as_is"} /\ (\A k \in DOMAIN its : own(its[k]))
                     => IsWithin(FixLoop(f, op, its, acc), f)
  BY SecondHalfLoop
<1>5. CASE AutoCheckout(dst)
  <2> DEFINE its == <<ptr("read"), ptr(DstMode)>>
  <2>1. \A k \in DOMAIN its : own(its[k])
    BY <1>3
  <2>2. IsWithin(FixLoop(f, "prefix2", its, acc), f)
    BY <1>4, <2>1
  <2> HIDE DEF loop
  <2>3. loops = <<FixLoop(f, "prefix2", its, acc)>>
    BY <1>1, <1>5 DEF LoopsOf, FixLoop, loop
  <2> HIDE DEF its, loops
  <2>4. Len(loops) = 1 /\ loops[1] = FixLoop(f, "prefix2", its, acc) /\ DOMAIN loops = 1..1
        /\ loops \in Seq(Range(loops))
    BY <2>3 DEF Range
  <2>5. QED
    BY <2>2, <2>4 DEF loops
<1>6. CASE ~AutoCheckout(dst)
  <2> DEFINE its1 == <<dst>>
             its2 == <<dst, dst>>
  <2>1. (\A k \in DOMAIN its1 : own(its1[k])) /\ (\A k \in DOMAIN its2 : own(its2[k]))
    BY <1>2
  <2>2. IsWithin(FixLoop(f, "prefix", its1, acc), f) /\ IsWithin(FixLoop(f, "prefix2", its2, acc), f)
    BY <1>4, <2>1
  <2> HIDE DEF loop
  <2>3. loops = <<FixLoop(f, "prefix", its1, acc), FixLoop(f, "prefix2", its2, acc)>>
    BY <1>1, <1>6 DEF LoopsOf, FixLoop, loop
  <2> HIDE DEF its1, its2, loops
  <2>4. /\ Len(loops) = 2 /\ DOMAIN loops = 1..2 /\ loops \in Seq(Range(loops))
        /\ loops[1] = FixLoop(f, "prefix", its1, acc)
        /\ loops[2] = FixLoop(f, "prefix2", its2, acc)
    BY <2>3 DEF Range
  <2>5. QED
    BY <2>2, <2>4 DEF loops
<1>7. QED
  BY <1>5, <1>6

-----------------------------------------------------------------------------
(* Paths.                                                                   *)

\* Below, element by element.
LEMMA BelowIs ==
  ASSUME NEW p \in Paths, NEW q \in Paths
  PROVE  Below(p, q) <=> Len(q) > Len(p) /\ \A i \in 1..Len(p) : q[i] = p[i]
<1>1. CASE Len(q) > Len(p)
  <2>1. SubSeq(q, 1, Len(p)) \in Seq(1..3) /\ Len(SubSeq(q, 1, Len(p))) = Len(p)
        /\ \A i \in 1..Len(p) : SubSeq(q, 1, Len(p))[i] = q[i]
    BY <1>1 DEF Paths
  <2>2. SubSeq(q, 1, Len(p)) = p <=> \A i \in 1..Len(p) : q[i] = p[i]
    BY <2>1 DEF Paths
  <2>3. QED
    BY <1>1, <2>2 DEF Below
<1>2. QED
  BY <1>1 DEF Below

\* A child's path.
LEMMA SubIs ==
  ASSUME NEW p \in Paths, NEW k \in 1..3
  PROVE  /\ Sub(p, k) \in Paths /\ Len(Sub(p, k)) = Len(p) + 1 /\ Sub(p, k)[Len(p) + 1] = k
         /\ \A i \in 1..Len(p) : Sub(p, k)[i] = p[i]
         /\ Below(p, Sub(p, k)) /\ Sub(p, k) # p
<1>1. /\ Sub(p, k) \in Paths /\ Len(Sub(p, k)) = Len(p) + 1 /\ Sub(p, k)[Len(p) + 1] = k
      /\ \A i \in 1..Len(p) : Sub(p, k)[i] = p[i]
  BY DEF Sub, Paths
<1>2. QED
  BY <1>1, BelowIs DEF Paths

\* Below is a strict order.
LEMMA BelowOrder ==
  ASSUME NEW p \in Paths, NEW q \in Paths, NEW r \in Paths
  PROVE  /\ ~Below(p, p)
         /\ Below(p, q) /\ Below(q, r) => Below(p, r)
         /\ Below(p, q) => ~Below(q, p)
         /\ Below(p, r) /\ Below(q, r) => From(p, q) \/ From(q, p)
<1>1. Len(p) \in Nat /\ Len(q) \in Nat /\ Len(r) \in Nat
  BY DEF Paths
<1>2. ~Below(p, p) /\ (Below(p, q) => ~Below(q, p))
  BY <1>1 DEF Below
<1>3. Below(p, q) /\ Below(q, r) => Below(p, r)
  BY <1>1, BelowIs
<1>4. Below(p, r) /\ Below(q, r) => From(p, q) \/ From(q, p)
  <2>1. SUFFICES ASSUME Below(p, r), Below(q, r)
                 PROVE  From(p, q) \/ From(q, p)
    OBVIOUS
  <2>2. /\ Len(r) > Len(p) /\ \A i \in 1..Len(p) : r[i] = p[i]
        /\ Len(r) > Len(q) /\ \A i \in 1..Len(q) : r[i] = q[i]
    BY <2>1, BelowIs
  <2>3. CASE Len(p) < Len(q)
    <3>1. \A i \in 1..Len(p) : q[i] = p[i]
      BY <1>1, <2>2, <2>3
    <3>2. QED
      BY <2>3, <3>1, BelowIs DEF From
  <2>4. CASE Len(q) < Len(p)
    <3>1. \A i \in 1..Len(q) : p[i] = q[i]
      BY <1>1, <2>2, <2>4
    <3>2. QED
      BY <2>4, <3>1, BelowIs DEF From
  <2>5. CASE Len(p) = Len(q)
    <3>1. p = q
      BY <2>2, <2>5 DEF Paths
    <3>2. QED
      BY <3>1 DEF From
  <2>6. QED
    BY <1>1, <2>3, <2>4, <2>5
<1>5. QED
  BY <1>2, <1>3, <1>4

\* What is above a child is its parent or above that.
LEMMA AboveSub ==
  ASSUME NEW p \in Paths, NEW k \in 1..3, NEW r \in Paths
  PROVE  /\ Below(r, Sub(p, k)) <=> From(r, p)
         /\ From(Sub(p, k), r) => Below(p, r)
<1>1. /\ Sub(p, k) \in Paths /\ Len(Sub(p, k)) = Len(p) + 1 /\ Below(p, Sub(p, k))
      /\ \A i \in 1..Len(p) : Sub(p, k)[i] = p[i]
  BY SubIs
<1>2. Len(p) \in Nat /\ Len(r) \in Nat
  BY DEF Paths
<1>3. From(Sub(p, k), r) => Below(p, r)
  BY <1>1, BelowOrder DEF From
<1>4. From(r, p) => Below(r, Sub(p, k))
  BY <1>1, BelowOrder DEF From
<1>5. ASSUME Below(r, Sub(p, k)) PROVE From(r, p)
  <2>1. Len(r) <= Len(p) /\ \A i \in 1..Len(r) : Sub(p, k)[i] = r[i]
    BY <1>1, <1>2, <1>5, BelowIs
  <2>2. \A i \in 1..Len(r) : p[i] = r[i]
    BY <1>1, <1>2, <2>1
  <2>3. CASE Len(r) < Len(p)
    BY <2>2, <2>3, BelowIs DEF From
  <2>4. CASE Len(r) = Len(p)
    <3>1. r = p
      BY <2>2, <2>4 DEF Paths
    <3>2. QED
      BY <3>1 DEF From
  <2>5. QED
    BY <1>2, <2>1, <2>3, <2>4
<1>6. QED
  BY <1>3, <1>4, <1>5

\* Different children are not below one another, nor is anything below two of them.
LEMMA SubsApart ==
  ASSUME NEW p \in Paths, NEW k \in 1..3, NEW l \in 1..3, k # l, NEW r \in Paths
  PROVE  /\ ~From(Sub(p, k), Sub(p, l))
         /\ ~(From(Sub(p, k), r) /\ From(Sub(p, l), r))
<1>1. /\ Sub(p, k) \in Paths /\ Len(Sub(p, k)) = Len(p) + 1 /\ Sub(p, k)[Len(p) + 1] = k
      /\ Sub(p, l) \in Paths /\ Len(Sub(p, l)) = Len(p) + 1 /\ Sub(p, l)[Len(p) + 1] = l
  BY SubIs
<1>2. Len(p) \in Nat
  BY DEF Paths
<1>3. ~From(Sub(p, k), Sub(p, l)) /\ ~From(Sub(p, l), Sub(p, k))
  BY <1>1, <1>2 DEF From, Below
<1>4. \A m \in 1..3 : From(Sub(p, m), r) => r = Sub(p, m) \/ Below(Sub(p, m), r)
  BY DEF From
<1>5. QED
  BY <1>1, <1>3, <1>4, BelowOrder

-----------------------------------------------------------------------------
(* How the frames change.                                                   *)

\* A frame stays as it is while the frames below it process less, return, or
\* call others.
LEMMA OthersKeep ==
  ASSUME NEW c, NEW d, CallTree(c), NEW q, q \in DOMAIN c, q \in DOMAIN d, d[q] = c[q],
         DOMAIN d \subseteq Paths,
         \A r \in DOMAIN d : Below(q, r) =>
           \E s \in DOMAIN c :
             /\ From(s, r) /\ Below(q, s) /\ Reach(d[r]) \subseteq Reach(c[s])
             /\ c[s].pc = "returned" => r = s /\ d[r].pc = "returned"
  PROVE  FrameInv(d, q)
<1> DEFINE f == c[q]
           source(r, s) ==
             /\ From(s, r) /\ Below(q, s) /\ Reach(d[r]) \subseteq Reach(c[s])
             /\ c[s].pc = "returned" => r = s /\ d[r].pc = "returned"
           below == {r \in DOMAIN c : Below(q, r)}
<1>1. FrameInv(c, q) /\ DOMAIN c \subseteq Paths
  BY DEF CallTree
<1>2. \A r \in DOMAIN d : Below(q, r) => \E s \in below : source(r, s)
  OBVIOUS
<1>3. \A k \in 1..3, s \in DOMAIN c, r \in DOMAIN d : From(Sub(q, k), s) /\ From(s, r) => From(Sub(q, k), r)
  BY <1>1, SubIs, BelowOrder DEF From
<1>4. f.pc = "forked" => \A r \in DOMAIN d : Below(q, r) => From(Sub(q, 1), r) /\ Reach(d[r]) \subseteq Reach(LeftHalf(f))
  BY <1>1, <1>2, <1>3 DEF FrameInv
<1>5. f.pc = "right" => \A r \in DOMAIN d : Below(q, r) => From(Sub(q, 1), r) \/ From(Sub(q, 2), r)
  BY <1>1, <1>2, <1>3 DEF FrameInv
<1>6. f.pc = "combine" => \A r \in DOMAIN d : Below(q, r) =>
        \/ r \in {Sub(q, 1), Sub(q, 2)} /\ d[r].pc = "returned"
        \/ From(Sub(q, 3), r)
  <2>1. SUFFICES ASSUME f.pc = "combine", NEW r \in DOMAIN d, Below(q, r)
                 PROVE  \/ r \in {Sub(q, 1), Sub(q, 2)} /\ d[r].pc = "returned"
                        \/ From(Sub(q, 3), r)
    OBVIOUS
  <2>2. PICK s \in below : source(r, s)
    BY <1>2, <2>1
  <2>3. \/ s \in {Sub(q, 1), Sub(q, 2)} /\ c[s].pc = "returned"
        \/ From(Sub(q, 3), s)
    BY <1>1, <2>1 DEF FrameInv
  <2>4. QED
    BY <1>3, <2>2, <2>3
<1>7. f.pc \in {"called", "leaf", "chunk", "returned"} => {r \in DOMAIN d : Below(q, r)} = {}
  BY <1>1, <1>2 DEF FrameInv
<1>8. QED
  BY <1>1, <1>4, <1>5, <1>6, <1>7 DEF FrameInv

\* A frame that has none below it processes elements or returns.
LEMMA LocalStep ==
  ASSUME NEW c, CallTree(c), NEW p \in DOMAIN c, NEW g,
         c[p].pc \in {"called", "leaf", "chunk"}, g.pc \in {"leaf", "chunk", "returned"},
         IsFrame(g), Reach(g) \subseteq Reach(c[p]), g.pc = "chunk" => g.d < g.n
  PROVE  CallTree([c EXCEPT ![p] = g])
<1> DEFINE d == [c EXCEPT ![p] = g]
<1>0. DOMAIN d = DOMAIN c /\ d[p] = g /\ \A q \in DOMAIN c : q # p => d[q] = c[q]
  OBVIOUS
<1> HIDE DEF d
<1>1. DOMAIN d \subseteq Paths
  BY <1>0 DEF CallTree
<1>2. \A r \in DOMAIN c : ~Below(p, r)
  BY DEF CallTree, FrameInv
<1>3. \A r \in DOMAIN d : Reach(d[r]) \subseteq Reach(c[r])
  BY <1>0
<1>4. \A q \in DOMAIN d : IsFrame(d[q]) /\ FrameInv(d, q)
  <2>1. TAKE q \in DOMAIN d
  <2>2. CASE q = p
    BY <1>0, <1>2, <2>2 DEF FrameInv
  <2>3. CASE q # p
    <3>1. IsFrame(d[q])
      BY <1>0, <2>3 DEF CallTree
    <3>2. \A r \in DOMAIN d : Below(q, r) =>
             \E s \in DOMAIN c :
               /\ From(s, r) /\ Below(q, s) /\ Reach(d[r]) \subseteq Reach(c[s])
               /\ c[s].pc = "returned" => r = s /\ d[r].pc = "returned"
      BY <1>0, <1>3 DEF From
    <3>3. FrameInv(d, q)
      BY <1>0, <1>1, <2>3, <3>2, OthersKeep
    <3>4. QED
      BY <3>1, <3>3
  <2>4. QED
    BY <2>2, <2>3
<1>5. \A q, r \in DOMAIN d : Below(q, r) => Reach(d[r]) \subseteq Reach(d[q])
  BY <1>0, <1>2, <1>3 DEF CallTree
<1>6. \A q, r \in DOMAIN d : ~From(q, r) /\ ~From(r, q) => Apart(d, q, r)
  <2>1. SUFFICES ASSUME NEW q \in DOMAIN d, NEW r \in DOMAIN d, ~From(q, r), ~From(r, q)
                 PROVE  Apart(d, q, r)
    OBVIOUS
  <2>2. Apart(c, q, r)
    BY <1>0, <2>1 DEF CallTree
  <2>3. (c[q].pc = "returned" => d[q].pc = "returned") /\ (c[r].pc = "returned" => d[r].pc = "returned")
    BY <1>0
  <2>4. QED
    BY <1>0, <1>3, <2>2, <2>3 DEF Apart
<1>7. QED
  BY <1>1, <1>4, <1>5, <1>6 DEF CallTree, d

\* The frames after p, which becomes g, has called f at its k-th place; and after
\* p has returned as g.
CalledFrom(c, p, k, g, f) ==
  [r \in DOMAIN c \cup {Sub(p, k)} |-> IF r = Sub(p, k) THEN f ELSE IF r = p THEN g ELSE c[r]]
ReturnedTo(c, p, g) == [q \in {q \in DOMAIN c : ~Below(p, q)} |-> IF q = p THEN g ELSE c[q]]

\* A frame calls another, within its own range and apart from the frames below it.
LEMMA CallStep ==
  ASSUME NEW c, CallTree(c), NEW p \in DOMAIN c, NEW k \in 1..3, NEW g, NEW f,
         c[p].pc # "returned", g.pc # "returned", IsFrame(g), Reach(g) = Reach(c[p]), IsWithin(f, c[p]),
         \A r \in DOMAIN c : ~Below(Sub(p, k), r),
         \A r \in DOMAIN c : Below(p, r) /\ r # Sub(p, k) =>
           c[r].pc = "returned" \/ Reach(c[r]) \cap Reach(f) = {},
         FrameInv(CalledFrom(c, p, k, g, f), p)
  PROVE  CallTree(CalledFrom(c, p, k, g, f))
<1> DEFINE q == Sub(p, k)
           d == CalledFrom(c, p, k, g, f)
<1>0. p \in Paths /\ q \in Paths /\ q # p /\ Below(p, q)
  BY SubIs DEF CallTree
<1>1. /\ DOMAIN d = DOMAIN c \cup {q} /\ d[q] = f /\ d[p] = g
      /\ \A r \in DOMAIN c : r # p /\ r # q => d[r] = c[r]
  BY <1>0 DEF CalledFrom
<1>11. FrameInv(d, p)
  OBVIOUS
<1> HIDE DEF q, d
<1>2. DOMAIN d \subseteq Paths
  BY <1>0, <1>1 DEF CallTree
<1>3. IsFrame(f) /\ f.pc = "called" /\ f.d = 0 /\ Reach(f) \subseteq Reach(c[p])
  BY DEF IsWithin
<1>4. \A r \in DOMAIN d : ~Below(q, r)
  BY <1>0, <1>1, BelowOrder DEF q
<1>5. \A x \in Paths : Below(x, q) <=> From(x, p)
  BY <1>0, AboveSub DEF q
<1>6. \A x \in DOMAIN d : IsFrame(d[x]) /\ FrameInv(d, x)
  <2>1. TAKE x \in DOMAIN d
  <2>2. CASE x = p
    BY <1>1, <1>11, <2>2
  <2>3. CASE x = q
    BY <1>1, <1>3, <1>4, <2>3 DEF FrameInv
  <2>4. CASE x # p /\ x # q
    <3>1. x \in DOMAIN c /\ d[x] = c[x] /\ IsFrame(d[x])
      BY <1>1, <2>4 DEF CallTree
    <3>2. \A r \in DOMAIN d : Below(x, r) =>
             \E s \in DOMAIN c :
               /\ From(s, r) /\ Below(x, s) /\ Reach(d[r]) \subseteq Reach(c[s])
               /\ c[s].pc = "returned" => r = s /\ d[r].pc = "returned"
      <4>1. SUFFICES ASSUME NEW r \in DOMAIN d, Below(x, r)
                     PROVE  \E s \in DOMAIN c :
                              /\ From(s, r) /\ Below(x, s) /\ Reach(d[r]) \subseteq Reach(c[s])
                              /\ c[s].pc = "returned" => r = s /\ d[r].pc = "returned"
        OBVIOUS
      <4>2. CASE r = q
        <5>1. From(x, p) /\ From(p, r)
          BY <1>0, <1>2, <1>5, <4>1, <4>2 DEF From
        <5>2. Below(x, p)
          BY <2>4, <5>1 DEF From
        <5>3. Reach(d[r]) \subseteq Reach(c[p])
          BY <1>1, <1>3, <4>2
        <5>4. QED
          BY <5>1, <5>2, <5>3
      <4>3. CASE r # q
        <5>1. r \in DOMAIN c /\ Reach(d[r]) \subseteq Reach(c[r]) /\ (c[r].pc = "returned" => d[r].pc = "returned")
          BY <1>1, <4>3
        <5>2. QED
          BY <4>1, <5>1 DEF From
      <4>4. QED
        BY <4>2, <4>3
    <3>3. FrameInv(d, x)
      BY <1>2, <3>1, <3>2, OthersKeep
    <3>4. QED
      BY <3>1, <3>3
  <2>5. QED
    BY <2>2, <2>3, <2>4
<1>7. \A x, y \in DOMAIN d : Below(x, y) => Reach(d[y]) \subseteq Reach(d[x])
  <2>1. SUFFICES ASSUME NEW x \in DOMAIN d, NEW y \in DOMAIN d, Below(x, y)
                 PROVE  Reach(d[y]) \subseteq Reach(d[x])
    OBVIOUS
  <2>2. x \in DOMAIN c /\ Reach(d[x]) = Reach(c[x])
    BY <1>1, <1>4, <2>1
  <2>3. CASE y = q
    <3>1. From(x, p)
      BY <1>2, <1>5, <2>1, <2>3
    <3>2. Reach(c[p]) \subseteq Reach(c[x])
      BY <2>2, <3>1 DEF From, CallTree
    <3>3. QED
      BY <1>1, <1>3, <2>2, <2>3, <3>2
  <2>4. CASE y # q
    <3>1. y \in DOMAIN c /\ Reach(d[y]) = Reach(c[y])
      BY <1>1, <2>4
    <3>2. QED
      BY <2>1, <2>2, <3>1 DEF CallTree
  <2>5. QED
    BY <2>3, <2>4
<1>8. \A x \in DOMAIN d : ~From(q, x) /\ ~From(x, q) => Apart(d, q, x)
  <2>1. SUFFICES ASSUME NEW x \in DOMAIN d, ~From(q, x), ~From(x, q)
                 PROVE  Apart(d, q, x)
    OBVIOUS
  <2>2. x # q /\ x # p /\ ~From(x, p) /\ x \in DOMAIN c /\ d[x] = c[x]
    BY <1>0, <1>1, <1>2, <1>5, <2>1 DEF From
  <2>3. CASE Below(p, x)
    BY <1>1, <2>2, <2>3 DEF Apart, q
  <2>4. CASE ~Below(p, x)
    <3>1. Apart(c, p, x)
      BY <2>2, <2>4 DEF CallTree, From
    <3>2. QED
      BY <1>1, <1>3, <2>2, <3>1 DEF Apart
  <2>5. QED
    BY <2>3, <2>4
<1>9. \A x, y \in DOMAIN d : ~From(x, y) /\ ~From(y, x) => Apart(d, x, y)
  <2>1. SUFFICES ASSUME NEW x \in DOMAIN d, NEW y \in DOMAIN d, ~From(x, y), ~From(y, x)
                 PROVE  Apart(d, x, y)
    OBVIOUS
  <2>2. CASE x = q \/ y = q
    BY <1>8, <2>1, <2>2 DEF Apart
  <2>3. CASE x # q /\ y # q
    <3>1. Apart(c, x, y)
      BY <1>1, <2>1, <2>3 DEF CallTree
    <3>2. \A z \in {x, y} : Reach(d[z]) = Reach(c[z]) /\ (c[z].pc = "returned" => d[z].pc = "returned")
      BY <1>1, <2>3
    <3>3. QED
      BY <3>1, <3>2 DEF Apart
  <2>4. QED
    BY <2>2, <2>3
<1>10. QED
  BY <1>2, <1>6, <1>7, <1>9 DEF CallTree, d

\* A frame returns, and what is below it goes.
LEMMA ReturnStep ==
  ASSUME NEW c, CallTree(c), NEW p \in DOMAIN c, c[p].pc # "returned", NEW g, IsFrame(g),
         g.pc = "returned", Reach(g) \subseteq Reach(c[p])
  PROVE  CallTree(ReturnedTo(c, p, g))
<1> DEFINE d == ReturnedTo(c, p, g)
<1>0. p \in Paths /\ ~Below(p, p)
  BY BelowOrder DEF CallTree
<1>1. /\ DOMAIN d = {q \in DOMAIN c : ~Below(p, q)} /\ p \in DOMAIN d /\ d[p] = g
      /\ \A q \in DOMAIN d : q # p => d[q] = c[q]
  BY <1>0 DEF ReturnedTo
<1> HIDE DEF d
<1>2. DOMAIN d \subseteq Paths
  BY <1>1 DEF CallTree
<1>3. \A r \in DOMAIN d : /\ r \in DOMAIN c /\ Reach(d[r]) \subseteq Reach(c[r])
                          /\ c[r].pc = "returned" => d[r].pc = "returned"
  BY <1>1
<1>4. \A q \in DOMAIN d : IsFrame(d[q]) /\ FrameInv(d, q)
  <2>1. TAKE q \in DOMAIN d
  <2>2. CASE q = p
    BY <1>1, <2>2 DEF FrameInv
  <2>3. CASE q # p
    <3>1. q \in DOMAIN c /\ d[q] = c[q] /\ IsFrame(d[q])
      BY <1>1, <2>3 DEF CallTree
    <3>2. \A r \in DOMAIN d : Below(q, r) =>
             \E s \in DOMAIN c :
               /\ From(s, r) /\ Below(q, s) /\ Reach(d[r]) \subseteq Reach(c[s])
               /\ c[s].pc = "returned" => r = s /\ d[r].pc = "returned"
      BY <1>3 DEF From
    <3>3. FrameInv(d, q)
      BY <1>2, <3>1, <3>2, OthersKeep
    <3>4. QED
      BY <3>1, <3>3
  <2>4. QED
    BY <2>2, <2>3
<1>5. \A q, r \in DOMAIN d : Below(q, r) => Reach(d[r]) \subseteq Reach(d[q])
  BY <1>1, <1>3 DEF CallTree
<1>6. \A q, r \in DOMAIN d : ~From(q, r) /\ ~From(r, q) => Apart(d, q, r)
  BY <1>1, <1>3 DEF CallTree, Apart
<1>7. QED
  BY <1>2, <1>4, <1>5, <1>6 DEF CallTree, d

-----------------------------------------------------------------------------
(* The steps of a loop.                                                     *)

\* A frame at another place, with the same elements to process.
Same(g, f) == IsFrame(g) /\ Reach(g) = Reach(f) /\ g.d = f.d /\ g.n = f.n

LEMMA SameFields ==
  ASSUME NEW f, IsFrame(f), NEW g,
         DOMAIN g = FrameFields, g.pol = f.pol, g.op = f.op, g.its = f.its, g.n = f.n, g.d = f.d
  PROVE  Same(g, f)
<1>1. IsFrame(g)
  BY DEF IsFrame
<1>2. Reach(g) = Reach(f)
  BY DEF Reach
<1>3. QED
  BY <1>1, <1>2 DEF Same

LEMMA ChangedIs ==
  ASSUME NEW f, IsFrame(f), NEW x
  PROVE  Same([f EXCEPT !.pc = x], f) /\ [f EXCEPT !.pc = x].pc = x
BY SameFields DEF IsFrame, FrameFields

\* The left half of a frame of which only its place has changed.
LEMMA LeftHalfKept ==
  ASSUME NEW f, IsFrame(f), f.d = 0, NEW x
  PROVE  Reach(LeftHalf([f EXCEPT !.pc = x])) = Reach(LeftHalf(f))
<1> DEFINE g == [f EXCEPT !.pc = x]
<1>1. g.its = f.its /\ g.n = f.n /\ g.d = f.d
  BY DEF IsFrame, FrameFields
<1>2. IsFrame(g)
  BY ChangedIs DEF Same
<1> HIDE DEF g
<1>3. Mid(g) = Mid(f)
  BY <1>1 DEF Mid
<1>4. /\ LeftHalf(g).its = f.its /\ LeftHalf(g).n = Mid(f) /\ LeftHalf(g).d = 0
      /\ LeftHalf(f).its = f.its /\ LeftHalf(f).n = Mid(f) /\ LeftHalf(f).d = 0
  BY <1>1, <1>2, <1>3, LeftHalfIs
<1>5. Reach(LeftHalf(g)) = Reach(LeftHalf(f))
  BY <1>4 DEF Reach
<1>6. QED
  BY <1>5 DEF g

\* Steps of a frame that has none below it.
LEMMA CutoffKeeps == ASSUME CallsInv, NEW p, Cutoff(p) PROVE CallsInv'
<1> DEFINE g == [calls[p] EXCEPT !.pc = "leaf"]
<1>1. p \in DOMAIN calls /\ calls[p].pc = "called"
  BY DEF Cutoff, At
<1>2. calls' = [calls EXCEPT ![p] = g]
  BY DEF Cutoff
<1>3. IsFrame(calls[p])
  BY <1>1 DEF CallsInv, CallTree
<1>4. IsFrame(g) /\ g.pc = "leaf" /\ Reach(g) = Reach(calls[p])
  <2>1. Same(g, calls[p]) /\ g.pc = "leaf"
    BY <1>3, ChangedIs, Zenon
  <2>2. QED
    BY <2>1 DEF Same
<1> HIDE DEF g
<1>5. CallTree([calls EXCEPT ![p] = g])
  BY <1>1, <1>4, LocalStep DEF CallsInv
<1>6. QED
  BY <1>2, <1>5 DEF CallsInv

LEMMA LeafReturnsKeeps == ASSUME CallsInv, NEW p, LeafReturns(p) PROVE CallsInv'
<1> DEFINE g == [calls[p] EXCEPT !.pc = "returned"]
<1>1. p \in DOMAIN calls /\ calls[p].pc = "leaf"
  BY DEF LeafReturns, At
<1>2. calls' = [calls EXCEPT ![p] = g]
  BY DEF LeafReturns
<1>3. IsFrame(calls[p])
  BY <1>1 DEF CallsInv, CallTree
<1>4. IsFrame(g) /\ g.pc = "returned" /\ Reach(g) = Reach(calls[p])
  <2>1. Same(g, calls[p]) /\ g.pc = "returned"
    BY <1>3, ChangedIs, Zenon
  <2>2. QED
    BY <2>1 DEF Same
<1> HIDE DEF g
<1>5. CallTree([calls EXCEPT ![p] = g])
  BY <1>1, <1>4, LocalStep DEF CallsInv
<1>6. QED
  BY <1>2, <1>5 DEF CallsInv

LEMMA CheckoutKeeps == ASSUME CallsInv, NEW p, Checkout(p) PROVE CallsInv'
<1> DEFINE f == calls[p]
           css == [e \in CheckedOut(f, {"read", "write", "read_write"}) |-> IF Fetched(f, e) THEN Load(e) ELSE Garbage]
           g == [f EXCEPT !.pc = "chunk", !.css = css]
<1>1. p \in DOMAIN calls /\ f.pc = "leaf" /\ f.d < f.n
  BY DEF Checkout, At
<1>2. calls' = [calls EXCEPT ![p].pc = "chunk", ![p].css = css]
  BY DEF Checkout
<1>3. IsFrame(f)
  BY <1>1 DEF CallsInv, CallTree
<1> HIDE DEF css
<1>4. calls' = [calls EXCEPT ![p] = g]
  BY <1>1, <1>2, <1>3
<1>5. IsFrame(g) /\ g.pc = "chunk" /\ Reach(g) = Reach(calls[p]) /\ g.d < g.n
  <2>0. /\ DOMAIN g = FrameFields /\ g.pol = f.pol /\ g.op = f.op /\ g.its = f.its /\ g.n = f.n
        /\ g.d = f.d /\ g.pc = "chunk"
    BY <1>3 DEF IsFrame, FrameFields
  <2>1. Same(g, f) /\ g.pc = "chunk"
    BY <1>3, <2>0, SameFields
  <2>2. QED
    BY <1>1, <1>3, <2>1 DEF Same
<1> HIDE DEF g
<1>6. CallTree([calls EXCEPT ![p] = g])
  BY <1>1, <1>5, LocalStep DEF CallsInv
<1>7. QED
  BY <1>4, <1>6 DEF CallsInv

LEMMA ApplyKeeps == ASSUME CallsInv, NEW p, Apply(p) PROVE CallsInv'
<1> DEFINE f == calls[p]
<1>1. p \in DOMAIN calls /\ f.pc = "chunk"
  BY DEF Apply, At
<1>2. PICK acc : calls' = [calls EXCEPT ![p] = NextChunk(f, acc)]
  BY DEF Apply
<1>3. IsFrame(f) /\ f.d < f.n
  BY <1>1 DEF CallsInv, CallTree, FrameInv
<1> DEFINE g == NextChunk(f, acc)
<1>4. IsFrame(g) /\ g.pc = "leaf" /\ Reach(g) \subseteq Reach(calls[p])
  BY <1>3, NextChunkIs
<1> HIDE DEF g
<1>5. CallTree([calls EXCEPT ![p] = g])
  BY <1>1, <1>4, LocalStep DEF CallsInv
<1>6. QED
  BY <1>2, <1>5 DEF CallsInv, g

\* The fork: the first half begins.
LEMMA ForkKeeps == ASSUME CallsInv, NEW p, Fork(p) PROVE CallsInv'
<1> DEFINE f == calls[p]
           g == [f EXCEPT !.pc = "forked"]
           h == LeftHalf(f)
           c == CalledFrom(calls, p, 1, g, h)
<1>1. p \in DOMAIN calls /\ f.pc = "called" /\ calls' = c
  BY DEF Fork, At, CallAt, CalledFrom
<1>2. IsFrame(f) /\ f.d = 0 /\ p \in Paths /\ DOMAIN calls \subseteq Paths
      /\ \A r \in DOMAIN calls : ~Below(p, r)
  BY <1>1 DEF CallsInv, CallTree, FrameInv
<1>3. IsFrame(g) /\ g.pc = "forked" /\ Reach(g) = Reach(f) /\ g.d = f.d
  <2>1. Same(g, calls[p]) /\ g.pc = "forked"
    BY <1>2, ChangedIs, Zenon
  <2>2. QED
    BY <2>1 DEF Same
<1>4. IsWithin(h, f)
  BY <1>2, LeftHalfIs DEF IsWithin
<1>5. Reach(LeftHalf(g)) = Reach(h)
  BY <1>2, LeftHalfKept
<1> HIDE DEF g, h
<1>6. \A r \in DOMAIN calls : ~Below(Sub(p, 1), r)
  BY <1>2, AboveSub DEF From
<1>7. DOMAIN c = DOMAIN calls \cup {Sub(p, 1)} /\ c[p] = g /\ c[Sub(p, 1)] = h
  BY <1>1, <1>2, SubIs DEF CalledFrom
<1> HIDE DEF c
<1>8. FrameInv(c, p)
  BY <1>2, <1>3, <1>5, <1>7 DEF FrameInv, From
<1>9. CallTree(c)
  BY <1>1, <1>2, <1>3, <1>4, <1>6, <1>8, CallStep DEF CallsInv, c
<1>10. QED
  BY <1>1, <1>9 DEF CallsInv

\* The second half begins: after the first one, or in a stolen continuation.
LEMMA RightBegins ==
  ASSUME CallsInv, NEW p \in DOMAIN calls, calls[p].pc = "forked", NEW acc, NEW g,
         IsFrame(g), g.pc = "right", Reach(g) = Reach(calls[p]), g.d = calls[p].d
  PROVE  CallTree(CalledFrom(calls, p, 2, g, RightHalf(calls[p], acc)))
<1> DEFINE f == calls[p]
           h == RightHalf(f, acc)
           c == CalledFrom(calls, p, 2, g, h)
<1>1. IsFrame(f) /\ f.d = 0 /\ p \in Paths /\ DOMAIN calls \subseteq Paths
      /\ \A r \in DOMAIN calls : Below(p, r) => From(Sub(p, 1), r) /\ Reach(calls[r]) \subseteq Reach(LeftHalf(f))
  BY DEF CallsInv, CallTree, FrameInv
<1>2. IsWithin(h, f) /\ Reach(h) \cap Reach(LeftHalf(f)) = {}
  BY <1>1, RightHalfIs DEF IsWithin
<1> HIDE DEF h
<1>3. \A r \in DOMAIN calls : ~From(Sub(p, 2), r)
  <2>1. SUFFICES ASSUME NEW r \in DOMAIN calls, From(Sub(p, 2), r)
                 PROVE  FALSE
    OBVIOUS
  <2>2. r \in Paths
    BY <1>1
  <2>3. Below(p, r)
    BY <1>1, <2>1, <2>2, AboveSub
  <2>4. QED
    BY <1>1, <2>1, <2>2, <2>3, SubsApart
<1>4. DOMAIN c = DOMAIN calls \cup {Sub(p, 2)} /\ c[p] = g
  BY <1>1, SubIs DEF CalledFrom
<1> HIDE DEF c
<1>5. FrameInv(c, p)
  BY <1>1, <1>4 DEF FrameInv, From
<1>6. \A r \in DOMAIN calls : ~Below(Sub(p, 2), r)
  BY <1>3 DEF From
<1>7. \A r \in DOMAIN calls : Below(p, r) /\ r # Sub(p, 2) =>
        calls[r].pc = "returned" \/ Reach(calls[r]) \cap Reach(h) = {}
  BY <1>1, <1>2
<1>8. CallTree(c)
  BY <1>2, <1>5, <1>6, <1>7, CallStep DEF CallsInv, c
<1>9. QED
  BY <1>8 DEF c, h

LEMMA SerializedKeeps == ASSUME CallsInv, NEW p, Serialized(p) PROVE CallsInv'
<1> DEFINE f == calls[p]
           g == [f EXCEPT !.pc = "right", !.ser = TRUE]
<1>1. p \in DOMAIN calls /\ f.pc = "forked"
      /\ calls' = CalledFrom(calls, p, 2, g, RightHalf(f, calls[Sub(p, 1)].acc))
  BY DEF Serialized, At, CallAt, CalledFrom
<1>2. IsFrame(f)
  BY <1>1 DEF CallsInv, CallTree
<1>3. IsFrame(g) /\ g.pc = "right" /\ Reach(g) = Reach(f) /\ g.d = f.d
  <2>0. /\ DOMAIN g = FrameFields /\ g.pol = f.pol /\ g.op = f.op /\ g.its = f.its /\ g.n = f.n
        /\ g.d = f.d /\ g.pc = "right"
    BY <1>2 DEF IsFrame, FrameFields
  <2>1. Same(g, f) /\ g.pc = "right"
    BY <1>2, <2>0, SameFields
  <2>2. QED
    BY <2>1 DEF Same
<1> HIDE DEF g
<1>4. QED
  BY <1>1, <1>3, RightBegins DEF CallsInv

LEMMA StolenKeeps == ASSUME CallsInv, NEW p, Stolen(p) PROVE CallsInv'
<1> DEFINE f == calls[p]
           g == [f EXCEPT !.pc = "right"]
<1>1. p \in DOMAIN calls /\ f.pc = "forked"
      /\ calls' = CalledFrom(calls, p, 2, g, RightHalf(f, StolenAcc(f)))
  BY DEF Stolen, At, CallAt, CalledFrom
<1>2. IsFrame(f)
  BY <1>1 DEF CallsInv, CallTree
<1>3. IsFrame(g) /\ g.pc = "right" /\ Reach(g) = Reach(f) /\ g.d = f.d
  <2>1. Same(g, calls[p]) /\ g.pc = "right"
    BY <1>2, ChangedIs, Zenon
  <2>2. QED
    BY <2>1 DEF Same
<1> HIDE DEF g
<1>4. QED
  BY <1>1, <1>3, RightBegins DEF CallsInv

\* What is left of a sequence without its first element.
LEMMA TailIs ==
  ASSUME NEW s, s \in Seq(Range(s)), s # <<>>
  PROVE  /\ Len(s) > 0 /\ Head(s) = s[1]
         /\ Tail(s) \in Seq(Range(Tail(s))) /\ Len(Tail(s)) = Len(s) - 1
         /\ \A k \in 1..Len(Tail(s)) : Tail(s)[k] = s[k + 1]
<1> DEFINE R == Range(s)
<1>1. s \in Seq(R)
  OBVIOUS
<1> HIDE DEF R
<1>2. Len(s) \in Nat /\ Len(s) > 0 /\ Head(s) = s[1] /\ Tail(s) \in Seq(R) /\ Len(Tail(s)) = Len(s) - 1
  BY <1>1
<1>3. \A k \in 1..(Len(s) - 1) : Tail(s)[k] = s[k + 1]
  BY <1>1, <1>2
<1> DEFINE t == Tail(s)
<1>4. t \in Seq(R) /\ DOMAIN t = 1..Len(t)
  BY <1>2
<1> HIDE DEF t
<1>5. t \in Seq(Range(t))
  <2>1. \A k \in 1..Len(t) : t[k] \in Range(t)
    BY <1>4 DEF Range
  <2>2. QED
    BY <1>4, <2>1
<1>6. QED
  BY <1>2, <1>3, <1>5 DEF t

\* A frame returns.
LEMMA ReturnKeeps ==
  ASSUME CallsInv, NEW p \in DOMAIN calls, calls[p].pc # "returned", NEW acc, Return(p, acc)
  PROVE  CallsInv'
<1> DEFINE f == calls[p]
           g == [f EXCEPT !.pc = "returned", !.acc = acc]
<1>1. calls' = ReturnedTo(calls, p, g)
  BY DEF Return, ReturnedTo
<1>2. IsFrame(f)
  BY DEF CallsInv, CallTree
<1>3. /\ DOMAIN g = FrameFields /\ g.pol = f.pol /\ g.op = f.op /\ g.its = f.its /\ g.n = f.n
      /\ g.d = f.d /\ g.pc = "returned"
  BY <1>2 DEF IsFrame, FrameFields
<1>4. Same(g, f)
  BY <1>2, <1>3, SameFields
<1>5. IsFrame(g) /\ g.pc = "returned" /\ Reach(g) = Reach(f)
  BY <1>3, <1>4 DEF Same
<1> HIDE DEF g
<1>6. CallTree(ReturnedTo(calls, p, g))
  BY <1>5, ReturnStep DEF CallsInv
<1>7. QED
  BY <1>1, <1>6 DEF CallsInv

LEMMA JoinKeeps == ASSUME CallsInv, NEW p, Join(p) PROVE CallsInv'
BY ReturnKeeps DEF Join, At

LEMMA CombineReturnsKeeps == ASSUME CallsInv, NEW p, CombineReturns(p) PROVE CallsInv'
BY ReturnKeeps DEF CombineReturns, At

\* A loop of combine_op begins: both halves, and the loop before it, are done.
LEMMA FixBegins ==
  ASSUME CallsInv, NEW p \in DOMAIN calls, calls[p].pc \in {"right", "combine"}, NEW g, NEW h,
         IsFrame(g), g.pc = "combine", Reach(g) = Reach(calls[p]), g.d = calls[p].d, IsWithin(h, calls[p]),
         \A r \in DOMAIN calls : Below(p, r) => r \in {Sub(p, 1), Sub(p, 2), Sub(p, 3)} /\ calls[r].pc = "returned",
         g.fix \in Seq(Range(g.fix)), \A k \in 1..Len(g.fix) : IsWithin(g.fix[k], calls[p])
  PROVE  CallTree(CalledFrom(calls, p, 3, g, h))
<1> DEFINE f == calls[p]
           c == CalledFrom(calls, p, 3, g, h)
<1>1. IsFrame(f) /\ f.d = 0 /\ p \in Paths /\ DOMAIN calls \subseteq Paths
  BY DEF CallsInv, CallTree, FrameInv
<1>2. Sub(p, 3) # p
  BY <1>1, SubIs
<1>3. /\ DOMAIN c = DOMAIN calls \cup {Sub(p, 3)} /\ c[p] = g
      /\ \A r \in DOMAIN calls : r # p /\ r # Sub(p, 3) => c[r] = calls[r]
  BY <1>2 DEF CalledFrom
<1> HIDE DEF c
<1>4. \A k \in 1..Len(g.fix) : IsWithin(g.fix[k], g)
  BY DEF IsWithin
<1>5. \A r \in DOMAIN c : Below(p, r) =>
        \/ r \in {Sub(p, 1), Sub(p, 2)} /\ c[r].pc = "returned"
        \/ From(Sub(p, 3), r)
  <2>1. SUFFICES ASSUME NEW r \in DOMAIN c, Below(p, r), r # Sub(p, 3)
                 PROVE  r \in {Sub(p, 1), Sub(p, 2)} /\ c[r].pc = "returned"
    BY DEF From
  <2>2. r \in DOMAIN calls /\ r # p
    BY <1>1, <1>3, <2>1, BelowOrder
  <2>3. QED
    BY <1>3, <2>1, <2>2
<1>6. FrameInv(c, p)
  BY <1>1, <1>3, <1>4, <1>5 DEF FrameInv
<1>7. \A r \in DOMAIN calls : ~Below(Sub(p, 3), r)
  <2>1. SUFFICES ASSUME NEW r \in DOMAIN calls, Below(Sub(p, 3), r)
                 PROVE  FALSE
    OBVIOUS
  <2>2. r \in Paths /\ From(Sub(p, 3), r)
    BY <1>1, <2>1 DEF From
  <2>3. Below(p, r)
    BY <1>1, <2>2, AboveSub
  <2>4. r \in {Sub(p, 1), Sub(p, 2), Sub(p, 3)}
    BY <2>3
  <2>5. Sub(p, 3) \in Paths /\ Len(r) = Len(Sub(p, 3))
    <3>1. \A k \in 1..3 : Sub(p, k) \in Paths /\ Len(Sub(p, k)) = Len(p) + 1
      BY <1>1, SubIs
    <3>2. QED
      BY <2>4, <3>1
  <2>6. QED
    BY <2>1, <2>5 DEF Below, Paths
<1>8. \A r \in DOMAIN calls : Below(p, r) /\ r # Sub(p, 3) =>
        calls[r].pc = "returned" \/ Reach(calls[r]) \cap Reach(h) = {}
  OBVIOUS
<1>9. CallTree(c)
  BY <1>6, <1>7, <1>8, CallStep DEF CallsInv, c
<1>10. QED
  BY <1>9 DEF c

LEMMA CombineKeeps == ASSUME CallsInv, NEW p, Combine(p) PROVE CallsInv'
<1> DEFINE f == calls[p]
           loops == LoopsOf(f, calls[Sub(p, 1)].acc)
           g == [f EXCEPT !.pc = "combine", !.fix = Tail(loops)]
           h == Head(loops)
<1>1. /\ p \in DOMAIN calls /\ f.pc = "right" /\ ~IsCombined(f)
      /\ Returned(Sub(p, 1)) /\ Returned(Sub(p, 2))
  BY DEF Combine, At
<1>2. calls' = CalledFrom(calls, p, 3, g, h)
  BY DEF Combine, CallAt, CalledFrom, LoopsOf
<1>3. IsFrame(f) /\ f.d = 0 /\ p \in Paths /\ DOMAIN calls \subseteq Paths
      /\ \A r \in DOMAIN calls : Below(p, r) => From(Sub(p, 1), r) \/ From(Sub(p, 2), r)
  BY <1>1 DEF CallsInv, CallTree, FrameInv
<1>4. 2 \in DOMAIN f.its
  BY <1>1, <1>3 DEF IsCombined, IsFrame
<1>5. /\ loops \in Seq(Range(loops)) /\ Len(loops) > 0
      /\ \A k \in 1..Len(loops) : IsWithin(loops[k], f)
  BY <1>3, <1>4, CombineLoopsAre
<1> HIDE DEF loops
<1>6. /\ Head(loops) = loops[1]
      /\ Tail(loops) \in Seq(Range(Tail(loops))) /\ Len(Tail(loops)) = Len(loops) - 1
      /\ \A k \in 1..Len(Tail(loops)) : Tail(loops)[k] = loops[k + 1]
  <2>1. loops # <<>>
    BY <1>5
  <2>2. QED
    BY <1>5, <2>1, TailIs
<1>7. Len(loops) \in Nat
  BY <1>5
<1>8. IsWithin(h, f) /\ \A k \in 1..Len(Tail(loops)) : IsWithin(Tail(loops)[k], f)
  BY <1>5, <1>6, <1>7
<1>9. /\ DOMAIN g = FrameFields /\ g.pol = f.pol /\ g.op = f.op /\ g.its = f.its /\ g.n = f.n
      /\ g.d = f.d /\ g.pc = "combine" /\ g.fix = Tail(loops)
  BY <1>3 DEF IsFrame, FrameFields
<1>10. Same(g, f)
  BY <1>3, <1>9, SameFields
<1>11. IsFrame(g) /\ Reach(g) = Reach(f)
  BY <1>10 DEF Same
<1> HIDE DEF g, h
<1>12. \A r \in DOMAIN calls : Below(p, r) => r \in {Sub(p, 1), Sub(p, 2), Sub(p, 3)} /\ calls[r].pc = "returned"
  <2>1. \A k \in 1..2, r \in DOMAIN calls : ~Below(Sub(p, k), r)
    BY <1>1, <1>3 DEF Returned, At, CallsInv, CallTree, FrameInv
  <2>2. QED
    BY <1>1, <1>3, <2>1 DEF From, Returned, At
<1>13. CallTree(CalledFrom(calls, p, 3, g, h))
  BY <1>1, <1>6, <1>8, <1>9, <1>11, <1>12, FixBegins
<1>14. QED
  BY <1>2, <1>13 DEF CallsInv

LEMMA CombineNextKeeps == ASSUME CallsInv, NEW p, CombineNext(p) PROVE CallsInv'
<1> DEFINE f == calls[p]
           loops == f.fix
           g == [f EXCEPT !.fix = Tail(loops)]
           h == Head(loops)
<1>1. p \in DOMAIN calls /\ f.pc = "combine" /\ loops # <<>> /\ Returned(Sub(p, 3))
  BY DEF CombineNext, At
<1>3. /\ IsFrame(f) /\ f.d = 0 /\ p \in Paths /\ DOMAIN calls \subseteq Paths
      /\ \A r \in DOMAIN calls : Below(p, r) =>
            \/ r \in {Sub(p, 1), Sub(p, 2)} /\ calls[r].pc = "returned"
            \/ From(Sub(p, 3), r)
      /\ loops \in Seq(Range(loops))
      /\ \A k \in 1..Len(loops) : IsWithin(loops[k], f)
  BY <1>1 DEF CallsInv, CallTree, FrameInv
<1>2. calls' = CalledFrom(calls, p, 3, g, h)
  BY DEF CombineNext, CallAt, CalledFrom
<1>4. loops # <<>> /\ loops \in Seq(Range(loops)) /\ \A k \in 1..Len(loops) : IsWithin(loops[k], f)
  BY <1>1, <1>3
<1> HIDE DEF loops
<1>6. /\ Len(loops) > 0 /\ Head(loops) = loops[1]
      /\ Tail(loops) \in Seq(Range(Tail(loops))) /\ Len(Tail(loops)) = Len(loops) - 1
      /\ \A k \in 1..Len(Tail(loops)) : Tail(loops)[k] = loops[k + 1]
  BY <1>4, TailIs
<1>7. Len(loops) \in Nat
  BY <1>4
<1>8. IsWithin(h, f) /\ \A k \in 1..Len(Tail(loops)) : IsWithin(Tail(loops)[k], f)
  BY <1>4, <1>6, <1>7
<1>9. /\ DOMAIN g = FrameFields /\ g.pol = f.pol /\ g.op = f.op /\ g.its = f.its /\ g.n = f.n
      /\ g.d = f.d /\ g.pc = "combine" /\ g.fix = Tail(loops)
  BY <1>1, <1>3 DEF IsFrame, FrameFields
<1>10. Same(g, f)
  BY <1>3, <1>9, SameFields
<1>11. IsFrame(g) /\ Reach(g) = Reach(f)
  BY <1>10 DEF Same
<1> HIDE DEF g, h
<1>12. \A r \in DOMAIN calls : Below(p, r) => r \in {Sub(p, 1), Sub(p, 2), Sub(p, 3)} /\ calls[r].pc = "returned"
  <2>1. \A r \in DOMAIN calls : ~Below(Sub(p, 3), r)
    BY <1>1, <1>3 DEF Returned, At, CallsInv, CallTree, FrameInv
  <2>2. QED
    BY <1>1, <1>3, <2>1 DEF From, Returned, At
<1>13. CallTree(CalledFrom(calls, p, 3, g, h))
  BY <1>1, <1>6, <1>8, <1>9, <1>11, <1>12, FixBegins
<1>14. QED
  BY <1>2, <1>13 DEF CallsInv

\* A step of a loop keeps the frames apart.
LEMMA LoopStep == ASSUME CallsInv, Next PROVE CallsInv'
<1>1. PICK p \in DOMAIN calls : Step(p)
  BY DEF Next
<1>2. QED
  BY <1>1, CutoffKeeps, ForkKeeps, SerializedKeeps, StolenKeeps, JoinKeeps, CombineKeeps, CombineNextKeeps,
     CombineReturnsKeeps, CheckoutKeeps, ApplyKeeps, LeafReturnsKeeps DEF Step

\* A single frame that is yet to run.
LEMMA RootCall ==
  ASSUME NEW f, IsFrame(f), f.pc = "called", f.d = 0
  PROVE  CallTree([p \in {<<>>} |-> f])
<1> DEFINE c == [p \in {<<>>} |-> f]
<1>1. DOMAIN c = {<<>>} /\ c[<<>>] = f /\ <<>> \in Paths
  BY DEF Paths
<1> HIDE DEF c
<1>2. ~Below(<<>>, <<>>)
  BY <1>1, BelowOrder
<1>3. \A p \in DOMAIN c : FrameInv(c, p)
  BY <1>1, <1>2 DEF FrameInv
<1>4. CallTree(c)
  BY <1>1, <1>2, <1>3 DEF CallTree, From
<1>5. QED
  BY <1>4 DEF c

\* No frames.
LEMMA NoCall == CallTree(<<>>)
BY DEF CallTree

\* A frame whose iterators are all at one position.
LEMMA NewFrame ==
  ASSUME NEW f, DOMAIN f = FrameFields, f.pol.checkout \in Nat, f.pol.checkout > 0,
         f.n \in Nat, f.d = 0, NEW x \in Int,
         \A k \in DOMAIN f.its : DOMAIN f.its[k] = IterFields /\ f.its[k].at = x,
         f.op \in {"scan", "scan_as_is"} => 2 \in DOMAIN f.its
  PROVE  IsFrame(f)
BY DEF IsFrame

\* An iterator at the beginning.
LEMMA ItIs ==
  ASSUME NEW arr, NEW mode
  PROVE  /\ DOMAIN It(arr, mode) = IterFields /\ It(arr, mode).at = 0
         /\ \A needed : DOMAIN Converted(arr, mode, needed) = IterFields /\ Converted(arr, mode, needed).at = 0
BY DEF It, Converted, IterFields

\* What the loop functions pass on.
Begins(f, j) ==
  /\ DOMAIN f = FrameFields /\ f.pol = j.pol /\ f.n = j.n /\ f.d = 0 /\ f.pc = "called"
  /\ \A k \in DOMAIN f.its : DOMAIN f.its[k] = IterFields /\ f.its[k].at = 0
  /\ f.op \in {"scan", "scan_as_is"} => 2 \in DOMAIN f.its

LEMMA FrameBegins ==
  ASSUME NEW j, NEW gen, NEW op, NEW acc, NEW its,
         \A k \in DOMAIN its : DOMAIN its[k] = IterFields /\ its[k].at = 0,
         op \in {"scan", "scan_as_is"} => 2 \in DOMAIN its
  PROVE  Begins(Frame(j.pol, gen, op, acc, its, j.n), j)
<1> DEFINE f == Frame(j.pol, gen, op, acc, its, j.n)
<1>1. /\ DOMAIN f = FrameFields /\ f.pol = j.pol /\ f.op = op /\ f.its = its /\ f.n = j.n
      /\ f.d = 0 /\ f.pc = "called"
  BY FrameIs
<1> HIDE DEF f
<1>2. Begins(f, j)
  BY <1>1 DEF Begins
<1>3. QED
  BY <1>2 DEF f

\* Another operation over the same iterators, and no initial value.
LEMMA VariantBegins ==
  ASSUME NEW f, NEW j, Begins(f, j)
  PROVE  /\ Begins([f EXCEPT !.op = "accumulate_as_is"], j)
         /\ 2 \in DOMAIN f.its => Begins([f EXCEPT !.op = "scan_as_is"], j)
         /\ Begins([f EXCEPT !.acc = Identity], j)
BY DEF Begins, FrameFields

LEMMA LoopsBegin ==
  ASSUME NEW j
  PROVE  /\ Begins(ForEach(j), j) /\ Begins(ForEach2(j), j) /\ Begins(ForEach3(j), j) /\ Begins(Fill(j), j)
         /\ Begins(Transform(j), j) /\ Begins(Transform2(j), j)
         /\ Begins(TransformReduce(j), j) /\ Begins(TransformReduce2(j), j) /\ Begins(Reduce(j), j)
         /\ Begins(TransformInclusiveScan(j), j) /\ Begins(TransformInclusiveScanNoInit(j), j)
         /\ Begins(InclusiveScan(j), j) /\ Begins(InclusiveScanNoInit(j), j)
<1> DEFINE start(it) == DOMAIN it = IterFields /\ it.at = 0
<1>1. \A arr, mode : start(It(arr, mode)) /\ \A needed : start(Converted(arr, mode, needed))
  BY ItIs
<1>2. \A a : start(a) => \A k \in DOMAIN <<a>> : start(<<a>>[k])
  OBVIOUS
<1>3. \A a, b : start(a) /\ start(b) => \A k \in DOMAIN <<a, b>> : start(<<a, b>>[k])
  OBVIOUS
<1>4. \A a, b, c : start(a) /\ start(b) /\ start(c) => \A k \in DOMAIN <<a, b, c>> : start(<<a, b, c>>[k])
  OBVIOUS
<1>5. \A gen, op, acc, its :
        (\A k \in DOMAIN its : start(its[k])) /\ (op \in {"scan", "scan_as_is"} => 2 \in DOMAIN its)
        => Begins(Frame(j.pol, gen, op, acc, its, j.n), j)
  BY FrameBegins
<1> HIDE DEF start
<1>6. Begins(ForEach(j), j)
  BY <1>1, <1>2, <1>5 DEF ForEach
<1>7. Begins(ForEach2(j), j)
  BY <1>1, <1>3, <1>5 DEF ForEach2
<1>8. Begins(ForEach3(j), j)
  BY <1>1, <1>4, <1>5 DEF ForEach3
<1>9. Begins(Fill(j), j)
  BY <1>1, <1>2, <1>5 DEF Fill
<1>10. Begins(Transform(j), j)
  BY <1>1, <1>3, <1>5 DEF Transform
<1>11. Begins(Transform2(j), j)
  BY <1>1, <1>4, <1>5 DEF Transform2
<1>12. Begins(TransformReduce(j), j)
  BY <1>1, <1>2, <1>5 DEF TransformReduce
<1>13. Begins(TransformReduce2(j), j)
  BY <1>1, <1>3, <1>5 DEF TransformReduce2
<1>14. Begins(Reduce(j), j)
  BY <1>12, VariantBegins DEF Reduce
<1>15. Begins(TransformInclusiveScan(j), j) /\ 2 \in DOMAIN TransformInclusiveScan(j).its
  <2> DEFINE its == <<Converted("src", "pointer", "read"), Converted(j.dst, j.mode, DstMode)>>
  <2>0. start(its[1]) /\ start(its[2]) /\ DOMAIN its = 1..2
    BY <1>1
  <2>1. (\A k \in DOMAIN its : start(its[k])) /\ 2 \in DOMAIN its
    BY <2>0
  <2>2. TransformInclusiveScan(j) = Frame(j.pol, "reduce", "scan", Init0, its, j.n)
    BY DEF TransformInclusiveScan
  <2> HIDE DEF its
  <2>3. Begins(TransformInclusiveScan(j), j)
    BY <1>5, <2>1, <2>2
  <2>4. 2 \in DOMAIN TransformInclusiveScan(j).its
    BY <2>1, <2>2, FrameIs
  <2>5. QED
    BY <2>3, <2>4
<1>16. Begins(TransformInclusiveScanNoInit(j), j)
  BY <1>15, VariantBegins DEF TransformInclusiveScanNoInit
<1>17. Begins(InclusiveScan(j), j)
  BY <1>15, VariantBegins DEF InclusiveScan
<1>18. Begins(InclusiveScanNoInit(j), j)
  BY <1>17, VariantBegins DEF InclusiveScanNoInit
<1>19. QED
  BY <1>6, <1>7, <1>8, <1>9, <1>10, <1>11, <1>12, <1>13, <1>14, <1>15, <1>16, <1>17, <1>18

LEMMA StartIs ==
  ASSUME NEW j \in Jobs, j.fn # "vector"
  PROVE  IsFrame(Start(j)) /\ Start(j).pc = "called" /\ Start(j).d = 0
<1>1. j.fn \in LoopFunctions /\ j.n \in Nat /\ j.pol.checkout \in Nat /\ j.pol.checkout > 0
  BY LoopsAssumption, PolicyAssumption DEF PolicyValid
<1>2. Begins(Start(j), j)
  BY <1>1, LoopsBegin DEF Start, LoopFunctions
<1>3. IsFrame(Start(j))
  BY <1>1, <1>2, NewFrame DEF Begins
<1>4. QED
  BY <1>2, <1>3 DEF Begins

LEMMA LoopInit == Init => CallsInv
BY StartIs, RootCall DEF Init, CallsInv

\* Disjoint frames have no race.
LEMMA RaceFree == ASSUME CallsInv PROVE NoDataRace
<1>1. SUFFICES ASSUME NEW p \in DOMAIN calls, NEW q \in DOMAIN calls, calls[p].pc = "chunk",
                      calls[q].pc = "chunk", p # q
               PROVE  Uses(calls[p]) \cap Writes(calls[q]) = {}
  BY DEF NoDataRace
<1>2. ~From(p, q) /\ ~From(q, p)
  BY <1>1 DEF CallsInv, CallTree, FrameInv, From
<1>3. Reach(calls[p]) \cap Reach(calls[q]) = {}
  BY <1>1, <1>2 DEF CallsInv, CallTree, Apart
<1>4. Uses(calls[p]) \subseteq Reach(calls[p]) /\ Writes(calls[q]) \subseteq Reach(calls[q])
  BY <1>1, UsesInReach DEF CallsInv, CallTree, FrameInv
<1>5. QED
  BY <1>3, <1>4

\* A loop function, whatever its policy, its iterators and the halves that are
\* stolen, never has two tasks at work on an element that one of them writes
\* (NoDataRace): for_each_aux checks out whole chunks, and parallel_loop_generic
\* advances every iterator by the middle.
THEOREM LoopsRaceFree == Spec => []NoDataRace
<1>1. CallsInv /\ [Next]_vars => CallsInv'
  BY LoopStep DEF vars, CallsInv
<1>2. QED
  BY <1>1, LoopInit, RaceFree, PTL DEF Spec

-----------------------------------------------------------------------------
(* Vectors: what is left to do and what it leaves.                          *)

OptsSet == [coll : BOOLEAN, construct : BOOLEAN, destruct : BOOLEAN, cutoff : Nat \ {0}]
VecFields == {"opts", "b", "size", "cap"}

\* The members of a vector: it has a block if it has capacity.
IsVector(x) ==
  /\ DOMAIN x = VecFields /\ x.opts \in OptsSet /\ x.size \in Nat /\ x.cap \in Nat
  /\ x.b \in Blocks \cup {Null} /\ (x.b = Null <=> x.cap = 0)

\* A loop that can be started.
IsLoop(f) == IsFrame(f) /\ f.pc = "called" /\ f.d = 0

SetsVector(e, v) == e.do = "set" /\ e.v = v

\* Steps s allocate A and give back R, each once, and leave the vectors of U with
\* the members U; their loops can be started.
HasPlan(s, A, R, U) ==
  /\ \E S : s \in Seq(S)
  /\ \A i \in 1..Len(s) :
       \/ s[i].do = "alloc" /\ s[i] \in A
       \/ s[i].do = "free" /\ s[i] \in R
       \/ s[i].do = "set" /\ s[i].v \in DOMAIN U /\ IsVector(s[i].x)
       \/ s[i].do = "loop" /\ IsLoop(s[i].f)
  /\ \A e \in A \cup R : \E i \in 1..Len(s) : s[i] = e /\ \A j \in 1..Len(s) : j # i => s[j] # e
  /\ \A e \in A : e.do = "alloc"
  /\ \A e \in R : e.do = "free"
  /\ DOMAIN U \subseteq Vectors
  /\ \A v \in DOMAIN U : \E i \in 1..Len(s) :
       SetsVector(s[i], v) /\ s[i].x = U[v] /\ \A j \in (i + 1)..Len(s) : ~SetsVector(s[j], v)

\* What a vector is when the steps have been taken.
After(vc, U, v) == IF v \in DOMAIN U THEN U[v] ELSE vc[v]

Holds(hp, x) == x.b \in DOMAIN hp /\ hp[x.b] = [cap |-> x.cap, coll |-> x.opts.coll]

\* With vectors vc and heap hp the steps allocate what is free and free what is
\* allocated, as it was allocated, and in the end every block has one owner.
Owned(vc, hp, A, R, U) ==
  /\ \A a \in A : a.b \in Blocks \ DOMAIN hp
  /\ \A a, c \in A : a.b = c.b => a = c
  /\ \A f \in R : f.b \in DOMAIN hp /\ hp[f.b] = [cap |-> f.cap, coll |-> f.coll]
  /\ \A f, g \in R : f.b = g.b => f = g
  /\ DOMAIN vc = Vectors
  /\ \A v \in Vectors : IsVector(vc[v]) /\ IsVector(After(vc, U, v))
  /\ \A v, w \in Vectors : v # w /\ After(vc, U, v).b # Null => After(vc, U, v).b # After(vc, U, w).b
  /\ (DOMAIN hp \cup {a.b : a \in A}) \ {f.b : f \in R} = {After(vc, U, v).b : v \in Vectors} \ {Null}
  /\ \A v \in Vectors : After(vc, U, v).b # Null =>
       \/ Holds(hp, After(vc, U, v))
       \/ \E a \in A : /\ a.b = After(vc, U, v).b /\ a.cap = After(vc, U, v).cap
                       /\ a.coll = After(vc, U, v).opts.coll

\* The rest of an operation: a plan, by which memory stays owned.
Planned(st, vc, hp) == \E A, R, U : HasPlan(st, A, R, U) /\ Owned(vc, hp, A, R, U)

\* The program that runs: a loop function, or vector operations whose loops run
\* when they are next.
VecInv ==
  /\ job \in Jobs
  /\ CallsInv
  /\ IF job.fn = "vector"
     THEN /\ Planned(todo, vec, heap)
          /\ DOMAIN calls # {} => todo # <<>> /\ Head(todo).do = "loop"
     ELSE todo = <<>>

-----------------------------------------------------------------------------
(* Plans.                                                                   *)

\* No steps.
LEMMA EmptyPlan ==
  /\ HasPlan(<<>>, {}, {}, <<>>)
  /\ \A A, R, U : HasPlan(<<>>, A, R, U) => A = {} /\ R = {} /\ DOMAIN U = {}
<1>1. <<>> \in Seq({}) /\ Len(<<>>) = 0 /\ DOMAIN <<>> = {} /\ 1..0 = {}
  OBVIOUS
<1>2. HasPlan(<<>>, {}, {}, <<>>)
  BY <1>1 DEF HasPlan
<1>3. ASSUME NEW A, NEW R, NEW U, HasPlan(<<>>, A, R, U)
      PROVE  A = {} /\ R = {} /\ DOMAIN U = {}
  <2>1. A \cup R = {}
    BY <1>1, <1>3 DEF HasPlan
  <2>2. DOMAIN U = {}
    BY <1>1, <1>3 DEF HasPlan
  <2>3. QED
    BY <2>1, <2>2
<1>4. QED
  BY <1>2, <1>3

\* One step.
LEMMA AllocPlan ==
  ASSUME NEW e, e.do = "alloc"
  PROVE  HasPlan(<<e>>, {e}, {}, <<>>)
<1> DEFINE s == <<e>>
<1>1. s \in Seq({e}) /\ Len(s) = 1 /\ s[1] = e /\ DOMAIN <<>> = {}
  OBVIOUS
<1> HIDE DEF s
<1>2. HasPlan(s, {e}, {}, <<>>)
  BY <1>1 DEF HasPlan
<1>3. QED
  BY <1>2 DEF s

LEMMA FreePlan ==
  ASSUME NEW e, e.do = "free"
  PROVE  HasPlan(<<e>>, {}, {e}, <<>>)
<1> DEFINE s == <<e>>
<1>1. s \in Seq({e}) /\ Len(s) = 1 /\ s[1] = e /\ DOMAIN <<>> = {}
  OBVIOUS
<1> HIDE DEF s
<1>2. HasPlan(s, {}, {e}, <<>>)
  BY <1>1 DEF HasPlan
<1>3. QED
  BY <1>2 DEF s

LEMMA LoopPlan ==
  ASSUME NEW f, IsLoop(f)
  PROVE  HasPlan(Loop(f), {}, {}, <<>>)
<1> DEFINE s == Loop(f)
           e == [do |-> "loop", f |-> f]
<1>1. s \in Seq({e}) /\ Len(s) = 1 /\ s[1] = e /\ DOMAIN <<>> = {}
  BY DEF Loop
<1>2. e.do = "loop" /\ e.f = f
  OBVIOUS
<1> HIDE DEF s, e
<1>3. HasPlan(s, {}, {}, <<>>)
  BY <1>1, <1>2 DEF HasPlan
<1>4. QED
  BY <1>3 DEF s

LEMMA SetPlan ==
  ASSUME NEW v \in Vectors, NEW x, IsVector(x)
  PROVE  HasPlan(Set(v, x), {}, {}, [u \in {v} |-> x])
<1> DEFINE s == Set(v, x)
           e == [do |-> "set", v |-> v, x |-> x]
           U == [u \in {v} |-> x]
<1>1. s \in Seq({e}) /\ Len(s) = 1 /\ s[1] = e /\ DOMAIN U = {v} /\ U[v] = x
  BY DEF Set
<1>2. e.do = "set" /\ e.v = v /\ e.x = x
  OBVIOUS
<1> HIDE DEF s, e, U
<1>3. HasPlan(s, {}, {}, U)
  BY <1>1, <1>2 DEF HasPlan, SetsVector
<1>4. QED
  BY <1>3 DEF s, U

\* Steps after steps.
Over(U, V) == [v \in DOMAIN U \cup DOMAIN V |-> IF v \in DOMAIN V THEN V[v] ELSE U[v]]

LEMMA PlanCat ==
  ASSUME NEW s, NEW A, NEW R, NEW U, HasPlan(s, A, R, U),
         NEW t, NEW B, NEW G, NEW V, HasPlan(t, B, G, V), A \cap B = {}, R \cap G = {}
  PROVE  HasPlan(s \o t, A \cup B, R \cup G, Over(U, V))
<1> DEFINE st == s \o t
           W == Over(U, V)
<1>1. PICK S, T : s \in Seq(S) /\ t \in Seq(T)
  BY DEF HasPlan
<1>2. s \in Seq(S \cup T) /\ t \in Seq(S \cup T)
  BY <1>1
<1>3. /\ st \in Seq(S \cup T) /\ Len(st) = Len(s) + Len(t) /\ Len(s) \in Nat /\ Len(t) \in Nat
      /\ \A i \in 1..Len(s) : st[i] = s[i]
      /\ \A i \in 1..Len(t) : st[Len(s) + i] = t[i]
  BY <1>2
<1>4. /\ DOMAIN W = DOMAIN U \cup DOMAIN V
      /\ \A v \in DOMAIN V : W[v] = V[v]
      /\ \A v \in DOMAIN U : v \notin DOMAIN V => W[v] = U[v]
  BY DEF Over
<1> HIDE DEF st, W
<1>5. \A i \in 1..Len(st) : i \in 1..Len(s) \/ (i - Len(s) \in 1..Len(t) /\ i = Len(s) + (i - Len(s)))
  BY <1>3
<1>6. \A i \in 1..Len(t) : Len(s) + i \in 1..Len(st)
  BY <1>3
<1>7. \A i \in 1..Len(s) : i \in 1..Len(st)
  BY <1>3
<1>8. \A i \in 1..Len(st) : (\E j \in 1..Len(s) : st[i] = s[j]) \/ (\E j \in 1..Len(t) : st[i] = t[j])
  BY <1>3, <1>5
<1>9. \A i \in 1..Len(st) :
       \/ st[i].do = "alloc" /\ st[i] \in A \cup B
       \/ st[i].do = "free" /\ st[i] \in R \cup G
       \/ st[i].do = "set" /\ st[i].v \in DOMAIN W /\ IsVector(st[i].x)
       \/ st[i].do = "loop" /\ IsLoop(st[i].f)
  <2>1. TAKE i \in 1..Len(st)
  <2>2. CASE \E j \in 1..Len(s) : st[i] = s[j]
    BY <1>4, <2>2 DEF HasPlan
  <2>3. CASE \E j \in 1..Len(t) : st[i] = t[j]
    BY <1>4, <2>3 DEF HasPlan
  <2>4. QED
    BY <1>8, <2>2, <2>3
<1>10. (\A e \in A \cup B : e.do = "alloc") /\ (\A e \in R \cup G : e.do = "free")
  BY DEF HasPlan
<1>11. \A e \in A \cup R, j \in 1..Len(t) : t[j] # e
  BY <1>10 DEF HasPlan
<1>12. \A e \in B \cup G, j \in 1..Len(s) : s[j] # e
  BY <1>10 DEF HasPlan
<1>13. \A e \in (A \cup B) \cup (R \cup G) :
         \E i \in 1..Len(st) : st[i] = e /\ \A j \in 1..Len(st) : j # i => st[j] # e
  <2>1. TAKE e \in (A \cup B) \cup (R \cup G)
  <2>2. CASE e \in A \cup R
    <3>1. PICK i \in 1..Len(s) : s[i] = e /\ \A j \in 1..Len(s) : j # i => s[j] # e
      BY <2>2 DEF HasPlan
    <3>2. st[i] = e /\ \A j \in 1..Len(st) : j # i => st[j] # e
      BY <1>3, <1>5, <1>11, <2>2, <3>1
    <3>3. QED
      BY <1>7, <3>2
  <2>3. CASE e \in B \cup G
    <3>1. PICK i \in 1..Len(t) : t[i] = e /\ \A j \in 1..Len(t) : j # i => t[j] # e
      BY <2>3 DEF HasPlan
    <3>2. st[Len(s) + i] = e
      BY <1>3, <3>1
    <3>3. \A j \in 1..Len(st) : j # Len(s) + i => st[j] # e
      <4>1. SUFFICES ASSUME NEW j \in 1..Len(st), j # Len(s) + i
                     PROVE  st[j] # e
        OBVIOUS
      <4>2. CASE j \in 1..Len(s)
        BY <1>3, <1>12, <2>3, <4>2
      <4>3. CASE j - Len(s) \in 1..Len(t) /\ j = Len(s) + (j - Len(s))
        <5>1. j - Len(s) # i
          BY <1>3, <4>1, <4>3
        <5>2. st[j] = t[j - Len(s)]
          BY <1>3, <4>3
        <5>3. QED
          BY <3>1, <4>3, <5>1, <5>2
      <4>4. QED
        BY <1>5, <4>2, <4>3
    <3>4. QED
      BY <1>6, <3>2, <3>3
  <2>4. QED
    BY <2>2, <2>3
<1>14. \A v \in DOMAIN W : \E i \in 1..Len(st) :
         SetsVector(st[i], v) /\ st[i].x = W[v] /\ \A j \in (i + 1)..Len(st) : ~SetsVector(st[j], v)
  <2>1. TAKE v \in DOMAIN W
  <2>2. CASE v \in DOMAIN V
    <3>1. PICK i \in 1..Len(t) : SetsVector(t[i], v) /\ t[i].x = V[v] /\ \A j \in (i + 1)..Len(t) : ~SetsVector(t[j], v)
      BY <2>2 DEF HasPlan
    <3>2. st[Len(s) + i] = t[i]
      BY <1>3
    <3>3. \A j \in (Len(s) + i + 1)..Len(st) : ~SetsVector(st[j], v)
      <4>1. SUFFICES ASSUME NEW j \in (Len(s) + i + 1)..Len(st)
                     PROVE  ~SetsVector(st[j], v)
        OBVIOUS
      <4>2. j - Len(s) \in (i + 1)..Len(t) /\ j - Len(s) \in 1..Len(t) /\ j = Len(s) + (j - Len(s))
        BY <1>3
      <4>3. st[j] = t[j - Len(s)]
        BY <1>3, <4>2
      <4>4. QED
        BY <3>1, <4>2, <4>3
    <3>4. QED
      BY <1>4, <1>6, <2>2, <3>1, <3>2, <3>3
  <2>3. CASE v \notin DOMAIN V
    <3>1. v \in DOMAIN U /\ W[v] = U[v]
      BY <1>4, <2>3
    <3>2. PICK i \in 1..Len(s) : SetsVector(s[i], v) /\ s[i].x = U[v] /\ \A j \in (i + 1)..Len(s) : ~SetsVector(s[j], v)
      BY <3>1 DEF HasPlan
    <3>3. \A j \in 1..Len(t) : ~SetsVector(t[j], v)
      BY <2>3 DEF HasPlan, SetsVector
    <3>4. \A j \in (i + 1)..Len(st) : ~SetsVector(st[j], v)
      <4>1. SUFFICES ASSUME NEW j \in (i + 1)..Len(st)
                     PROVE  ~SetsVector(st[j], v)
        OBVIOUS
      <4>2. CASE j \in 1..Len(s)
        BY <1>3, <3>2, <4>2
      <4>3. CASE j - Len(s) \in 1..Len(t) /\ j = Len(s) + (j - Len(s))
        BY <1>3, <3>3, <4>3
      <4>4. QED
        BY <1>3, <1>5, <4>2, <4>3
    <3>5. QED
      BY <1>3, <1>7, <3>1, <3>2, <3>4
  <2>4. QED
    BY <2>2, <2>3
<1>15. DOMAIN W \subseteq Vectors
  BY <1>4 DEF HasPlan
<1>16. HasPlan(st, A \cup B, R \cup G, W)
  BY <1>3, <1>9, <1>10, <1>13, <1>14, <1>15 DEF HasPlan
<1>17. QED
  BY <1>16 DEF st, W

\* The first step is taken.
Rest(U, v) == [u \in DOMAIN U \ {v} |-> U[u]]

LEMMA TailOf ==
  ASSUME NEW s, NEW A, NEW R, NEW U, HasPlan(s, A, R, U), s # <<>>
  PROVE  /\ Len(s) \in Nat /\ Len(s) >= 1 /\ Head(s) = s[1]
         /\ \E S : Tail(s) \in Seq(S)
         /\ Len(Tail(s)) = Len(s) - 1
         /\ \A i \in 1..Len(Tail(s)) : i + 1 \in 2..Len(s) /\ Tail(s)[i] = s[i + 1]
         /\ \A i \in 2..Len(s) : i - 1 \in 1..Len(Tail(s)) /\ Tail(s)[i - 1] = s[i]
<1>1. PICK S : s \in Seq(S)
  BY DEF HasPlan
<1>2. Len(s) \in Nat /\ Len(s) >= 1 /\ Head(s) = s[1] /\ Tail(s) \in Seq(S) /\ Len(Tail(s)) = Len(s) - 1
  BY <1>1
<1>3. \A i \in 1..(Len(s) - 1) : Tail(s)[i] = s[i + 1]
  BY <1>1
<1>4. \A i \in 1..Len(Tail(s)) : i + 1 \in 2..Len(s) /\ Tail(s)[i] = s[i + 1]
  BY <1>2, <1>3
<1>5. \A i \in 2..Len(s) : i - 1 \in 1..Len(Tail(s)) /\ Tail(s)[i - 1] = s[i]
  <2>1. TAKE i \in 2..Len(s)
  <2>2. i - 1 \in 1..(Len(s) - 1) /\ (i - 1) + 1 = i
    BY <1>2
  <2>3. QED
    BY <1>2, <1>3, <2>2
<1>6. QED
  BY <1>2, <1>4, <1>5

\* An entry that is left has its place among the steps that are left.
LEMMA PlaceKept ==
  ASSUME NEW s, NEW A, NEW R, NEW U, HasPlan(s, A, R, U), s # <<>>,
         NEW e \in A \cup R, s[1] # e
  PROVE  \E i \in 1..Len(Tail(s)) : Tail(s)[i] = e /\ \A j \in 1..Len(Tail(s)) : j # i => Tail(s)[j] # e
<1>1. PICK i \in 1..Len(s) : s[i] = e /\ \A j \in 1..Len(s) : j # i => s[j] # e
  BY DEF HasPlan
<1>2. i \in 2..Len(s)
  BY <1>1, TailOf
<1>3. i - 1 \in 1..Len(Tail(s)) /\ Tail(s)[i - 1] = e
  BY <1>1, <1>2, TailOf
<1>4. \A j \in 1..Len(Tail(s)) : j # i - 1 => Tail(s)[j] # e
  <2>1. SUFFICES ASSUME NEW j \in 1..Len(Tail(s)), j # i - 1
                 PROVE  Tail(s)[j] # e
    OBVIOUS
  <2>2. j + 1 \in 2..Len(s) /\ Tail(s)[j] = s[j + 1] /\ Len(s) \in Nat
    BY TailOf
  <2>3. j + 1 \in 1..Len(s) /\ j + 1 # i
    BY <1>2, <2>1, <2>2
  <2>4. QED
    BY <1>1, <2>2, <2>3
<1>5. QED
  BY <1>3, <1>4

\* The last entry that sets a vector, when it is not the first step.
LastSet(s, v, x, i) == SetsVector(s[i], v) /\ s[i].x = x /\ \A j \in (i + 1)..Len(s) : ~SetsVector(s[j], v)

LEMMA LastKept ==
  ASSUME NEW s, NEW A, NEW R, NEW U, HasPlan(s, A, R, U), s # <<>>, NEW v \in DOMAIN U,
         NEW i \in 2..Len(s), LastSet(s, v, U[v], i)
  PROVE  \E k \in 1..Len(Tail(s)) : LastSet(Tail(s), v, U[v], k)
<1>1. i - 1 \in 1..Len(Tail(s)) /\ Tail(s)[i - 1] = s[i] /\ Len(s) \in Nat /\ Len(Tail(s)) = Len(s) - 1
  BY TailOf
<1>2. \A j \in ((i - 1) + 1)..Len(Tail(s)) : ~SetsVector(Tail(s)[j], v)
  <2>1. SUFFICES ASSUME NEW j \in ((i - 1) + 1)..Len(Tail(s))
                 PROVE  ~SetsVector(Tail(s)[j], v)
    OBVIOUS
  <2>2. j \in 1..Len(Tail(s)) /\ j + 1 \in (i + 1)..Len(s)
    BY <1>1
  <2>3. Tail(s)[j] = s[j + 1]
    BY <2>2, TailOf
  <2>4. QED
    BY <2>2, <2>3 DEF LastSet
<1>3. QED
  BY <1>1, <1>2 DEF LastSet

\* The entries that are left when the first step is taken.
LEMMA EntriesKept ==
  ASSUME NEW s, NEW A, NEW R, NEW U, HasPlan(s, A, R, U), s # <<>>
  PROVE  LET t == Tail(s) IN
         /\ \A i \in 1..Len(t) :
              \/ t[i].do = "alloc" /\ t[i] \in A \ {Head(s)}
              \/ t[i].do = "free" /\ t[i] \in R \ {Head(s)}
              \/ t[i].do = "set" /\ t[i].v \in DOMAIN U /\ IsVector(t[i].x)
              \/ t[i].do = "loop" /\ IsLoop(t[i].f)
         /\ \A e \in (A \ {Head(s)}) \cup (R \ {Head(s)}) :
              \E i \in 1..Len(t) : t[i] = e /\ \A j \in 1..Len(t) : j # i => t[j] # e
         /\ Head(s).do = "alloc" => Head(s) \in A
         /\ Head(s).do = "free" => Head(s) \in R
         /\ Head(s).do = "loop" => IsLoop(Head(s).f)
         /\ Head(s).do = "set" => Head(s).v \in DOMAIN U /\ IsVector(Head(s).x)
         /\ Head(s).do \in {"alloc", "free", "set", "loop"}
<1> DEFINE t == Tail(s)
<1>1. 1 \in 1..Len(s) /\ Head(s) = s[1]
  BY TailOf
<1>2. \A i \in 1..Len(t) : i + 1 \in 1..Len(s) /\ i + 1 # 1 /\ t[i] = s[i + 1]
  <2>1. TAKE i \in 1..Len(t)
  <2>2. i + 1 \in 2..Len(s) /\ t[i] = s[i + 1] /\ Len(s) \in Nat
    BY TailOf
  <2>3. QED
    BY <2>2
<1>3. /\ Head(s).do = "alloc" => Head(s) \in A
      /\ Head(s).do = "free" => Head(s) \in R
      /\ Head(s).do = "loop" => IsLoop(Head(s).f)
      /\ Head(s).do = "set" => Head(s).v \in DOMAIN U /\ IsVector(Head(s).x)
      /\ Head(s).do \in {"alloc", "free", "set", "loop"}
  BY <1>1 DEF HasPlan
<1>4. \A i \in 1..Len(t) : Head(s) \in A \cup R => t[i] # Head(s)
  <2>1. SUFFICES ASSUME NEW i \in 1..Len(t), Head(s) \in A \cup R, s[i + 1] = s[1]
                 PROVE  FALSE
    BY <1>1, <1>2
  <2>2. PICK k \in 1..Len(s) : s[k] = s[1] /\ \A j \in 1..Len(s) : j # k => s[j] # s[1]
    BY <1>1, <2>1 DEF HasPlan
  <2>3. k = 1 /\ k = i + 1
    BY <1>1, <1>2, <2>1, <2>2
  <2>4. QED
    BY <1>2, <2>3
<1>5. ASSUME NEW i \in 1..Len(t)
      PROVE  \/ t[i].do = "alloc" /\ t[i] \in A \ {Head(s)}
             \/ t[i].do = "free" /\ t[i] \in R \ {Head(s)}
             \/ t[i].do = "set" /\ t[i].v \in DOMAIN U /\ IsVector(t[i].x)
             \/ t[i].do = "loop" /\ IsLoop(t[i].f)
  <2>1. \/ t[i].do = "alloc" /\ t[i] \in A
        \/ t[i].do = "free" /\ t[i] \in R
        \/ t[i].do = "set" /\ t[i].v \in DOMAIN U /\ IsVector(t[i].x)
        \/ t[i].do = "loop" /\ IsLoop(t[i].f)
    BY <1>2 DEF HasPlan
  <2>2. t[i] \in A \cup R => t[i] # Head(s)
    BY <1>4
  <2>3. QED
    BY <2>1, <2>2
<1>6. ASSUME NEW e \in (A \ {Head(s)}) \cup (R \ {Head(s)})
      PROVE  \E i \in 1..Len(t) : t[i] = e /\ \A j \in 1..Len(t) : j # i => t[j] # e
  <2>1. e \in A \cup R /\ s[1] # e
    BY <1>1
  <2>2. QED
    BY <2>1, PlaceKept
<1>7. QED
  BY <1>3, <1>5, <1>6

\* A plan without its first step.
LEMMA PlanTail ==
  ASSUME NEW s, NEW A, NEW R, NEW U, HasPlan(s, A, R, U), s # <<>>
  PROVE  /\ Head(s).do # "set" => HasPlan(Tail(s), A \ {Head(s)}, R \ {Head(s)}, U)
         /\ Head(s).do = "set" =>
              \/ HasPlan(Tail(s), A, R, U)
              \/ HasPlan(Tail(s), A, R, Rest(U, Head(s).v)) /\ Head(s).x = U[Head(s).v]
<1> DEFINE t == Tail(s)
           B == A \ {Head(s)}
           G == R \ {Head(s)}
<1>1. /\ \E S : t \in Seq(S)
      /\ \A i \in 1..Len(t) :
           \/ t[i].do = "alloc" /\ t[i] \in B
           \/ t[i].do = "free" /\ t[i] \in G
           \/ t[i].do = "set" /\ t[i].v \in DOMAIN U /\ IsVector(t[i].x)
           \/ t[i].do = "loop" /\ IsLoop(t[i].f)
      /\ \A e \in B \cup G : \E i \in 1..Len(t) : t[i] = e /\ \A j \in 1..Len(t) : j # i => t[j] # e
      /\ \A e \in B : e.do = "alloc"
      /\ \A e \in G : e.do = "free"
  <2>1. /\ \A i \in 1..Len(t) :
             \/ t[i].do = "alloc" /\ t[i] \in B
             \/ t[i].do = "free" /\ t[i] \in G
             \/ t[i].do = "set" /\ t[i].v \in DOMAIN U /\ IsVector(t[i].x)
             \/ t[i].do = "loop" /\ IsLoop(t[i].f)
        /\ \A e \in B \cup G : \E i \in 1..Len(t) : t[i] = e /\ \A j \in 1..Len(t) : j # i => t[j] # e
    BY EntriesKept
  <2>2. (\A e \in B : e.do = "alloc") /\ (\A e \in G : e.do = "free")
    BY DEF HasPlan
  <2>3. \E S : t \in Seq(S)
    BY TailOf
  <2> HIDE DEF t, B, G
  <2>4. QED
    BY <2>1, <2>2, <2>3
<1>2. \A v \in DOMAIN U : \E i \in 1..Len(s) :
        SetsVector(s[i], v) /\ s[i].x = U[v] /\ \A j \in (i + 1)..Len(s) : ~SetsVector(s[j], v)
  BY DEF HasPlan
<1>3. Len(s) \in Nat /\ Len(s) >= 1 /\ Head(s) = s[1] /\ DOMAIN U \subseteq Vectors
  BY TailOf DEF HasPlan
<1>4. ASSUME NEW v \in DOMAIN U, ~SetsVector(Head(s), v) \/ Head(s).x # U[v] \/ \E j \in 2..Len(s) : SetsVector(s[j], v)
      PROVE  \E i \in 1..Len(t) :
               SetsVector(t[i], v) /\ t[i].x = U[v] /\ \A j \in (i + 1)..Len(t) : ~SetsVector(t[j], v)
  <2>1. PICK i \in 1..Len(s) :
          SetsVector(s[i], v) /\ s[i].x = U[v] /\ \A j \in (i + 1)..Len(s) : ~SetsVector(s[j], v)
    BY <1>2
  <2>2. i # 1
    BY <1>3, <1>4, <2>1
  <2>3. i \in 2..Len(s)
    BY <1>3, <2>2
  <2>4. LastSet(s, v, U[v], i)
    BY <2>1 DEF LastSet
  <2>5. PICK k \in 1..Len(Tail(s)) : LastSet(Tail(s), v, U[v], k)
    BY <2>3, <2>4, LastKept
  <2>6. QED
    BY <2>5 DEF LastSet
<1>5. CASE Head(s).do # "set"
  <2>1. \A v \in DOMAIN U : ~SetsVector(Head(s), v)
    BY <1>5 DEF SetsVector
  <2>2. HasPlan(t, B, G, U)
    <3> HIDE DEF t, B, G
    <3> QED
      BY <1>1, <1>3, <1>4, <2>1 DEF HasPlan
  <2>3. QED
    BY <1>5, <2>2
<1>6. CASE Head(s).do = "set"
  <2> DEFINE v == Head(s).v
  <2>1. B = A /\ G = R
    BY <1>6 DEF HasPlan
  <2>2. CASE Head(s).x # U[v] \/ \E j \in 2..Len(s) : SetsVector(s[j], v)
    <3>1. \A u \in DOMAIN U : u # v => ~SetsVector(Head(s), u)
      BY DEF SetsVector
    <3>2. HasPlan(t, B, G, U)
      <4>1. \A u \in DOMAIN U : ~SetsVector(Head(s), u) \/ Head(s).x # U[u] \/ \E j \in 2..Len(s) : SetsVector(s[j], u)
        BY <2>2, <3>1
      <4> HIDE DEF t, B, G
      <4>2. QED
        BY <1>1, <1>3, <1>4, <4>1 DEF HasPlan
    <3>3. QED
      BY <1>6, <2>1, <3>2
  <2>3. CASE Head(s).x = U[v] /\ \A j \in 2..Len(s) : ~SetsVector(s[j], v)
    <3> DEFINE W == Rest(U, v)
    <3>1. DOMAIN W = DOMAIN U \ {v} /\ \A u \in DOMAIN W : W[u] = U[u]
      BY DEF Rest
    <3>2. \A u \in DOMAIN W : ~SetsVector(Head(s), u)
      BY <3>1 DEF SetsVector
    <3>3. \A i \in 1..Len(t) : ~SetsVector(t[i], v)
      BY <2>3, TailOf
    <3>4. \A i \in 1..Len(t) : t[i].do = "set" => t[i].v # v
      BY <3>3 DEF SetsVector
    <3>5. HasPlan(t, B, G, W)
      <4> HIDE DEF t, B, G, W, v
      <4>1. \A i \in 1..Len(t) : t[i].do = "set" /\ t[i].v \in DOMAIN U => t[i].v \in DOMAIN W
        BY <3>1, <3>4
      <4>2. \A u \in DOMAIN W : \E i \in 1..Len(t) :
              SetsVector(t[i], u) /\ t[i].x = W[u] /\ \A j \in (i + 1)..Len(t) : ~SetsVector(t[j], u)
        BY <1>4, <3>1, <3>2
      <4>3. QED
        BY <1>1, <1>3, <3>1, <4>1, <4>2 DEF HasPlan
    <3>6. QED
      BY <1>6, <2>1, <2>3, <3>5
  <2>4. QED
    BY <2>2, <2>3
<1>7. QED
  BY <1>5, <1>6

-----------------------------------------------------------------------------
(* The steps of an operation keep the memory owned.                         *)

\* Memory that a plan asks for is allocated.
LEMMA AllocOwned ==
  ASSUME NEW vc, NEW hp, NEW A, NEW R, NEW U, Owned(vc, hp, A, R, U), NEW e \in A, NEW gp,
         DOMAIN gp = DOMAIN hp \cup {e.b}, gp[e.b] = [cap |-> e.cap, coll |-> e.coll],
         \A b \in DOMAIN hp : b # e.b => gp[b] = hp[b]
  PROVE  Owned(vc, gp, A \ {e}, R, U)
<1>1. e.b \notin DOMAIN hp /\ \A a \in A \ {e} : a.b # e.b /\ a.b \in Blocks \ DOMAIN hp
  BY DEF Owned
<1>2. \A b \in DOMAIN hp : b \in DOMAIN gp /\ gp[b] = hp[b]
  BY <1>1
<1>3. \A a \in A \ {e} : a.b \in Blocks \ DOMAIN gp
  BY <1>1
<1>4. \A f \in R : f.b \in DOMAIN gp /\ gp[f.b] = [cap |-> f.cap, coll |-> f.coll]
  BY <1>2 DEF Owned
<1>5. DOMAIN gp \cup {a.b : a \in A \ {e}} = DOMAIN hp \cup {a.b : a \in A}
  OBVIOUS
<1>6. \A v \in Vectors : After(vc, U, v).b # Null =>
        \/ Holds(gp, After(vc, U, v))
        \/ \E a \in A \ {e} : /\ a.b = After(vc, U, v).b /\ a.cap = After(vc, U, v).cap
                              /\ a.coll = After(vc, U, v).opts.coll
  <2>1. SUFFICES ASSUME NEW v \in Vectors, After(vc, U, v).b # Null
                 PROVE  \/ Holds(gp, After(vc, U, v))
                        \/ \E a \in A \ {e} : /\ a.b = After(vc, U, v).b /\ a.cap = After(vc, U, v).cap
                                              /\ a.coll = After(vc, U, v).opts.coll
    OBVIOUS
  <2> DEFINE x == After(vc, U, v)
  <2>2. Holds(hp, x) \/ \E a \in A : a.b = x.b /\ a.cap = x.cap /\ a.coll = x.opts.coll
    BY <2>1 DEF Owned
  <2> HIDE DEF x
  <2>3. CASE Holds(hp, x)
    <3>1. Holds(gp, x)
      BY <1>2, <2>3 DEF Holds
    <3>2. QED
      BY <3>1 DEF x
  <2>4. CASE e.b = x.b /\ e.cap = x.cap /\ e.coll = x.opts.coll
    <3>1. Holds(gp, x)
      BY <2>4 DEF Holds
    <3>2. QED
      BY <3>1 DEF x
  <2>5. CASE \E a \in A \ {e} : a.b = x.b /\ a.cap = x.cap /\ a.coll = x.opts.coll
    BY <2>5 DEF x
  <2>6. QED
    BY <2>2, <2>3, <2>4, <2>5
<1>7. \A a, c \in A \ {e} : a.b = c.b => a = c
  BY DEF Owned
<1>8. /\ \A f, g \in R : f.b = g.b => f = g
      /\ DOMAIN vc = Vectors
      /\ \A v \in Vectors : IsVector(vc[v]) /\ IsVector(After(vc, U, v))
      /\ \A v, w \in Vectors : v # w /\ After(vc, U, v).b # Null => After(vc, U, v).b # After(vc, U, w).b
      /\ (DOMAIN hp \cup {a.b : a \in A}) \ {f.b : f \in R} = {After(vc, U, v).b : v \in Vectors} \ {Null}
  BY DEF Owned
<1>9. (DOMAIN gp \cup {a.b : a \in A \ {e}}) \ {f.b : f \in R} = {After(vc, U, v).b : v \in Vectors} \ {Null}
  BY <1>5, <1>8
<1>10. QED
  BY <1>3, <1>4, <1>6, <1>7, <1>8, <1>9 DEF Owned

\* Memory that a plan gives back is freed.
LEMMA FreeOwned ==
  ASSUME NEW vc, NEW hp, NEW A, NEW R, NEW U, Owned(vc, hp, A, R, U), NEW e \in R, NEW gp,
         DOMAIN gp = DOMAIN hp \ {e.b}, \A b \in DOMAIN gp : gp[b] = hp[b]
  PROVE  Owned(vc, gp, A, R \ {e}, U)
<1>1. e.b \in DOMAIN hp /\ \A f \in R \ {e} : f.b # e.b
  BY DEF Owned
<1>2. \A a \in A : a.b \in Blocks \ DOMAIN gp /\ a.b # e.b
  BY <1>1 DEF Owned
<1>3. \A f \in R \ {e} : f.b \in DOMAIN gp /\ gp[f.b] = [cap |-> f.cap, coll |-> f.coll]
  BY <1>1 DEF Owned
<1>4. (DOMAIN gp \cup {a.b : a \in A}) \ {f.b : f \in R \ {e}} = (DOMAIN hp \cup {a.b : a \in A}) \ {f.b : f \in R}
  <2>1. {f.b : f \in R} = {f.b : f \in R \ {e}} \cup {e.b}
    OBVIOUS
  <2>2. e.b \notin {a.b : a \in A}
    BY <1>2
  <2>3. QED
    BY <2>1, <2>2
<1>5. /\ \A a, c \in A : a.b = c.b => a = c
      /\ DOMAIN vc = Vectors
      /\ \A v \in Vectors : IsVector(vc[v]) /\ IsVector(After(vc, U, v))
      /\ \A v, w \in Vectors : v # w /\ After(vc, U, v).b # Null => After(vc, U, v).b # After(vc, U, w).b
      /\ (DOMAIN hp \cup {a.b : a \in A}) \ {f.b : f \in R} = {After(vc, U, v).b : v \in Vectors} \ {Null}
  BY DEF Owned
<1>6. \A v \in Vectors : After(vc, U, v).b # Null =>
        \/ Holds(gp, After(vc, U, v))
        \/ \E a \in A : /\ a.b = After(vc, U, v).b /\ a.cap = After(vc, U, v).cap
                        /\ a.coll = After(vc, U, v).opts.coll
  <2>1. SUFFICES ASSUME NEW v \in Vectors, After(vc, U, v).b # Null, Holds(hp, After(vc, U, v))
                 PROVE  Holds(gp, After(vc, U, v))
    BY DEF Owned
  <2> DEFINE x == After(vc, U, v)
  <2>2. x.b \in {After(vc, U, u).b : u \in Vectors} \ {Null}
    BY <2>1
  <2>3. x.b # e.b
    BY <1>5, <2>2
  <2> HIDE DEF x
  <2>4. Holds(hp, x)
    BY <2>1 DEF x
  <2>5. Holds(gp, x)
    BY <2>3, <2>4 DEF Holds
  <2>6. QED
    BY <2>5 DEF x
<1>7. \A f, g \in R \ {e} : f.b = g.b => f = g
  BY DEF Owned
<1>8. (DOMAIN gp \cup {a.b : a \in A}) \ {f.b : f \in R \ {e}} = {After(vc, U, v).b : v \in Vectors} \ {Null}
  BY <1>4, <1>5
<1>9. QED
  BY <1>2, <1>3, <1>5, <1>6, <1>7, <1>8 DEF Owned

\* The members of a vector are set on the way to what they will be.
LEMMA SetOwned ==
  ASSUME NEW vc, NEW hp, NEW A, NEW R, NEW U, Owned(vc, hp, A, R, U), NEW wc, NEW W,
         DOMAIN wc = Vectors, \A v \in Vectors : IsVector(wc[v]),
         \A v \in Vectors : After(wc, W, v) = After(vc, U, v)
  PROVE  Owned(wc, hp, A, R, W)
<1>1. {After(wc, W, v).b : v \in Vectors} = {After(vc, U, v).b : v \in Vectors}
  OBVIOUS
<1>2. /\ \A a \in A : a.b \in Blocks \ DOMAIN hp
      /\ \A a, c \in A : a.b = c.b => a = c
      /\ \A f \in R : f.b \in DOMAIN hp /\ hp[f.b] = [cap |-> f.cap, coll |-> f.coll]
      /\ \A f, g \in R : f.b = g.b => f = g
      /\ (DOMAIN hp \cup {a.b : a \in A}) \ {f.b : f \in R} = {After(vc, U, v).b : v \in Vectors} \ {Null}
  BY DEF Owned
<1>3. /\ \A v \in Vectors : IsVector(After(wc, W, v))
      /\ \A v, w \in Vectors : v # w /\ After(wc, W, v).b # Null => After(wc, W, v).b # After(wc, W, w).b
      /\ \A v \in Vectors : After(wc, W, v).b # Null =>
           \/ Holds(hp, After(wc, W, v))
           \/ \E a \in A : /\ a.b = After(wc, W, v).b /\ a.cap = After(wc, W, v).cap
                           /\ a.coll = After(wc, W, v).opts.coll
  BY DEF Owned
<1>4. (DOMAIN hp \cup {a.b : a \in A}) \ {f.b : f \in R} = {After(wc, W, v).b : v \in Vectors} \ {Null}
  BY <1>1, <1>2
<1>5. QED
  BY <1>2, <1>3, <1>4 DEF Owned

\* The steps of an operation, one by one.
LEMMA AllocateMemKeeps == ASSUME VecInv, AllocateMem PROVE VecInv'
<1> DEFINE e == Head(todo)
<1>1. /\ todo # <<>> /\ e.do = "alloc" /\ calls' = calls /\ calls = <<>> /\ todo' = Tail(todo)
      /\ job' = job /\ vec' = vec
      /\ DOMAIN heap' = DOMAIN heap \cup {e.b} /\ heap'[e.b] = [cap |-> e.cap, coll |-> e.coll]
      /\ \A b \in DOMAIN heap : b # e.b => heap'[b] = heap[b]
  BY DEF AllocateMem
<1>2. job.fn = "vector"
  BY <1>1 DEF VecInv
<1>3. PICK A, R, U : HasPlan(todo, A, R, U) /\ Owned(vec, heap, A, R, U)
  BY <1>2 DEF VecInv, Planned
<1>4. e \in A /\ e \notin R
  BY <1>1, <1>3, EntriesKept DEF HasPlan
<1>5. R \ {e} = R
  BY <1>4
<1>6. HasPlan(todo', A \ {e}, R, U)
  <2>1. HasPlan(Tail(todo), A \ {e}, R \ {e}, U)
    BY <1>1, <1>3, PlanTail
  <2>2. QED
    BY <1>1, <1>5, <2>1
<1>7. Owned(vec', heap', A \ {e}, R, U)
  <2> HIDE DEF e
  <2>1. Owned(vec, heap', A \ {e}, R, U)
    BY <1>1, <1>3, <1>4, AllocOwned
  <2>2. QED
    BY <1>1, <2>1
<1>8. Planned(todo', vec', heap')
  BY <1>6, <1>7 DEF Planned
<1>9. CallsInv' /\ DOMAIN calls' = {}
  BY <1>1 DEF VecInv, CallsInv
<1>10. QED
  BY <1>1, <1>2, <1>8, <1>9 DEF VecInv

LEMMA FreeMemKeeps == ASSUME VecInv, FreeMem PROVE VecInv'
<1> DEFINE e == Head(todo)
<1>1. /\ todo # <<>> /\ e.do = "free" /\ calls' = calls /\ calls = <<>> /\ todo' = Tail(todo)
      /\ job' = job /\ vec' = vec
      /\ DOMAIN heap' = DOMAIN heap \ {e.b}
      /\ \A b \in DOMAIN heap' : heap'[b] = heap[b]
  BY DEF FreeMem
<1>2. job.fn = "vector"
  BY <1>1 DEF VecInv
<1>3. PICK A, R, U : HasPlan(todo, A, R, U) /\ Owned(vec, heap, A, R, U)
  BY <1>2 DEF VecInv, Planned
<1>4. e \in R /\ e \notin A
  BY <1>1, <1>3, EntriesKept DEF HasPlan
<1>5. A \ {e} = A
  BY <1>4
<1>6. HasPlan(todo', A, R \ {e}, U)
  <2>1. HasPlan(Tail(todo), A \ {e}, R \ {e}, U)
    BY <1>1, <1>3, PlanTail
  <2>2. QED
    BY <1>1, <1>5, <2>1
<1>7. Owned(vec', heap', A, R \ {e}, U)
  <2> HIDE DEF e
  <2>1. Owned(vec, heap', A, R \ {e}, U)
    BY <1>1, <1>3, <1>4, FreeOwned
  <2>2. QED
    BY <1>1, <2>1
<1>8. Planned(todo', vec', heap')
  BY <1>6, <1>7 DEF Planned
<1>9. CallsInv' /\ DOMAIN calls' = {}
  BY <1>1 DEF VecInv, CallsInv
<1>10. QED
  BY <1>1, <1>2, <1>8, <1>9 DEF VecInv

LEMMA SetMembersKeeps == ASSUME VecInv, SetMembers PROVE VecInv'
<1> DEFINE e == Head(todo)
<1>1. /\ todo # <<>> /\ e.do = "set" /\ calls' = calls /\ calls = <<>> /\ todo' = Tail(todo)
      /\ job' = job /\ vec' = [vec EXCEPT ![e.v] = e.x] /\ heap' = heap
  BY DEF SetMembers, vars
<1>2. job.fn = "vector"
  BY <1>1 DEF VecInv
<1>3. PICK A, R, U : HasPlan(todo, A, R, U) /\ Owned(vec, heap, A, R, U)
  BY <1>2 DEF VecInv, Planned
<1>4. e.v \in DOMAIN U /\ e.v \in Vectors /\ IsVector(e.x)
  BY <1>1, <1>3, EntriesKept DEF HasPlan
<1>5. /\ DOMAIN vec = Vectors /\ DOMAIN vec' = Vectors
      /\ vec'[e.v] = e.x
      /\ \A v \in Vectors : v # e.v => vec'[v] = vec[v]
      /\ \A v \in Vectors : IsVector(vec'[v])
  <2>1. DOMAIN vec = Vectors /\ \A v \in Vectors : IsVector(vec[v])
    BY <1>3 DEF Owned
  <2> HIDE DEF e
  <2>2. QED
    BY <1>1, <1>4, <2>1
<1>6. \E W : HasPlan(todo', A, R, W) /\ \A v \in Vectors : After(vec', W, v) = After(vec, U, v)
  <2>1. CASE HasPlan(Tail(todo), A, R, U)
    <3>1. \A v \in Vectors : After(vec', U, v) = After(vec, U, v)
      BY <1>4, <1>5 DEF After
    <3>2. QED
      BY <1>1, <2>1, <3>1
  <2>2. CASE HasPlan(Tail(todo), A, R, Rest(U, e.v)) /\ e.x = U[e.v]
    <3> DEFINE W == Rest(U, e.v)
    <3>1. DOMAIN W = DOMAIN U \ {e.v} /\ \A v \in DOMAIN W : W[v] = U[v]
      BY DEF Rest
    <3>2. HasPlan(todo', A, R, W)
      BY <1>1, <2>2
    <3> HIDE DEF W
    <3>3. \A v \in Vectors : After(vec', W, v) = After(vec, U, v)
      BY <1>4, <1>5, <2>2, <3>1 DEF After
    <3>4. QED
      BY <3>2, <3>3
  <2>3. QED
    BY <1>1, <1>3, <2>1, <2>2, PlanTail
<1>7. PICK W : HasPlan(todo', A, R, W) /\ \A v \in Vectors : After(vec', W, v) = After(vec, U, v)
  BY <1>6
<1>8. Owned(vec', heap', A, R, W)
  <2>1. Owned(vec', heap, A, R, W)
    BY <1>3, <1>5, <1>7, SetOwned
  <2>2. QED
    BY <1>1, <2>1
<1>9. Planned(todo', vec', heap')
  BY <1>7, <1>8 DEF Planned
<1>10. CallsInv' /\ DOMAIN calls' = {}
  BY <1>1 DEF VecInv, CallsInv
<1>11. QED
  BY <1>1, <1>2, <1>9, <1>10 DEF VecInv

LEMMA StartLoopKeeps == ASSUME VecInv, StartLoop PROVE VecInv'
<1>1. /\ todo # <<>> /\ Head(todo).do = "loop" /\ calls' = [p \in {<<>>} |-> Head(todo).f] /\ todo' = todo
      /\ job' = job /\ vec' = vec /\ heap' = heap
  BY DEF StartLoop, vecVars
<1>2. job.fn = "vector"
  BY <1>1 DEF VecInv
<1>3. PICK A, R, U : HasPlan(todo, A, R, U) /\ Owned(vec, heap, A, R, U)
  BY <1>2 DEF VecInv, Planned
<1>4. IsLoop(Head(todo).f)
  BY <1>1, <1>3, EntriesKept
<1>5. CallTree([p \in {<<>>} |-> Head(todo).f])
  BY <1>4, RootCall DEF IsLoop
<1>6. CallsInv'
  BY <1>1, <1>5 DEF CallsInv
<1>7. QED
  BY <1>1, <1>2, <1>6 DEF VecInv

LEMMA EndLoopKeeps == ASSUME VecInv, EndLoop PROVE VecInv'
<1>1. /\ todo # <<>> /\ <<>> \in DOMAIN calls /\ calls' = <<>> /\ todo' = Tail(todo)
      /\ job' = job /\ vec' = vec /\ heap' = heap
  BY DEF EndLoop, Returned, At
<1>2. job.fn = "vector" /\ Head(todo).do = "loop"
  BY <1>1 DEF VecInv
<1>3. PICK A, R, U : HasPlan(todo, A, R, U) /\ Owned(vec, heap, A, R, U)
  BY <1>2 DEF VecInv, Planned
<1>4. Head(todo) \notin A /\ Head(todo) \notin R
  BY <1>2, <1>3 DEF HasPlan
<1>5. A \ {Head(todo)} = A /\ R \ {Head(todo)} = R
  BY <1>4
<1>6. HasPlan(Tail(todo), A \ {Head(todo)}, R \ {Head(todo)}, U)
  BY <1>1, <1>2, <1>3, PlanTail
<1>7. HasPlan(todo', A, R, U) /\ Owned(vec', heap', A, R, U)
  BY <1>1, <1>3, <1>5, <1>6
<1>8. Planned(todo', vec', heap')
  BY <1>7 DEF Planned
<1>9. CallsInv' /\ DOMAIN calls' = {}
  BY <1>1, NoCall DEF CallsInv
<1>10. QED
  BY <1>1, <1>2, <1>8, <1>9 DEF VecInv

LEMMA LoopStepKeeps == ASSUME VecInv, Next, UNCHANGED vecVars PROVE VecInv'
<1>1. job' = job
  BY DEF Next, Step, Cutoff, Fork, Serialized, Stolen, Join, Combine, CombineNext, CombineReturns, Checkout,
         Apply, LeafReturns
<1>2. CallsInv'
  BY LoopStep DEF VecInv
<1>3. DOMAIN calls # {}
  BY DEF Next
<1>4. QED
  BY <1>1, <1>2, <1>3 DEF VecInv, vecVars

-----------------------------------------------------------------------------
(* Operations plan what leaves memory owned.                                *)

\* Between operations.
Settled == Owned(vec, heap, {}, {}, <<>>)

LEMMA BetweenSettled == ASSUME VecInv, Between PROVE Settled
<1>1. PICK A, R, U : HasPlan(<<>>, A, R, U) /\ Owned(vec, heap, A, R, U)
  BY DEF Between, VecInv, Planned
<1>2. A = {} /\ R = {} /\ DOMAIN U = {}
  BY <1>1, EmptyPlan
<1>3. DOMAIN <<>> = {}
  OBVIOUS
<1>4. \A v \in Vectors : After(vec, <<>>, v) = After(vec, U, v)
  BY <1>2, <1>3 DEF After
<1>5. Owned(vec, heap, A, R, <<>>)
  <2>1. DOMAIN vec = Vectors /\ \A v \in Vectors : IsVector(vec[v])
    BY <1>1 DEF Owned
  <2>2. QED
    BY <1>1, <1>4, <2>1, SetOwned
<1>6. QED
  BY <1>2, <1>5 DEF Settled

\* What that means.
LEMMA SettledIs ==
  ASSUME Settled
  PROVE  /\ DOMAIN vec = Vectors
         /\ \A v \in Vectors : IsVector(vec[v]) /\ (vec[v].b # Null => Holds(heap, vec[v]))
         /\ \A v, w \in Vectors : v # w /\ vec[v].b # Null => vec[v].b # vec[w].b
         /\ DOMAIN heap = {vec[v].b : v \in Vectors} \ {Null}
<1>1. DOMAIN <<>> = {}
  OBVIOUS
<1>2. \A v \in Vectors : After(vec, <<>>, v) = vec[v]
  BY <1>1 DEF After
<1>3. DOMAIN vec = Vectors /\ \A v \in Vectors : IsVector(vec[v])
  BY DEF Settled, Owned
<1>4. \A v \in Vectors : vec[v].b # Null => Holds(heap, vec[v])
  BY <1>2 DEF Settled, Owned
<1>5. \A v, w \in Vectors : v # w /\ vec[v].b # Null => vec[v].b # vec[w].b
  BY <1>2 DEF Settled, Owned
<1>6. DOMAIN heap = {vec[v].b : v \in Vectors} \ {Null}
  <2>1. {After(vec, <<>>, v).b : v \in Vectors} = {vec[v].b : v \in Vectors}
    BY <1>2
  <2>2. (DOMAIN heap \cup {a.b : a \in {}}) \ {f.b : f \in {}} = {After(vec, <<>>, v).b : v \in Vectors} \ {Null}
    BY DEF Settled, Owned
  <2>3. {a.b : a \in {}} = {}
    OBVIOUS
  <2>4. QED
    BY <2>1, <2>2, <2>3
<1>7. QED
  BY <1>3, <1>4, <1>5, <1>6

\* There is a block left: there are more blocks than vectors.
LEMMA FreshIs == ASSUME Settled PROVE FreshBlock \in Blocks \ DOMAIN heap /\ FreshBlock # Null
<1> DEFINE B == {vec[v].b : v \in Vectors}
<1>1. IsFiniteSet(B) /\ Cardinality(B) <= Cardinality(Vectors)
  <2> DEFINE f == [v \in Vectors |-> vec[v].b]
  <2>1. f \in Surjection(Vectors, B)
    BY DEF Surjection
  <2> HIDE DEF f, B
  <2>2. QED
    BY <2>1, VectorAssumption, FS_Surjection
<1>2. DOMAIN heap \subseteq B
  BY SettledIs
<1>3. IsFiniteSet(DOMAIN heap) /\ Cardinality(DOMAIN heap) <= Cardinality(B)
  BY <1>1, <1>2, FS_Subset
<1>4. ~(Blocks \subseteq DOMAIN heap)
  <2>1. SUFFICES ASSUME Blocks \subseteq DOMAIN heap PROVE FALSE
    OBVIOUS
  <2>2. Cardinality(Blocks) <= Cardinality(DOMAIN heap)
    BY <1>3, <2>1, FS_Subset
  <2>3. Cardinality(Blocks) \in Nat /\ Cardinality(DOMAIN heap) \in Nat /\ Cardinality(B) \in Nat
        /\ Cardinality(Vectors) \in Nat
    BY <1>1, <1>3, VectorAssumption, FS_CardinalityType
  <2>4. QED
    BY <1>1, <1>3, <2>2, <2>3, VectorAssumption
<1>5. \E b \in Blocks : b \notin DOMAIN heap
  BY <1>4
<1>6. FreshBlock \in Blocks /\ FreshBlock \notin DOMAIN heap
  BY <1>5 DEF FreshBlock
<1>7. QED
  BY <1>6, VectorAssumption

\* The entries by which a vector's memory is freed and allocated.
Entry(x) == [do |-> "free", b |-> x.b, cap |-> x.cap, coll |-> x.opts.coll]
Freed(x) == IF x.b = Null THEN {} ELSE {Entry(x)}
Asked(x) == [do |-> "alloc", b |-> x.b, cap |-> x.cap, coll |-> x.opts.coll]
One(v, x) == [u \in {v} |-> x]

LEMMA EntryIs ==
  ASSUME NEW x
  PROVE  /\ Entry(x).do = "free" /\ Entry(x).b = x.b /\ Entry(x).cap = x.cap /\ Entry(x).coll = x.opts.coll
         /\ Asked(x).do = "alloc" /\ Asked(x).b = x.b /\ Asked(x).cap = x.cap /\ Asked(x).coll = x.opts.coll
BY DEF Entry, Asked

\* The memory of one vector goes back, if it has any.
LEMMA FreedIs ==
  ASSUME Settled, NEW v \in Vectors
  PROVE  /\ \A f \in Freed(vec[v]) : f.b \in DOMAIN heap /\ heap[f.b] = [cap |-> f.cap, coll |-> f.coll]
         /\ \A f, g \in Freed(vec[v]) : f.b = g.b => f = g
         /\ {f.b : f \in Freed(vec[v])} = {vec[v].b} \ {Null}
<1> DEFINE x == vec[v]
<1>1. x.b # Null => Holds(heap, x)
  BY SettledIs
<1>2. Entry(x).b = x.b /\ Entry(x).cap = x.cap /\ Entry(x).coll = x.opts.coll
  BY EntryIs
<1> HIDE DEF x
<1>3. /\ \A f \in Freed(x) : f.b \in DOMAIN heap /\ heap[f.b] = [cap |-> f.cap, coll |-> f.coll]
      /\ \A f, g \in Freed(x) : f.b = g.b => f = g
      /\ {f.b : f \in Freed(x)} = {x.b} \ {Null}
  BY <1>1, <1>2 DEF Freed, Holds
<1>4. QED
  BY <1>3 DEF x

\* A vector gets new memory.
LEMMA ReplaceOwned ==
  ASSUME Settled, NEW v \in Vectors, NEW y, IsVector(y), y.b \in Blocks \ DOMAIN heap, y.b # Null
  PROVE  Owned(vec, heap, {Asked(y)}, Freed(vec[v]), One(v, y))
<1> DEFINE A == {Asked(y)}
           R == Freed(vec[v])
           U == One(v, y)
           bs == {After(vec, U, u).b : u \in Vectors}
<1>1. Asked(y).b = y.b /\ Asked(y).cap = y.cap /\ Asked(y).coll = y.opts.coll
  BY EntryIs
<1>2. After(vec, U, v) = y /\ \A u \in Vectors : u # v => After(vec, U, u) = vec[u]
  BY DEF One, After
<1>3. /\ DOMAIN vec = Vectors
      /\ \A u \in Vectors : IsVector(vec[u]) /\ (vec[u].b # Null => Holds(heap, vec[u]))
      /\ \A u, w \in Vectors : u # w /\ vec[u].b # Null => vec[u].b # vec[w].b
      /\ DOMAIN heap = {vec[u].b : u \in Vectors} \ {Null}
  BY SettledIs
<1>4. /\ \A f \in R : f.b \in DOMAIN heap /\ heap[f.b] = [cap |-> f.cap, coll |-> f.coll]
      /\ \A f, g \in R : f.b = g.b => f = g
      /\ {f.b : f \in R} = {vec[v].b} \ {Null}
  BY FreedIs
<1>5. {a.b : a \in A} = {y.b}
  BY <1>1
<1> HIDE DEF R, U
<1>6. \A u \in Vectors : IsVector(After(vec, U, u))
  BY <1>2, <1>3
<1>7. \A u \in Vectors : vec[u].b # y.b
  BY <1>3
<1>8. \A u, w \in Vectors : u # w /\ After(vec, U, u).b # Null => After(vec, U, u).b # After(vec, U, w).b
  BY <1>2, <1>3, <1>7
<1>9. (DOMAIN heap \cup {a.b : a \in A}) \ {f.b : f \in R} = bs \ {Null}
  <2>1. ASSUME NEW b \in (DOMAIN heap \cup {y.b}) \ ({vec[v].b} \ {Null})
        PROVE  b \in bs \ {Null}
    BY <1>2, <1>3, <2>1
  <2>2. ASSUME NEW b \in bs \ {Null}
        PROVE  b \in (DOMAIN heap \cup {y.b}) \ ({vec[v].b} \ {Null})
    BY <1>2, <1>3, <1>7, <2>2
  <2>3. QED
    BY <1>4, <1>5, <2>1, <2>2
<1>10. \A u \in Vectors : After(vec, U, u).b # Null =>
         \/ Holds(heap, After(vec, U, u))
         \/ \E a \in A : /\ a.b = After(vec, U, u).b /\ a.cap = After(vec, U, u).cap
                         /\ a.coll = After(vec, U, u).opts.coll
  BY <1>1, <1>2, <1>3
<1>11. Owned(vec, heap, A, R, U)
  BY <1>1, <1>3, <1>4, <1>6, <1>8, <1>9, <1>10 DEF Owned
<1>12. QED
  BY <1>11 DEF R, U

\* A vector is left without memory.
LEMMA DropOwned ==
  ASSUME Settled, NEW v \in Vectors, NEW y, IsVector(y), y.b = Null
  PROVE  Owned(vec, heap, {}, Freed(vec[v]), One(v, y))
<1> DEFINE R == Freed(vec[v])
           U == One(v, y)
           bs == {After(vec, U, u).b : u \in Vectors}
<1>2. After(vec, U, v) = y /\ \A u \in Vectors : u # v => After(vec, U, u) = vec[u]
  BY DEF One, After
<1>3. /\ DOMAIN vec = Vectors
      /\ \A u \in Vectors : IsVector(vec[u]) /\ (vec[u].b # Null => Holds(heap, vec[u]))
      /\ \A u, w \in Vectors : u # w /\ vec[u].b # Null => vec[u].b # vec[w].b
      /\ DOMAIN heap = {vec[u].b : u \in Vectors} \ {Null}
  BY SettledIs
<1>4. /\ \A f \in R : f.b \in DOMAIN heap /\ heap[f.b] = [cap |-> f.cap, coll |-> f.coll]
      /\ \A f, g \in R : f.b = g.b => f = g
      /\ {f.b : f \in R} = {vec[v].b} \ {Null}
  BY FreedIs
<1>5. {a.b : a \in {}} = {}
  OBVIOUS
<1> HIDE DEF R, U
<1>6. \A u \in Vectors : IsVector(After(vec, U, u))
  BY <1>2, <1>3
<1>8. \A u, w \in Vectors : u # w /\ After(vec, U, u).b # Null => After(vec, U, u).b # After(vec, U, w).b
  BY <1>2, <1>3
<1>9. (DOMAIN heap \cup {a.b : a \in {}}) \ {f.b : f \in R} = bs \ {Null}
  <2>1. ASSUME NEW b \in DOMAIN heap \ ({vec[v].b} \ {Null})
        PROVE  b \in bs \ {Null}
    BY <1>2, <1>3, <2>1
  <2>2. ASSUME NEW b \in bs \ {Null}
        PROVE  b \in DOMAIN heap \ ({vec[v].b} \ {Null})
    BY <1>2, <1>3, <2>2
  <2>3. QED
    BY <1>4, <1>5, <2>1, <2>2
<1>10. \A u \in Vectors : After(vec, U, u).b # Null => Holds(heap, After(vec, U, u))
  BY <1>2, <1>3
<1>11. Owned(vec, heap, {}, R, U)
  BY <1>3, <1>4, <1>6, <1>8, <1>9, <1>10 DEF Owned
<1>12. QED
  BY <1>11 DEF R, U

\* Vectors exchange what they have: the memory that After gives to u is that of
\* the vector s[u].
LEMMA PermutedOwned ==
  ASSUME Settled, NEW U, NEW s \in [Vectors -> Vectors],
         \A u, w \in Vectors : s[u] = s[w] => u = w,
         \A w \in Vectors : \E u \in Vectors : s[u] = w,
         \A u \in Vectors : LET x == After(vec, U, u) IN
           IsVector(x) /\ x.b = vec[s[u]].b /\ x.cap = vec[s[u]].cap /\ x.opts = vec[s[u]].opts
  PROVE  Owned(vec, heap, {}, {}, U)
<1> DEFINE bs == {After(vec, U, u).b : u \in Vectors}
<1>1. /\ DOMAIN vec = Vectors
      /\ \A u \in Vectors : IsVector(vec[u]) /\ (vec[u].b # Null => Holds(heap, vec[u]))
      /\ \A u, w \in Vectors : u # w /\ vec[u].b # Null => vec[u].b # vec[w].b
      /\ DOMAIN heap = {vec[u].b : u \in Vectors} \ {Null}
  BY SettledIs
<1>2. \A u, w \in Vectors : u # w /\ After(vec, U, u).b # Null => After(vec, U, u).b # After(vec, U, w).b
  BY <1>1
<1>3. bs = {vec[u].b : u \in Vectors}
  OBVIOUS
<1>4. {a.b : a \in {}} = {}
  OBVIOUS
<1>5. \A u \in Vectors : After(vec, U, u).b # Null => Holds(heap, After(vec, U, u))
  <2>1. SUFFICES ASSUME NEW u \in Vectors, After(vec, U, u).b # Null
                 PROVE  Holds(heap, After(vec, U, u))
    OBVIOUS
  <2> DEFINE x == After(vec, U, u)
  <2>2. x.b = vec[s[u]].b /\ x.cap = vec[s[u]].cap /\ x.opts = vec[s[u]].opts /\ x.b # Null /\ s[u] \in Vectors
    BY <2>1
  <2> HIDE DEF x
  <2>3. Holds(heap, x)
    BY <1>1, <2>2 DEF Holds
  <2>4. QED
    BY <2>3 DEF x
<1>6. (DOMAIN heap \cup {a.b : a \in {}}) \ {f.b : f \in {}} = bs \ {Null}
  BY <1>1, <1>3, <1>4
<1>7. QED
  BY <1>1, <1>2, <1>5, <1>6 DEF Owned

LEMMA KeepOwned ==
  ASSUME Settled, NEW v \in Vectors, NEW y, IsVector(y), y.b = vec[v].b, y.cap = vec[v].cap, y.opts = vec[v].opts
  PROVE  Owned(vec, heap, {}, {}, One(v, y))
<1> DEFINE s == [u \in Vectors |-> u]
           U == One(v, y)
<1>1. After(vec, U, v) = y /\ \A u \in Vectors : u # v => After(vec, U, u) = vec[u]
  BY DEF One, After
<1>2. \A u \in Vectors : IsVector(vec[u])
  BY SettledIs
<1>3. s \in [Vectors -> Vectors] /\ \A u \in Vectors : s[u] = u
  OBVIOUS
<1> HIDE DEF s, U
<1>4. Owned(vec, heap, {}, {}, U)
  BY <1>1, <1>2, <1>3, PermutedOwned
<1>5. QED
  BY <1>4 DEF U

LEMMA SwapOwned ==
  ASSUME Settled, NEW v \in Vectors, NEW w \in Vectors, v # w
  PROVE  Owned(vec, heap, {}, {}, Over(One(v, vec[w]), One(w, vec[v])))
<1> DEFINE s == [u \in Vectors |-> IF u = v THEN w ELSE IF u = w THEN v ELSE u]
           U == Over(One(v, vec[w]), One(w, vec[v]))
<1>1. /\ After(vec, U, v) = vec[w] /\ After(vec, U, w) = vec[v]
      /\ \A u \in Vectors : u # v /\ u # w => After(vec, U, u) = vec[u]
  BY DEF After, Over, One
<1>2. \A u \in Vectors : IsVector(vec[u])
  BY SettledIs
<1>3. /\ s \in [Vectors -> Vectors] /\ s[v] = w /\ s[w] = v
      /\ \A u \in Vectors : u # v /\ u # w => s[u] = u
  OBVIOUS
<1> HIDE DEF s, U
<1>4. \A u \in Vectors : After(vec, U, u) = vec[s[u]]
  BY <1>1, <1>3
<1>5. \A u, x \in Vectors : s[u] = s[x] => u = x
  BY <1>3
<1>6. \A x \in Vectors : \E u \in Vectors : s[u] = x
  BY <1>3
<1>7. Owned(vec, heap, {}, {}, U)
  BY <1>2, <1>3, <1>4, <1>5, <1>6, PermutedOwned
<1>8. QED
  BY <1>7 DEF U

\* A vector takes the memory of another, which is left without.
LEMMA MoveOwned ==
  ASSUME Settled, NEW v \in Vectors, NEW w \in Vectors, v # w, NEW y, IsVector(y), y.b = Null
  PROVE  Owned(vec, heap, {}, Freed(vec[v]), Over(One(v, vec[w]), One(w, y)))
<1> DEFINE R == Freed(vec[v])
           U == Over(One(v, vec[w]), One(w, y))
           bs == {After(vec, U, u).b : u \in Vectors}
<1>2. /\ After(vec, U, v) = vec[w] /\ After(vec, U, w) = y
      /\ \A u \in Vectors : u # v /\ u # w => After(vec, U, u) = vec[u]
  BY DEF After, Over, One
<1>3. /\ DOMAIN vec = Vectors
      /\ \A u \in Vectors : IsVector(vec[u]) /\ (vec[u].b # Null => Holds(heap, vec[u]))
      /\ \A u, x \in Vectors : u # x /\ vec[u].b # Null => vec[u].b # vec[x].b
      /\ DOMAIN heap = {vec[u].b : u \in Vectors} \ {Null}
  BY SettledIs
<1>4. /\ \A f \in R : f.b \in DOMAIN heap /\ heap[f.b] = [cap |-> f.cap, coll |-> f.coll]
      /\ \A f, g \in R : f.b = g.b => f = g
      /\ {f.b : f \in R} = {vec[v].b} \ {Null}
  BY FreedIs
<1>5. {a.b : a \in {}} = {}
  OBVIOUS
<1> HIDE DEF R, U
<1>6. \A u \in Vectors : IsVector(After(vec, U, u))
  BY <1>2, <1>3
<1>8. \A u, x \in Vectors : u # x /\ After(vec, U, u).b # Null => After(vec, U, u).b # After(vec, U, x).b
  BY <1>2, <1>3
<1>9. (DOMAIN heap \cup {a.b : a \in {}}) \ {f.b : f \in R} = bs \ {Null}
  <2>1. ASSUME NEW b \in DOMAIN heap \ ({vec[v].b} \ {Null})
        PROVE  b \in bs \ {Null}
    <3>1. PICK u \in Vectors : b = vec[u].b /\ b # Null /\ u # v
      BY <1>3, <2>1
    <3>2. CASE u = w
      BY <1>2, <3>1, <3>2
    <3>3. CASE u # w
      BY <1>2, <3>1, <3>3
    <3>4. QED
      BY <3>2, <3>3
  <2>2. ASSUME NEW b \in bs \ {Null}
        PROVE  b \in DOMAIN heap \ ({vec[v].b} \ {Null})
    BY <1>2, <1>3, <2>2
  <2>3. QED
    BY <1>4, <1>5, <2>1, <2>2
<1>10. \A u \in Vectors : After(vec, U, u).b # Null => Holds(heap, After(vec, U, u))
  BY <1>2, <1>3
<1>11. Owned(vec, heap, {}, R, U)
  BY <1>3, <1>4, <1>6, <1>8, <1>9, <1>10 DEF Owned
<1>12. QED
  BY <1>11 DEF R, U

-----------------------------------------------------------------------------
(* The plans of the operations.                                             *)

LEMMA UniformLoop ==
  ASSUME NEW pol, pol.checkout \in Nat, pol.checkout > 0, NEW op, op \notin {"scan", "scan_as_is"}, NEW acc,
         NEW its, NEW x \in Int, \A k \in DOMAIN its : DOMAIN its[k] = IterFields /\ its[k].at = x,
         NEW m \in Nat
  PROVE  HasPlan(Loop(Frame(pol, "loop", op, acc, its, m)), {}, {}, <<>>)
<1> DEFINE f == Frame(pol, "loop", op, acc, its, m)
<1>1. /\ DOMAIN f = FrameFields /\ f.pol = pol /\ f.op = op /\ f.its = its /\ f.n = m
      /\ f.d = 0 /\ f.pc = "called"
  BY FrameIs
<1> HIDE DEF f
<1>2. IsFrame(f)
  BY <1>1, NewFrame
<1>3. HasPlan(Loop(f), {}, {}, <<>>)
  BY <1>1, <1>2, LoopPlan DEF IsLoop
<1>4. QED
  BY <1>3 DEF f

LEMMA IterIs ==
  ASSUME NEW b, NEW at, NEW mode
  PROVE  DOMAIN Iter(b, at, mode) = IterFields /\ Iter(b, at, mode).at = at
BY DEF Iter, IterFields

LEMMA PolicyIs ==
  ASSUME NEW opts \in OptsSet, NEW par
  PROVE  Policy(opts, par).checkout \in Nat /\ Policy(opts, par).checkout > 0
BY DEF Policy, OptsSet

LEMMA ConstructPlan ==
  ASSUME NEW x, x.opts \in OptsSet, NEW from \in Nat, NEW to \in Nat, from <= to, NEW value
  PROVE  HasPlan(ConstructElems(x, from, to, value), {}, {}, <<>>)
<1> DEFINE its == <<Iter(x.b, from, "write")>>
           pol == Policy(x.opts, x.opts.construct)
<1>1. \A k \in DOMAIN its : DOMAIN its[k] = IterFields /\ its[k].at = from
  BY IterIs
<1>2. pol.checkout \in Nat /\ pol.checkout > 0
  BY PolicyIs
<1> HIDE DEF its, pol
<1>3. HasPlan(Loop(Frame(pol, "loop", "construct", value, its, to - from)), {}, {}, <<>>)
  BY <1>1, <1>2, UniformLoop
<1>4. QED
  BY <1>3 DEF ConstructElems, its, pol

LEMMA DestructPlan ==
  ASSUME NEW x, x.opts \in OptsSet, NEW from \in Nat, NEW to \in Nat, from <= to
  PROVE  HasPlan(DestructElems(x, from, to), {}, {}, <<>>)
<1> DEFINE its == <<Iter(x.b, from, "read_write")>>
           pol == Policy(x.opts, x.opts.destruct)
<1>1. \A k \in DOMAIN its : DOMAIN its[k] = IterFields /\ its[k].at = from
  BY IterIs
<1>2. pol.checkout \in Nat /\ pol.checkout > 0
  BY PolicyIs
<1> HIDE DEF its, pol
<1>3. HasPlan(Loop(Frame(pol, "loop", "destroy", Identity, its, to - from)), {}, {}, <<>>)
  BY <1>1, <1>2, UniformLoop
<1>4. QED
  BY <1>3 DEF DestructElems, its, pol

LEMMA ConstructFromPlan ==
  ASSUME NEW x, x.opts \in OptsSet, NEW b, NEW mode, NEW op, op \notin {"scan", "scan_as_is"}, NEW m \in Nat
  PROVE  HasPlan(ConstructElemsFrom(x, Iter(b, 0, mode), op, m), {}, {}, <<>>)
<1> DEFINE its == <<Iter(b, 0, mode), Iter(x.b, 0, "write")>>
           pol == Policy(x.opts, x.opts.construct)
<1>1. \A k \in DOMAIN its : DOMAIN its[k] = IterFields /\ its[k].at = 0
  <2>1. DOMAIN its = 1..2
    OBVIOUS
  <2>2. DOMAIN its[1] = IterFields /\ its[1].at = 0 /\ DOMAIN its[2] = IterFields /\ its[2].at = 0
    BY IterIs
  <2>3. QED
    BY <2>1, <2>2
<1>2. pol.checkout \in Nat /\ pol.checkout > 0
  BY PolicyIs
<1> HIDE DEF its, pol
<1>3. HasPlan(Loop(Frame(pol, "loop", op, Identity, its, m)), {}, {}, <<>>)
  BY <1>1, <1>2, UniformLoop
<1>4. QED
  BY <1>3 DEF ConstructElemsFrom, its, pol

LEMMA OneElemPlan ==
  ASSUME NEW x, NEW op, op \notin {"scan", "scan_as_is"}, NEW value, NEW mode, NEW i \in Nat
  PROVE  HasPlan(OneElem(x, op, value, mode, i), {}, {}, <<>>)
<1> DEFINE its == <<Iter(x.b, i, mode)>>
           pol == [par |-> FALSE, cutoff |-> 0, checkout |-> 1]
<1>1. \A k \in DOMAIN its : DOMAIN its[k] = IterFields /\ its[k].at = i
  BY IterIs
<1>2. pol.checkout \in Nat /\ pol.checkout > 0
  OBVIOUS
<1> HIDE DEF its, pol
<1>3. HasPlan(Loop(Frame(pol, "loop", op, value, its, 1)), {}, {}, <<>>)
  BY <1>1, <1>2, UniformLoop
<1>4. QED
  BY <1>3 DEF OneElem, its, pol

\* Steps that set nothing, and a vector that is set twice.
LEMMA OverIs ==
  ASSUME NEW v, NEW x
  PROVE  /\ Over(<<>>, <<>>) = <<>>
         /\ Over(<<>>, One(v, x)) = One(v, x)
         /\ Over(One(v, x), <<>>) = One(v, x)
         /\ \A y : Over(One(v, x), One(v, y)) = One(v, y)
<1>1. DOMAIN <<>> = {}
  OBVIOUS
<1>2. Over(<<>>, <<>>) = <<>>
  BY <1>1 DEF Over
<1>3. Over(<<>>, One(v, x)) = One(v, x)
  BY <1>1 DEF Over, One
<1>4. Over(One(v, x), <<>>) = One(v, x)
  BY <1>1 DEF Over, One
<1>5. \A y : Over(One(v, x), One(v, y)) = One(v, y)
  BY DEF Over, One
<1>6. QED
  BY <1>2, <1>3, <1>4, <1>5

\* Plans one after the other, by what they have in common.
LEMMA Then ==
  ASSUME NEW s, NEW t, NEW A, NEW R, NEW U
  PROVE  /\ HasPlan(s, A, R, U) /\ HasPlan(t, {}, {}, <<>>) /\ Over(U, <<>>) = U => HasPlan(s \o t, A, R, U)
         /\ HasPlan(s, {}, {}, <<>>) /\ HasPlan(t, A, R, U) /\ Over(<<>>, U) = U => HasPlan(s \o t, A, R, U)
<1>1. ASSUME HasPlan(s, A, R, U), HasPlan(t, {}, {}, <<>>), Over(U, <<>>) = U
      PROVE  HasPlan(s \o t, A, R, U)
  <2>1. HasPlan(s \o t, A \cup {}, R \cup {}, Over(U, <<>>))
    BY <1>1, PlanCat
  <2>2. A \cup {} = A /\ R \cup {} = R
    OBVIOUS
  <2>3. QED
    BY <1>1, <2>1, <2>2
<1>2. ASSUME HasPlan(s, {}, {}, <<>>), HasPlan(t, A, R, U), Over(<<>>, U) = U
      PROVE  HasPlan(s \o t, A, R, U)
  <2>1. HasPlan(s \o t, {} \cup A, {} \cup R, Over(<<>>, U))
    BY <1>2, PlanCat
  <2>2. {} \cup A = A /\ {} \cup R = R
    OBVIOUS
  <2>3. QED
    BY <1>2, <2>1, <2>2
<1>3. QED
  BY <1>1, <1>2

\* The destructor.
LEMMA DestroyPlan == ASSUME NEW x, IsVector(x) PROVE HasPlan(Destroy(x), {}, Freed(x), <<>>)
<1>1. CASE x.b = Null
  BY <1>1, EmptyPlan DEF Destroy, Freed
<1>2. CASE x.b # Null
  <2>1. HasPlan(DestructElems(x, 0, x.size), {}, {}, <<>>)
    BY DestructPlan DEF IsVector
  <2>2. HasPlan(<<Entry(x)>>, {}, {Entry(x)}, <<>>)
    BY FreePlan, EntryIs
  <2>3. HasPlan(DestructElems(x, 0, x.size) \o <<Entry(x)>>, {}, {Entry(x)}, <<>>)
    BY <2>1, <2>2, Then, OverIs
  <2>4. Destroy(x) = DestructElems(x, 0, x.size) \o <<Entry(x)>>
    BY <1>2 DEF Destroy, Free, Entry
  <2>5. QED
    BY <1>2, <2>3, <2>4 DEF Freed
<1>3. QED
  BY <1>1, <1>2

\* Memory is allocated and becomes the vector's.
LEMMA AllocSetPlan ==
  ASSUME NEW v \in Vectors, NEW y, IsVector(y)
  PROVE  HasPlan(Alloc(y.b, y, y.cap) \o Set(v, y), {Asked(y)}, {}, One(v, y))
<1>1. HasPlan(<<Asked(y)>>, {Asked(y)}, {}, <<>>)
  BY AllocPlan, EntryIs
<1>2. HasPlan(Set(v, y), {}, {}, One(v, y))
  BY SetPlan DEF One
<1>3. HasPlan(<<Asked(y)>> \o Set(v, y), {Asked(y)} \cup {}, {} \cup {}, Over(<<>>, One(v, y)))
  BY <1>1, <1>2, PlanCat
<1>4. {Asked(y)} \cup {} = {Asked(y)} /\ {} \cup {} = {}
  OBVIOUS
<1>5. Alloc(y.b, y, y.cap) = <<Asked(y)>>
  BY DEF Alloc, Asked
<1>6. QED
  BY <1>3, <1>4, <1>5, OverIs

\* A new vector with n elements.
NewVector(o, m) == [opts |-> o, b |-> FreshBlock, size |-> m, cap |-> m]

LEMMA NewVectorIs ==
  ASSUME Settled, NEW o \in OptsSet, NEW m \in Nat, m > 0
  PROVE  /\ IsVector(NewVector(o, m))
         /\ NewVector(o, m).b \in Blocks \ DOMAIN heap /\ NewVector(o, m).b # Null
         /\ NewVector(o, m).cap = m /\ NewVector(o, m).size = m /\ NewVector(o, m).opts = o
         /\ NewVector(o, m).b = FreshBlock
<1>1. FreshBlock \in Blocks \ DOMAIN heap /\ FreshBlock # Null
  BY FreshIs
<1>2. QED
  BY <1>1 DEF NewVector, IsVector, VecFields

LEMMA EmptyIs ==
  ASSUME NEW o \in OptsSet
  PROVE  IsVector(Empty(o)) /\ Empty(o).b = Null
BY DEF Empty, IsVector, VecFields

LEMMA UniformPlan ==
  ASSUME Settled, NEW v \in Vectors, NEW o \in OptsSet, NEW m \in Nat, m > 0
  PROVE  HasPlan(InitializeUniform(v, o, m), {Asked(NewVector(o, m))}, {}, One(v, NewVector(o, m)))
<1> DEFINE y == NewVector(o, m)
<1>1. IsVector(y) /\ y.cap = m /\ y.b = FreshBlock /\ y.opts = o
  BY NewVectorIs
<1>2. InitializeUniform(v, o, m) = Alloc(y.b, y, y.cap) \o Set(v, y) \o ConstructElems(y, 0, m, Def)
  BY <1>1 DEF InitializeUniform, NewVector
<1> HIDE DEF y
<1>3. HasPlan(Alloc(y.b, y, y.cap) \o Set(v, y), {Asked(y)}, {}, One(v, y))
  BY <1>1, AllocSetPlan
<1>4. HasPlan(ConstructElems(y, 0, m, Def), {}, {}, <<>>)
  BY <1>1, ConstructPlan
<1>5. HasPlan(InitializeUniform(v, o, m), {Asked(y)}, {}, One(v, y))
  BY <1>2, <1>3, <1>4, Then, OverIs
<1>6. QED
  BY <1>5 DEF y

LEMMA FromIterPlan ==
  ASSUME Settled, NEW v \in Vectors, NEW o \in OptsSet, NEW b, NEW mode, NEW m \in Nat, m > 0
  PROVE  HasPlan(InitializeFromIter(v, o, Iter(b, 0, mode), m), {Asked(NewVector(o, m))}, {}, One(v, NewVector(o, m)))
<1> DEFINE y == NewVector(o, m)
           it == Iter(b, 0, mode)
<1>1. IsVector(y) /\ y.cap = m /\ y.b = FreshBlock /\ y.opts = o
  BY NewVectorIs
<1>2. InitializeFromIter(v, o, it, m) =
        Alloc(y.b, y, y.cap) \o Set(v, y) \o ConstructElemsFrom(y, it, "construct_from", m)
  BY <1>1 DEF InitializeFromIter, NewVector
<1>3. HasPlan(ConstructElemsFrom(y, it, "construct_from", m), {}, {}, <<>>)
  BY <1>1, ConstructFromPlan
<1> HIDE DEF y, it
<1>4. HasPlan(Alloc(y.b, y, y.cap) \o Set(v, y), {Asked(y)}, {}, One(v, y))
  BY <1>1, AllocSetPlan
<1>5. HasPlan(InitializeFromIter(v, o, it, m), {Asked(y)}, {}, One(v, y))
  BY <1>2, <1>3, <1>4, Then, OverIs
<1>6. QED
  BY <1>5 DEF y, it

\* A vector with the memory of another capacity.
LEMMA ReallocatedIs ==
  ASSUME Settled, NEW x, IsVector(x), NEW cap \in Nat, cap > 0
  PROVE  LET y == Reallocated(x, cap) IN
         /\ DOMAIN y = VecFields /\ y.b = FreshBlock /\ y.cap = cap /\ y.opts = x.opts /\ y.size = x.size
         /\ IsVector(y) /\ y.b \in Blocks \ DOMAIN heap /\ y.b # Null
<1>1. FreshBlock \in Blocks \ DOMAIN heap /\ FreshBlock # Null
  BY FreshIs
<1>2. QED
  BY <1>1 DEF Reallocated, IsVector, VecFields

LEMMA ReallocPlan ==
  ASSUME Settled, NEW v \in Vectors, NEW x, IsVector(x), NEW cap \in Nat, cap > 0
  PROVE  HasPlan(ReallocMem(v, x, cap), {Asked(Reallocated(x, cap))}, Freed(x), One(v, Reallocated(x, cap)))
<1> DEFINE y == Reallocated(x, cap)
           moves == IF x.size > 0
                    THEN ConstructElemsFrom(y, Iter(x.b, 0, "read_write"), "move_construct", x.size)
                           \o DestructElems(x, 0, x.size)
                    ELSE <<>>
           frees == IF x.cap > 0 THEN Free(x) ELSE <<>>
<1>1. IsVector(y) /\ y.cap = cap
  BY ReallocatedIs
<1>2. ReallocMem(v, x, cap) = Alloc(y.b, y, y.cap) \o Set(v, y) \o moves \o frees
  BY <1>1 DEF ReallocMem
<1>3. HasPlan(moves, {}, {}, <<>>)
  <2>1. HasPlan(ConstructElemsFrom(y, Iter(x.b, 0, "read_write"), "move_construct", x.size), {}, {}, <<>>)
    <3> HIDE DEF y
    <3> QED
      BY <1>1, ConstructFromPlan DEF IsVector
  <2>2. HasPlan(DestructElems(x, 0, x.size), {}, {}, <<>>)
    BY DestructPlan DEF IsVector
  <2>3. HasPlan(ConstructElemsFrom(y, Iter(x.b, 0, "read_write"), "move_construct", x.size)
                  \o DestructElems(x, 0, x.size), {}, {}, <<>>)
    <3> HIDE DEF y
    <3> QED
      BY <2>1, <2>2, Then, OverIs
  <2>4. QED
    BY <2>3, EmptyPlan
<1>4. HasPlan(frees, {}, Freed(x), <<>>)
  <2>1. CASE x.cap > 0
    <3>1. x.b # Null
      BY <2>1 DEF IsVector
    <3>2. HasPlan(<<Entry(x)>>, {}, {Entry(x)}, <<>>)
      BY FreePlan, EntryIs
    <3>3. frees = <<Entry(x)>>
      BY <2>1 DEF Free, Entry
    <3>4. QED
      BY <3>1, <3>2, <3>3 DEF Freed
  <2>2. CASE ~(x.cap > 0)
    <3>1. x.b = Null
      BY <2>2 DEF IsVector
    <3>2. QED
      BY <2>2, <3>1, EmptyPlan DEF Freed
  <2>3. QED
    BY <2>1, <2>2
<1> HIDE DEF y, moves, frees
<1>5. HasPlan(Alloc(y.b, y, y.cap) \o Set(v, y), {Asked(y)}, {}, One(v, y))
  BY <1>1, AllocSetPlan
<1>6. HasPlan(Alloc(y.b, y, y.cap) \o Set(v, y) \o moves, {Asked(y)}, {}, One(v, y))
  BY <1>3, <1>5, Then, OverIs
<1>7. HasPlan(Alloc(y.b, y, y.cap) \o Set(v, y) \o moves \o frees,
              {Asked(y)} \cup {}, {} \cup Freed(x), Over(One(v, y), <<>>))
  BY <1>4, <1>6, PlanCat
<1>8. {Asked(y)} \cup {} = {Asked(y)} /\ {} \cup Freed(x) = Freed(x)
  OBVIOUS
<1>9. HasPlan(ReallocMem(v, x, cap), {Asked(y)}, Freed(x), One(v, y))
  BY <1>2, <1>7, <1>8, OverIs
<1>10. QED
  BY <1>9 DEF y

\* Elements are constructed in new memory, or a vector is destroyed first.
LEMMA DestroyThen ==
  ASSUME NEW x, IsVector(x), NEW t, NEW A, NEW v, NEW y, HasPlan(t, A, {}, One(v, y))
  PROVE  HasPlan(Destroy(x) \o t, A, Freed(x), One(v, y))
<1>1. HasPlan(Destroy(x) \o t, {} \cup A, Freed(x) \cup {}, Over(<<>>, One(v, y)))
  BY DestroyPlan, PlanCat
<1>2. {} \cup A = A /\ Freed(x) \cup {} = Freed(x)
  OBVIOUS
<1>3. QED
  BY <1>1, <1>2, OverIs

\* Memory is grown, loops run, and the members are set.
LEMMA GrowPlanned ==
  ASSUME Settled, NEW v \in Vectors, NEW cap \in Nat, cap > 0, NEW l, HasPlan(l, {}, {}, <<>>),
         NEW z, IsVector(z), z.b = FreshBlock, z.cap = cap, z.opts = vec[v].opts
  PROVE  Planned(ReallocMem(v, vec[v], cap) \o l \o Set(v, z), vec, heap)
<1> DEFINE x == vec[v]
           y == Reallocated(x, cap)
<1>1. IsVector(x)
  BY SettledIs
<1>2. y.b = FreshBlock /\ y.cap = cap /\ y.opts = x.opts /\ y.b \in Blocks \ DOMAIN heap /\ y.b # Null
  BY <1>1, ReallocatedIs
<1>3. HasPlan(ReallocMem(v, x, cap), {Asked(y)}, Freed(x), One(v, y))
  BY <1>1, ReallocPlan
<1>4. Asked(y) = Asked(z)
  BY <1>2 DEF Asked
<1>5. HasPlan(Set(v, z), {}, {}, One(v, z))
  BY SetPlan DEF One
<1> HIDE DEF x, y
<1>6. HasPlan(ReallocMem(v, x, cap) \o l, {Asked(y)}, Freed(x), One(v, y))
  BY <1>3, Then, OverIs
<1>7. HasPlan(ReallocMem(v, x, cap) \o l \o Set(v, z), {Asked(y)} \cup {}, Freed(x) \cup {}, Over(One(v, y), One(v, z)))
  BY <1>5, <1>6, PlanCat
<1>8. {Asked(y)} \cup {} = {Asked(z)} /\ Freed(x) \cup {} = Freed(x)
  BY <1>4
<1>9. HasPlan(ReallocMem(v, x, cap) \o l \o Set(v, z), {Asked(z)}, Freed(x), One(v, z))
  BY <1>7, <1>8, OverIs
<1>10. Owned(vec, heap, {Asked(z)}, Freed(vec[v]), One(v, z))
  BY <1>2, ReplaceOwned
<1>11. QED
  BY <1>9, <1>10 DEF x, Planned

\* A vector keeps its memory.
LEMMA StayPlanned ==
  ASSUME Settled, NEW v \in Vectors, NEW l, HasPlan(l, {}, {}, <<>>),
         NEW z, IsVector(z), z.b = vec[v].b, z.cap = vec[v].cap, z.opts = vec[v].opts
  PROVE  Planned(l \o Set(v, z), vec, heap)
<1>1. HasPlan(Set(v, z), {}, {}, One(v, z))
  BY SetPlan DEF One
<1>2. HasPlan(l \o Set(v, z), {}, {}, One(v, z))
  BY <1>1, Then, OverIs
<1>3. Owned(vec, heap, {}, {}, One(v, z))
  BY KeepOwned
<1>4. QED
  BY <1>2, <1>3 DEF Planned

LEMMA NothingPlanned == ASSUME Settled PROVE Planned(<<>>, vec, heap)
BY EmptyPlan DEF Planned, Settled

-----------------------------------------------------------------------------
(* The operations, one by one.                                              *)

LEMMA CallKeeps ==
  ASSUME VecInv, NEW st, NEW s, Call(st, s), Settled => Planned(st, vec, heap)
  PROVE  VecInv'
<1>1. Settled
  BY BetweenSettled DEF Call, Idle, Between
<1>2. Planned(st, vec, heap)
  BY <1>1
<1>3. todo' = st /\ vec' = vec /\ heap' = heap /\ job' = job /\ calls' = calls /\ calls = <<>> /\ job.fn = "vector"
  BY DEF Call, Idle, vars
<1>4. CallsInv' /\ DOMAIN calls' = {}
  BY <1>3 DEF VecInv, CallsInv
<1>5. QED
  BY <1>2, <1>3, <1>4 DEF VecInv

LEMMA ConstructKeeps ==
  ASSUME VecInv, NEW v \in Vectors, NEW m \in Nat, Construct(v, m)
  PROVE  VecInv'
<1> DEFINE x == vec[v]
           st == Destroy(x) \o InitializeUniform(v, x.opts, m)
<1>1. ASSUME Settled PROVE Planned(st, vec, heap)
  <2> DEFINE y == NewVector(x.opts, m)
  <2>1. IsVector(x) /\ x.opts \in OptsSet /\ m > 0
    BY <1>1, SettledIs DEF IsVector, Construct
  <2>2. HasPlan(InitializeUniform(v, x.opts, m), {Asked(y)}, {}, One(v, y))
    BY <1>1, <2>1, UniformPlan
  <2>3. IsVector(y) /\ y.b \in Blocks \ DOMAIN heap /\ y.b # Null
    BY <1>1, <2>1, NewVectorIs
  <2> HIDE DEF y
  <2>4. HasPlan(st, {Asked(y)}, Freed(x), One(v, y))
    BY <2>1, <2>2, DestroyThen
  <2>5. Owned(vec, heap, {Asked(y)}, Freed(x), One(v, y))
    BY <1>1, <2>3, ReplaceOwned
  <2>6. QED
    BY <2>4, <2>5 DEF Planned
<1>2. Call(st, Assigned(v, Const(m, Def)))
  BY DEF Construct
<1>3. QED
  BY <1>1, <1>2, CallKeeps

\* A vector is destroyed and initialized from an iterator.
LEMMA FromIterPlanned ==
  ASSUME Settled, NEW v \in Vectors, NEW o \in OptsSet, NEW b, NEW mode, NEW m \in Nat
  PROVE  Planned(Destroy(vec[v]) \o InitializeFromIter(v, o, Iter(b, 0, mode), m), vec, heap)
<1> DEFINE x == vec[v]
           t == InitializeFromIter(v, o, Iter(b, 0, mode), m)
<1>1. IsVector(x)
  BY SettledIs
<1>2. CASE m = 0
  <2> DEFINE y == Empty(o)
  <2>1. t = Set(v, y)
    BY <1>2 DEF InitializeFromIter
  <2>2. IsVector(y) /\ y.b = Null
    BY EmptyIs
  <2> HIDE DEF y, t, x
  <2>3. HasPlan(t, {}, {}, One(v, y))
    BY <2>1, <2>2, SetPlan DEF One
  <2>4. HasPlan(Destroy(x) \o t, {}, Freed(x), One(v, y))
    BY <1>1, <2>3, DestroyThen
  <2>5. Owned(vec, heap, {}, Freed(x), One(v, y))
    BY <2>2, DropOwned DEF x
  <2>6. QED
    BY <2>4, <2>5 DEF Planned, t, x
<1>3. CASE m > 0
  <2> DEFINE y == NewVector(o, m)
  <2>1. HasPlan(t, {Asked(y)}, {}, One(v, y))
    BY <1>3, FromIterPlan
  <2>2. IsVector(y) /\ y.b \in Blocks \ DOMAIN heap /\ y.b # Null
    BY <1>3, NewVectorIs
  <2> HIDE DEF y, t, x
  <2>3. HasPlan(Destroy(x) \o t, {Asked(y)}, Freed(x), One(v, y))
    BY <1>1, <2>1, DestroyThen
  <2>4. Owned(vec, heap, {Asked(y)}, Freed(x), One(v, y))
    BY <2>2, ReplaceOwned DEF x
  <2>5. QED
    BY <2>3, <2>4 DEF Planned, t, x
<1>4. QED
  BY <1>2, <1>3

LEMMA ConstructFromIterKeeps ==
  ASSUME VecInv, NEW v \in Vectors, NEW m \in Nat, ConstructFromIter(v, m)
  PROVE  VecInv'
<1>1. ASSUME Settled
      PROVE  Planned(Destroy(vec[v]) \o InitializeFromIter(v, vec[v].opts, Iter("count", 0, "plain"), m), vec, heap)
  <2>1. vec[v].opts \in OptsSet
    BY <1>1, SettledIs DEF IsVector
  <2>2. QED
    BY <1>1, <2>1, FromIterPlanned
<1>2. QED
  BY <1>1, CallKeeps DEF ConstructFromIter

LEMMA CopyAssignKeeps ==
  ASSUME VecInv, NEW v \in Vectors, NEW w \in Vectors, CopyAssign(v, w)
  PROVE  VecInv'
<1>1. ASSUME Settled
      PROVE  Planned(Destroy(vec[v]) \o InitializeFromIter(v, vec[w].opts, Iter(vec[w].b, 0, "no_access"), vec[w].size),
                     vec, heap)
  <2>1. vec[w].opts \in OptsSet /\ vec[w].size \in Nat
    BY <1>1, SettledIs DEF IsVector
  <2>2. QED
    BY <1>1, <2>1, FromIterPlanned
<1>2. QED
  BY <1>1, CallKeeps DEF CopyAssign

LEMMA DestructKeeps ==
  ASSUME VecInv, NEW v \in Vectors, Destruct(v)
  PROVE  VecInv'
<1> DEFINE x == vec[v]
           y == Empty(x.opts)
           st == Destroy(x) \o Set(v, y)
<1>1. ASSUME Settled PROVE Planned(st, vec, heap)
  <2>1. IsVector(x) /\ x.opts \in OptsSet
    BY <1>1, SettledIs DEF IsVector
  <2>2. IsVector(y) /\ y.b = Null
    BY <2>1, EmptyIs
  <2> HIDE DEF y
  <2>3. HasPlan(Set(v, y), {}, {}, One(v, y))
    BY <2>2, SetPlan DEF One
  <2>4. HasPlan(st, {}, Freed(x), One(v, y))
    BY <2>1, <2>3, DestroyThen
  <2>5. Owned(vec, heap, {}, Freed(x), One(v, y))
    BY <1>1, <2>2, DropOwned
  <2>6. QED
    BY <2>4, <2>5 DEF Planned
<1>2. Call(st, Assigned(v, <<>>))
  BY DEF Destruct
<1>3. QED
  BY <1>1, <1>2, CallKeeps

LEMMA MoveAssignmentKeeps ==
  ASSUME VecInv, NEW v \in Vectors, NEW w \in Vectors, MoveAssign(v, w)
  PROVE  VecInv'
<1> DEFINE x == vec[v]
           z == vec[w]
           y == Empty(z.opts)
           st == Destroy(x) \o Set(v, z) \o Set(w, y)
<1>1. ASSUME Settled PROVE Planned(st, vec, heap)
  <2>1. IsVector(x) /\ IsVector(z) /\ z.opts \in OptsSet
    BY <1>1, SettledIs DEF IsVector
  <2>2. IsVector(y) /\ y.b = Null
    BY <2>1, EmptyIs
  <2> HIDE DEF y
  <2>3. HasPlan(Set(v, z), {}, {}, One(v, z)) /\ HasPlan(Set(w, y), {}, {}, One(w, y))
    BY <2>1, <2>2, SetPlan DEF One
  <2>4. HasPlan(Destroy(x) \o Set(v, z), {}, Freed(x), One(v, z))
    BY <2>1, <2>3, DestroyThen
  <2>5. HasPlan(st, {} \cup {}, Freed(x) \cup {}, Over(One(v, z), One(w, y)))
    BY <2>3, <2>4, PlanCat
  <2>6. {} \cup {} = {} /\ Freed(x) \cup {} = Freed(x)
    OBVIOUS
  <2>7. HasPlan(st, {}, Freed(x), Over(One(v, z), One(w, y)))
    BY <2>5, <2>6
  <2>8. Owned(vec, heap, {}, Freed(x), Over(One(v, z), One(w, y)))
    <3>1. CASE v = w
      <4>1. Over(One(v, z), One(w, y)) = One(v, y)
        BY <3>1, OverIs
      <4>2. Owned(vec, heap, {}, Freed(x), One(v, y))
        BY <1>1, <2>2, DropOwned
      <4>3. QED
        BY <4>1, <4>2
    <3>2. CASE v # w
      BY <1>1, <2>2, <3>2, MoveOwned
    <3>3. QED
      BY <3>1, <3>2
  <2>9. QED
    BY <2>7, <2>8 DEF Planned
<1>2. Call(st, [seq EXCEPT ![v] = seq[w], ![w] = <<>>])
  BY DEF MoveAssign
<1>3. QED
  BY <1>1, <1>2, CallKeeps

LEMMA SwapKeeps ==
  ASSUME VecInv, NEW v \in Vectors, NEW w \in Vectors, Swap(v, w)
  PROVE  VecInv'
<1> DEFINE x == vec[v]
           z == vec[w]
           st == Set(v, z) \o Set(w, x)
<1>1. ASSUME Settled PROVE Planned(st, vec, heap)
  <2>1. IsVector(x) /\ IsVector(z)
    BY <1>1, SettledIs
  <2>2. HasPlan(Set(v, z), {}, {}, One(v, z)) /\ HasPlan(Set(w, x), {}, {}, One(w, x))
    BY <2>1, SetPlan DEF One
  <2>3. HasPlan(st, {} \cup {}, {} \cup {}, Over(One(v, z), One(w, x)))
    BY <2>2, PlanCat
  <2>4. HasPlan(st, {}, {}, Over(One(v, z), One(w, x)))
    BY <2>3
  <2>5. Owned(vec, heap, {}, {}, Over(One(v, z), One(w, x)))
    <3>1. CASE v = w
      <4>1. Over(One(v, z), One(w, x)) = One(v, x)
        BY <3>1, OverIs
      <4>2. Owned(vec, heap, {}, {}, One(v, x))
        BY <1>1, <2>1, KeepOwned
      <4>3. QED
        BY <4>1, <4>2
    <3>2. CASE v # w
      BY <1>1, <3>2, SwapOwned
    <3>3. QED
      BY <3>1, <3>2
  <2>6. QED
    BY <2>4, <2>5 DEF Planned
<1>2. Call(st, [seq EXCEPT ![v] = seq[w], ![w] = seq[v]])
  BY DEF Swap
<1>3. QED
  BY <1>1, <1>2, CallKeeps

LEMMA ClearKeeps ==
  ASSUME VecInv, NEW v \in Vectors, Clear(v)
  PROVE  VecInv'
<1> DEFINE x == vec[v]
           y == [x EXCEPT !.size = 0]
           l == DestructElems(x, 0, x.size)
<1>1. ASSUME Settled PROVE Planned(l \o Set(v, y), vec, heap)
  <2>1. IsVector(x)
    BY <1>1, SettledIs
  <2>2. IsVector(y) /\ y.b = x.b /\ y.cap = x.cap /\ y.opts = x.opts
    BY <2>1 DEF IsVector, VecFields
  <2>3. HasPlan(l, {}, {}, <<>>)
    BY <2>1, DestructPlan DEF IsVector
  <2> HIDE DEF y, l
  <2>4. QED
    BY <1>1, <2>2, <2>3, StayPlanned
<1>2. Call(l \o Set(v, y), Assigned(v, <<>>))
  BY DEF Clear
<1>3. QED
  BY <1>1, <1>2, CallKeeps

LEMMA ReserveKeeps ==
  ASSUME VecInv, NEW v \in Vectors, NEW cap \in Nat, Reserve(v, cap)
  PROVE  VecInv'
<1> DEFINE x == vec[v]
           y == Reallocated(x, cap)
           st == IF x.cap = 0 /\ cap > 0 THEN Alloc(y.b, y, cap) \o Set(v, y)
                 ELSE IF cap > x.cap THEN ReallocMem(v, x, cap) ELSE <<>>
<1>1. ASSUME Settled PROVE Planned(st, vec, heap)
  <2>1. IsVector(x) /\ x.cap \in Nat
    BY <1>1, SettledIs DEF IsVector
  <2>2. ASSUME cap > 0
        PROVE  IsVector(y) /\ y.cap = cap /\ y.b \in Blocks \ DOMAIN heap /\ y.b # Null
    BY <1>1, <2>1, <2>2, ReallocatedIs
  <2>3. ASSUME cap > 0
        PROVE  Owned(vec, heap, {Asked(y)}, Freed(x), One(v, y))
    <3> HIDE DEF y
    <3> QED
      BY <1>1, <2>2, <2>3, ReplaceOwned
  <2>4. CASE x.cap = 0 /\ cap > 0
    <3>1. Freed(x) = {}
      BY <2>1, <2>4 DEF Freed, IsVector
    <3>2. HasPlan(Alloc(y.b, y, cap) \o Set(v, y), {Asked(y)}, {}, One(v, y))
      <4> HIDE DEF y
      <4> QED
        BY <2>2, <2>4, AllocSetPlan
    <3>3. st = Alloc(y.b, y, cap) \o Set(v, y)
      BY <2>4
    <3> HIDE DEF y, st, x
    <3>4. QED
      BY <2>3, <2>4, <3>1, <3>2, <3>3 DEF Planned
  <2>5. CASE ~(x.cap = 0 /\ cap > 0) /\ cap > x.cap
    <3>1. cap > 0
      BY <2>1, <2>5
    <3>2. HasPlan(ReallocMem(v, x, cap), {Asked(y)}, Freed(x), One(v, y))
      BY <1>1, <2>1, <3>1, ReallocPlan
    <3>3. st = ReallocMem(v, x, cap)
      BY <2>5
    <3> HIDE DEF y, st, x
    <3>4. QED
      BY <2>3, <3>1, <3>2, <3>3 DEF Planned
  <2>6. CASE ~(x.cap = 0 /\ cap > 0) /\ ~(cap > x.cap)
    BY <1>1, <2>6, NothingPlanned
  <2>7. QED
    BY <2>4, <2>5, <2>6
<1>2. Call(st, seq)
  BY DEF Reserve
<1> HIDE DEF st
<1>3. QED
  BY <1>1, <1>2, CallKeeps

LEMMA NextSizeIs ==
  ASSUME NEW x, x.size \in Nat, NEW least \in Nat, least > 0
  PROVE  NextSize(x, least) \in Nat /\ NextSize(x, least) >= least
BY DEF NextSize

\* A vector that grows, in the memory it has or in new memory.
LEMMA GrownPlanned ==
  ASSUME Settled, NEW v \in Vectors, NEW more \in BOOLEAN, NEW least \in Nat, least > 0,
         NEW l, HasPlan(l, {}, {}, <<>>), NEW y, NEW z,
         y = IF more THEN Reallocated(vec[v], NextSize(vec[v], least)) ELSE vec[v],
         IsVector(z), z.b = y.b, z.cap = y.cap, z.opts = y.opts
  PROVE  Planned((IF more THEN ReallocMem(v, vec[v], NextSize(vec[v], least)) ELSE <<>>) \o l \o Set(v, z),
                 vec, heap)
<1> DEFINE x == vec[v]
           cap == NextSize(x, least)
<1>1. IsVector(x) /\ x.size \in Nat
  BY SettledIs DEF IsVector
<1>2. cap \in Nat /\ cap > 0
  BY <1>1, NextSizeIs
<1>3. CASE more
  <2>1. y.b = FreshBlock /\ y.cap = cap /\ y.opts = x.opts
    <3> HIDE DEF cap
    <3> QED
      BY <1>1, <1>2, <1>3, ReallocatedIs DEF cap
  <2>2. Planned(ReallocMem(v, vec[v], cap) \o l \o Set(v, z), vec, heap)
    <3> HIDE DEF cap
    <3> QED
      BY <1>2, <2>1, GrowPlanned
  <2>3. QED
    BY <1>3, <2>2
<1>4. CASE ~more
  <2>1. HasPlan(<<>> \o l, {}, {}, <<>>)
    BY EmptyPlan, Then, OverIs
  <2>2. Planned(<<>> \o l \o Set(v, z), vec, heap)
    BY <1>4, <2>1, StayPlanned
  <2>3. QED
    BY <1>4, <2>2
<1>5. QED
  BY <1>3, <1>4

LEMMA ResizeKeeps ==
  ASSUME VecInv, NEW v \in Vectors, NEW m \in Nat, Resize(v, m)
  PROVE  VecInv'
<1> DEFINE x == vec[v]
           y == IF m > x.cap THEN Reallocated(x, NextSize(x, m)) ELSE x
           z == [y EXCEPT !.size = m]
           grown == (IF m > x.cap THEN ReallocMem(v, x, NextSize(x, m)) ELSE <<>>)
                      \o ConstructElems(y, x.size, m, Def) \o Set(v, z)
           shrunk == DestructElems(x, m, x.size) \o Set(v, [x EXCEPT !.size = m])
           st == IF m > x.size THEN grown ELSE IF m < x.size THEN shrunk ELSE <<>>
<1>1. ASSUME Settled PROVE Planned(st, vec, heap)
  <2>1. IsVector(x) /\ x.cap \in Nat /\ x.size \in Nat /\ x.opts \in OptsSet
    BY <1>1, SettledIs DEF IsVector
  <2>2. CASE m > x.size
    <3>1. m > 0 /\ x.size <= m
      BY <2>1, <2>2
    <3>2. IsVector(y) /\ y.opts = x.opts
      <4>1. CASE m > x.cap
        <5> DEFINE cap == NextSize(x, m)
        <5>1. cap \in Nat /\ cap > 0
          BY <2>1, <3>1, NextSizeIs
        <5>2. y = Reallocated(x, cap)
          BY <4>1
        <5> HIDE DEF cap, y
        <5>3. QED
          BY <1>1, <2>1, <5>1, <5>2, ReallocatedIs
      <4>2. CASE ~(m > x.cap)
        BY <2>1, <4>2
      <4>3. QED
        BY <4>1, <4>2
    <3>3. HasPlan(ConstructElems(y, x.size, m, Def), {}, {}, <<>>)
      <4> HIDE DEF y
      <4> QED
        BY <2>1, <3>1, <3>2, ConstructPlan
    <3>4. IsVector(z) /\ z.b = y.b /\ z.cap = y.cap /\ z.opts = y.opts
      <4> HIDE DEF y
      <4> QED
        BY <3>2 DEF IsVector, VecFields
    <3>5. Planned(grown, vec, heap)
      <4> DEFINE more == m > x.cap
                 l == ConstructElems(y, x.size, m, Def)
      <4>1. more \in BOOLEAN /\ y = IF more THEN Reallocated(x, NextSize(x, m)) ELSE x
        OBVIOUS
      <4>2. HasPlan(l, {}, {}, <<>>)
        BY <3>3
      <4>3. grown = (IF more THEN ReallocMem(v, x, NextSize(x, m)) ELSE <<>>) \o l \o Set(v, z)
        OBVIOUS
      <4> HIDE DEF more, l, y, z, grown
      <4>4. QED
        BY <1>1, <3>1, <3>4, <4>1, <4>2, <4>3, GrownPlanned
    <3>6. QED
      BY <2>2, <3>5
  <2>3. CASE ~(m > x.size) /\ m < x.size
    <3> DEFINE l == DestructElems(x, m, x.size)
               w == [x EXCEPT !.size = m]
    <3>1. HasPlan(l, {}, {}, <<>>)
      BY <2>1, <2>3, DestructPlan
    <3>2. IsVector(w) /\ w.b = x.b /\ w.cap = x.cap /\ w.opts = x.opts
      BY <2>1 DEF IsVector, VecFields
    <3>3. st = l \o Set(v, w)
      BY <2>3
    <3> HIDE DEF l, w, st
    <3>4. QED
      BY <1>1, <3>1, <3>2, <3>3, StayPlanned
  <2>4. CASE ~(m > x.size) /\ ~(m < x.size)
    BY <1>1, <2>4, NothingPlanned
  <2>5. QED
    BY <2>2, <2>3, <2>4
<1>2. \E s : Call(st, s)
  <2>1. Call(st, Assigned(v, [i \in 1..m |-> IF i <= Len(seq[v]) THEN seq[v][i] ELSE Def]))
    BY DEF Resize
  <2> HIDE DEF st
  <2>2. QED
    BY <2>1
<1> HIDE DEF st
<1>3. QED
  BY <1>1, <1>2, CallKeeps

LEMMA PushBackKeeps ==
  ASSUME VecInv, NEW v \in Vectors, PushBack(v)
  PROVE  VecInv'
<1> DEFINE x == vec[v]
           least == x.size + 1
           more == NeedsMemory(x)
           y == IF more THEN Reallocated(x, NextSize(x, least)) ELSE x
           z == [y EXCEPT !.size = @ + 1]
           l == OneElem(y, "construct", New, "write", x.size)
           st == (IF more THEN ReallocMem(v, x, NextSize(x, least)) ELSE <<>>) \o l \o Set(v, z)
<1>1. ASSUME Settled PROVE Planned(st, vec, heap)
  <2>1. IsVector(x) /\ x.cap \in Nat /\ x.size \in Nat /\ x.opts \in OptsSet
    BY <1>1, SettledIs DEF IsVector
  <2>2. least \in Nat /\ least > 0 /\ more \in BOOLEAN
    BY <2>1 DEF NeedsMemory
  <2>3. IsVector(y)
    <3> DEFINE cap == NextSize(x, least)
    <3>1. cap \in Nat /\ cap > 0
      <4> HIDE DEF least
      <4> QED
        BY <2>1, <2>2, NextSizeIs
    <3>2. y = IF more THEN Reallocated(x, cap) ELSE x
      OBVIOUS
    <3> HIDE DEF cap, y, more
    <3>3. QED
      BY <1>1, <2>1, <3>1, <3>2, ReallocatedIs
  <2>4. HasPlan(l, {}, {}, <<>>)
    <3> HIDE DEF y
    <3> QED
      BY <2>1, OneElemPlan
  <2>5. IsVector(z) /\ z.b = y.b /\ z.cap = y.cap /\ z.opts = y.opts
    <3> HIDE DEF y
    <3> QED
      BY <2>3 DEF IsVector, VecFields
  <2>6. y = IF more THEN Reallocated(x, NextSize(x, least)) ELSE x
    OBVIOUS
  <2> HIDE DEF y, z, l, more, least
  <2>7. QED
    BY <1>1, <2>2, <2>4, <2>5, <2>6, GrownPlanned
<1>2. Call(st, Assigned(v, Append(seq[v], New)))
  BY DEF PushBack
<1> HIDE DEF st
<1>3. QED
  BY <1>1, <1>2, CallKeeps

LEMMA PopBackKeeps ==
  ASSUME VecInv, NEW v \in Vectors, PopBack(v)
  PROVE  VecInv'
<1> DEFINE x == vec[v]
           z == [x EXCEPT !.size = @ - 1]
           l == OneElem(x, "destroy", Identity, "read_write", x.size - 1)
<1>1. ASSUME Settled PROVE Planned(l \o Set(v, z), vec, heap)
  <2>1. IsVector(x) /\ x.size \in Nat /\ x.size > 0
    BY <1>1, SettledIs DEF IsVector, PopBack
  <2>2. HasPlan(l, {}, {}, <<>>)
    BY <2>1, OneElemPlan
  <2>3. IsVector(z) /\ z.b = x.b /\ z.cap = x.cap /\ z.opts = x.opts
    BY <2>1 DEF IsVector, VecFields
  <2> HIDE DEF z, l
  <2>4. QED
    BY <1>1, <2>2, <2>3, StayPlanned
<1>2. Call(l \o Set(v, z), Assigned(v, Front(seq[v])))
  BY DEF PopBack
<1> HIDE DEF z, l
<1>3. QED
  BY <1>1, <1>2, CallKeeps

LEMMA OperationKeeps ==
  ASSUME VecInv, NEW v \in Vectors, Operation(v)
  PROVE  VecInv'
<1>1. CASE \E m \in Counts : Construct(v, m) \/ ConstructFromIter(v, m) \/ Reserve(v, m) \/ Resize(v, m)
  <2>1. PICK m \in Counts : Construct(v, m) \/ ConstructFromIter(v, m) \/ Reserve(v, m) \/ Resize(v, m)
    BY <1>1
  <2>2. m \in Nat
    BY VectorAssumption
  <2>3. QED
    BY <2>1, <2>2, ConstructKeeps, ConstructFromIterKeeps, ReserveKeeps, ResizeKeeps
<1>2. CASE \E w \in Vectors : CopyAssign(v, w) \/ MoveAssign(v, w) \/ Swap(v, w)
  BY <1>2, CopyAssignKeeps, MoveAssignmentKeeps, SwapKeeps
<1>3. CASE Destruct(v) \/ Clear(v) \/ PushBack(v) \/ PopBack(v)
  BY <1>3, DestructKeeps, ClearKeeps, PushBackKeeps, PopBackKeeps
<1>4. QED
  BY <1>1, <1>2, <1>3 DEF Operation

-----------------------------------------------------------------------------
(* The invariant and what follows from it.                                  *)

LEMMA VectorsBegin == VecInit => VecInv
<1> SUFFICES ASSUME VecInit PROVE VecInv
  OBVIOUS
<1>1. CASE Init /\ vec = <<>> /\ seq = <<>>
  <2>1. job \in Jobs /\ job.fn # "vector"
    BY <1>1 DEF Init
  <2>2. CallsInv
    BY <1>1, LoopInit
  <2>3. QED
    BY <2>1, <2>2 DEF VecInit, VecInv
<1>2. CASE /\ job \in {j \in Jobs : j.fn = "vector"} /\ calls = <<>>
           /\ vec = [v \in Vectors |-> Empty(job.opts[v])]
  <2>1. job \in Jobs /\ job.fn = "vector" /\ CallsInv /\ DOMAIN calls = {}
    BY <1>2, NoCall DEF CallsInv
  <2>2. \A v \in Vectors : job.opts[v] \in OptsSet
    BY <2>1, VectorAssumption DEF OptsSet
  <2>3. DOMAIN vec = Vectors /\ \A v \in Vectors : IsVector(vec[v]) /\ vec[v].b = Null
    BY <1>2, <2>2, EmptyIs
  <2>4. heap = <<>> /\ todo = <<>> /\ DOMAIN heap = {} /\ DOMAIN <<>> = {}
    BY DEF VecInit
  <2>5. \A v \in Vectors : After(vec, <<>>, v) = vec[v]
    BY <2>4 DEF After
  <2>6. {After(vec, <<>>, v).b : v \in Vectors} \ {Null} = {}
    BY <2>3, <2>5
  <2>7. (DOMAIN heap \cup {a.b : a \in {}}) \ {f.b : f \in {}} = {}
    BY <2>4
  <2>8. Owned(vec, heap, {}, {}, <<>>)
    BY <2>3, <2>4, <2>5, <2>6, <2>7 DEF Owned
  <2>9. Planned(todo, vec, heap)
    BY <2>4, <2>8, EmptyPlan DEF Planned
  <2>10. QED
    BY <2>1, <2>9 DEF VecInv
<1>3. QED
  BY <1>1, <1>2 DEF VecInit

LEMMA VectorsStep == VecInv /\ [VecNext]_allVars => VecInv'
<1> SUFFICES ASSUME VecInv, [VecNext]_allVars PROVE VecInv'
  OBVIOUS
<1>1. CASE VecNext
  BY <1>1, LoopStepKeeps, AllocateMemKeeps, FreeMemKeeps, SetMembersKeeps, StartLoopKeeps, EndLoopKeeps,
     OperationKeeps DEF VecNext
<1>2. CASE UNCHANGED allVars
  BY <1>2 DEF allVars, vars, vecVars, VecInv, CallsInv
<1>3. QED
  BY <1>1, <1>2

LEMMA OwnedMemory == ASSUME VecInv PROVE MemoryOwned
<1>1. ASSUME todo # <<>>, Head(todo).do = "free"
      PROVE  /\ Head(todo).b \in DOMAIN heap
             /\ heap[Head(todo).b] = [cap |-> Head(todo).cap, coll |-> Head(todo).coll]
  <2>1. PICK A, R, U : HasPlan(todo, A, R, U) /\ Owned(vec, heap, A, R, U)
    BY <1>1 DEF VecInv, Planned
  <2>2. Head(todo) \in R
    BY <1>1, <2>1, EntriesKept
  <2>3. QED
    BY <2>1, <2>2 DEF Owned
<1>2. ASSUME Between
      PROVE  /\ DOMAIN heap = {vec[v].b : v \in Vectors} \ {Null}
             /\ \A v, w \in Vectors : v # w /\ vec[v].b # Null => vec[v].b # vec[w].b
  <2>1. Settled
    BY <1>2, BetweenSettled
  <2>2. QED
    BY <2>1, SettledIs
<1>3. QED
  BY <1>1, <1>2 DEF MemoryOwned

\* In every program of vector operations a block belongs to one vector, is freed
\* by the vector that owns it, with the capacity and by the function (free or
\* free_coll) it was allocated with, and none is lost (MemoryOwned).
THEOREM VectorsOwnMemory == VecSpec => []MemoryOwned
BY VectorsBegin, VectorsStep, OwnedMemory, PTL DEF VecSpec

\* The loops by which vectors construct, move and destroy their elements are free
\* of data races as well (NoDataRace), whatever is stolen.
THEOREM VectorsRaceFree == VecSpec => []NoDataRace
<1>1. VecInv => NoDataRace
  BY RaceFree DEF VecInv
<1>2. QED
  BY <1>1, VectorsBegin, VectorsStep, PTL DEF VecSpec
=============================================================================
