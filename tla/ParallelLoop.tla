----------------------------- MODULE ParallelLoop -----------------------------
(***************************************************************************)
(* The iterator-based loops of include/ityr/pattern/: for_each, transform, *)
(* fill, reduce, transform_reduce and the inclusive scans of               *)
(* parallel_loop.hpp, which all end in parallel_loop_generic or            *)
(* parallel_reduce_generic, and the chunked leaf loop of serial_loop.hpp   *)
(* with the iterators of global_iterator.hpp and count_iterator.hpp.       *)
(*                                                                         *)
(* A call of a generic function is a frame; frames are named by paths: the *)
(* forked left half of p is p.1, the called right half p.2, and the loops  *)
(* by which a scan's combine_op corrects the right half p.3.  What decides *)
(* the result is whether a right half starts when its left half has ended  *)
(* (th.serialized()) or before, on the worker that stole the continuation. *)
(* Fences and scheduling are in ForkJoin, RandWs and Adws.                 *)
(*                                                                         *)
(* Values are sequences and binary_op is concatenation: associative, with  *)
(* the identity <<>>, not commutative.  Every application of a user        *)
(* function leaves its mark.                                               *)
(***************************************************************************)
EXTENDS Integers, Sequences, SequencesExt

CONSTANT Jobs   \* the calls to check: [fn, pol, n, mode, dst, trivial, sched]; vector
                \* programs (GlobalVector) have the fn "vector"

\* assert_policy, which every loop function starts with.
PolicyValid(pol) == 0 < pol.checkout /\ (pol.par => pol.checkout <= pol.cutoff)

LoopFunctions ==
  {"for_each", "for_each2", "for_each3", "fill", "transform", "transform2", "transform_reduce",
   "transform_reduce2", "reduce", "scan", "transform_scan_no_init", "inclusive_scan",
   "inclusive_scan_no_init"}

ASSUME PolicyAssumption == \A j \in Jobs : j.pol.checkout \in Nat /\ PolicyValid(j.pol)
ASSUME LoopsAssumption == \A j \in Jobs : j.fn = "vector" \/ (j.fn \in LoopFunctions /\ j.n \in Nat)

VARIABLES
  job,    \* the call that is made
  mem,    \* mem[a][i]: element i of array a in global memory
  calls   \* frames by path

vars == <<job, mem, calls>>

Identity == <<>>
Init0 == <<9>>            \* init of a scan
Value == <<8>>            \* what fill writes
Garbage == <<7>>          \* what a write-only checkout may hold
Raw == <<6>>              \* memory without an object
Moved == <<5>>            \* an object that was moved from
F(v) == <<0>> \o v        \* the user's transform function

-----------------------------------------------------------------------------
(* Iterators: an array or the count iterator, a position and a mode.        *)

It(arr, mode) == [arr |-> arr, at |-> 0, mode |-> mode]
Next1(it, d) == [it EXCEPT !.at = @ + d]
Advanced(its, d) == [k \in DOMAIN its |-> Next1(its[k], d)]
AutoCheckout(it) == it.mode \in {"read", "write", "read_write"}
IsGlobal(it) == AutoCheckout(it) \/ it.mode = "no_access"

\* A global pointer becomes a global iterator of the mode the function needs;
\* an iterator of the user keeps the mode it has.
Converted(arr, mode, needed) == It(arr, IF mode = "pointer" THEN needed ELSE mode)

\* Write-only access is possible if the destination is trivially copyable.
DstMode == IF job.trivial THEN "write" ELSE "read_write"

-----------------------------------------------------------------------------
(* Frames.                                                                  *)

Frame(pol, gen, op, acc, its, n) ==
  [pol |-> pol, gen |-> gen, op |-> op, acc |-> acc, its |-> its, n |-> n,
   pc |-> "called", d |-> 0, css |-> <<>>, ser |-> FALSE, fix |-> <<>>]

\* The loops of the API: what they pass to loop_generic and reduce_generic.
ForEach(j) ==
  Frame(j.pol, "loop", "for_each", Identity, <<It("src", j.mode)>>, j.n)
ForEach2(j) ==
  Frame(j.pol, "loop", "pair", Identity, <<It("count", "plain"), It("dst", j.mode)>>, j.n)
ForEach3(j) ==
  Frame(j.pol, "loop", "triple", Identity,
        <<It("count", "plain"), It("src", j.mode), It("dst", j.mode)>>, j.n)
Fill(j) ==
  Frame(j.pol, "loop", "fill", Identity, <<Converted("dst", j.mode, DstMode)>>, j.n)
Transform(j) ==
  Frame(j.pol, "loop", "transform", Identity,
        <<Converted("src", j.mode, "read"), Converted(j.dst, j.mode, DstMode)>>, j.n)
Transform2(j) ==
  Frame(j.pol, "loop", "transform2", Identity,
        <<It("count", "plain"), Converted("src", j.mode, "read"),
          Converted(j.dst, j.mode, DstMode)>>, j.n)
TransformReduce(j) ==
  Frame(j.pol, "reduce", "accumulate", Identity, <<Converted("src", j.mode, "read")>>, j.n)
TransformReduce2(j) ==
  Frame(j.pol, "reduce", "accumulate2", Identity,
        <<Converted("src", j.mode, "read"), It("count", "plain")>>, j.n)
Reduce(j) == [TransformReduce(j) EXCEPT !.op = "accumulate_as_is"]
TransformInclusiveScan(j) ==
  Frame(j.pol, "reduce", "scan", Init0,
        <<Converted("src", "pointer", "read"), Converted(j.dst, j.mode, DstMode)>>, j.n)
TransformInclusiveScanNoInit(j) == [TransformInclusiveScan(j) EXCEPT !.acc = Identity]
InclusiveScan(j) == [TransformInclusiveScan(j) EXCEPT !.op = "scan_as_is"]
InclusiveScanNoInit(j) == [InclusiveScan(j) EXCEPT !.acc = Identity]

Start(j) ==
  CASE j.fn = "for_each" -> ForEach(j)
    [] j.fn = "for_each2" -> ForEach2(j)
    [] j.fn = "fill" -> Fill(j)
    [] j.fn = "transform" -> Transform(j)
    [] j.fn = "transform2" -> Transform2(j)
    [] j.fn = "transform_reduce" -> TransformReduce(j)
    [] j.fn = "transform_reduce2" -> TransformReduce2(j)
    [] j.fn = "scan" -> TransformInclusiveScan(j)
    [] j.fn = "for_each3" -> ForEach3(j)
    [] j.fn = "reduce" -> Reduce(j)
    [] j.fn = "transform_scan_no_init" -> TransformInclusiveScanNoInit(j)
    [] j.fn = "inclusive_scan" -> InclusiveScan(j)
    [] j.fn = "inclusive_scan_no_init" -> InclusiveScanNoInit(j)

InitialMem(j) ==
  [src |-> [i \in 0..(j.n - 1) |-> <<i + 1>>], dst |-> [i \in 0..(j.n - 1) |-> <<>>]]

Init ==
  /\ job \in {j \in Jobs : j.fn # "vector"}
  /\ mem = InitialMem(job)
  /\ calls = [p \in {<<>>} |-> Start(job)]

-----------------------------------------------------------------------------
(* parallel_loop_generic and parallel_reduce_generic.                       *)

Sub(p, k) == p \o <<k>>
At(p, pc) == p \in DOMAIN calls /\ calls[p].pc = pc
Returned(p) == At(p, "returned")
Mid(f) == f.n \div 2

\* A new call of frame f at path q, while the frame at p becomes g.
CallAt(p, g, q, f) ==
  calls' = [r \in DOMAIN calls \cup {q} |-> IF r = q THEN f ELSE IF r = p THEN g ELSE calls[r]]

\* Few enough elements, or a sequenced policy: the leaf loop.
Cutoff(p) ==
  /\ At(p, "called")
  /\ ~calls[p].pol.par \/ calls[p].n <= calls[p].pol.cutoff
  /\ calls' = [calls EXCEPT ![p].pc = "leaf"]
  /\ UNCHANGED <<job, mem>>

LeftHalf(f) == [f EXCEPT !.n = Mid(f), !.pc = "called"]

\* The first half is forked and runs at once.
Fork(p) ==
  /\ At(p, "called")
  /\ calls[p].pol.par /\ calls[p].n > calls[p].pol.cutoff
  /\ CallAt(p, [calls[p] EXCEPT !.pc = "forked"], Sub(p, 1), LeftHalf(calls[p]))
  /\ UNCHANGED <<job, mem>>

\* Mutant: only the first iterator is moved on.
RightHalfFirst(f, acc) ==
  [f EXCEPT !.its = [f.its EXCEPT ![1] = Next1(@, Mid(f))], !.n = @ - Mid(f), !.acc = acc,
            !.pc = "called"]

RightHalf(f, acc) ==
  [f EXCEPT !.its = Advanced(@, Mid(f)), !.n = @ - Mid(f), !.acc = acc, !.pc = "called"]

\* The second half after the first: it goes on with the first half's acc.
Serialized(p) ==
  LET f == calls[p] IN
  /\ At(p, "forked") /\ Returned(Sub(p, 1))
  /\ CallAt(p, [f EXCEPT !.pc = "right", !.ser = TRUE], Sub(p, 2),
            RightHalf(f, calls[Sub(p, 1)].acc))
  /\ UNCHANGED <<job, mem>>

\* Mutant: acc is passed to both halves.
StolenAccTwice(f) == f.acc

\* What a second half that does not wait starts from.
StolenAcc(f) == IF f.gen = "reduce" THEN Identity ELSE f.acc

\* Whether a continuation can be stolen: scheduler_serial runs what is forked at
\* once and calls every thread serialized.
MayDrift == job.sched # "serial"

\* The second half in a stolen continuation, while the first half runs.
Stolen(p) ==
  LET f == calls[p] IN
  /\ MayDrift /\ At(p, "forked") /\ ~Returned(Sub(p, 1))
  /\ CallAt(p, [f EXCEPT !.pc = "right"], Sub(p, 2), RightHalf(f, StolenAcc(f)))
  /\ UNCHANGED <<job, mem>>

\* The frames below p are gone.
Below(p, q) == Len(q) > Len(p) /\ SubSeq(q, 1, Len(p)) = p
Return(p, acc) ==
  calls' = [q \in {q \in DOMAIN calls : ~Below(p, q)} |->
              IF q = p THEN [calls[p] EXCEPT !.pc = "returned", !.acc = acc] ELSE calls[q]]

\* The loops by which combine_op adds acc1 to the second half of a scan: one
\* transform; for a destination without automatic checkout a for_each and
\* then the transform.
CombineLoops(f) ==
  LET dst  == Next1(f.its[2], Mid(f))
      loop(op, its) == Frame(f.pol, "loop", op, Identity, its, f.n - Mid(f))
      ptr(mode) == [dst EXCEPT !.mode = mode] IN
  IF AutoCheckout(dst) THEN <<loop("prefix2", <<ptr("read"), ptr(DstMode)>>)>>
  ELSE <<loop("prefix", <<dst>>), loop("prefix2", <<dst, dst>>)>>

\* Without a second pass over the elements: reductions, and scans that ran serially.
IsCombined(f) == f.gen = "loop" \/ f.ser \/ f.op \notin {"scan", "scan_as_is"}

Combined(f, acc1, acc2) ==
  IF f.gen = "loop" THEN f.acc ELSE IF f.ser THEN acc2 ELSE acc1 \o acc2

\* Both halves have ended.
Join(p) ==
  LET f == calls[p]
      acc1 == calls[Sub(p, 1)].acc
      acc2 == calls[Sub(p, 2)].acc IN
  /\ At(p, "right") /\ Returned(Sub(p, 1)) /\ Returned(Sub(p, 2))
  /\ IsCombined(f)
  /\ Return(p, Combined(f, acc1, acc2))
  /\ UNCHANGED <<job, mem>>

\* The same for a scan whose halves ran in parallel: combine_op makes the
\* first of its loops, with acc1 captured by the user function.
Combine(p) ==
  LET f == calls[p]
      acc1 == calls[Sub(p, 1)].acc
      loops == [k \in DOMAIN CombineLoops(f) |-> [CombineLoops(f)[k] EXCEPT !.acc = acc1]] IN
  /\ At(p, "right") /\ Returned(Sub(p, 1)) /\ Returned(Sub(p, 2))
  /\ ~IsCombined(f)
  /\ CallAt(p, [f EXCEPT !.pc = "combine", !.fix = Tail(loops)], Sub(p, 3), Head(loops))
  /\ UNCHANGED <<job, mem>>

CombineNext(p) ==
  LET f == calls[p] IN
  /\ At(p, "combine") /\ Returned(Sub(p, 3)) /\ f.fix # <<>>
  /\ CallAt(p, [f EXCEPT !.fix = Tail(@)], Sub(p, 3), Head(f.fix))
  /\ UNCHANGED <<job, mem>>

CombineReturns(p) ==
  LET f == calls[p] IN
  /\ At(p, "combine") /\ Returned(Sub(p, 3)) /\ f.fix = <<>>
  /\ Return(p, Combined(f, calls[Sub(p, 1)].acc, calls[Sub(p, 2)].acc))
  /\ UNCHANGED <<job, mem>>

-----------------------------------------------------------------------------
(* for_each_aux: the leaf loop, chunk by chunk.                             *)

\* Without a global iterator the loop goes element by element.
Chunk(f) ==
  IF \E k \in DOMAIN f.its : IsGlobal(f.its[k])
  THEN IF f.n - f.d < f.pol.checkout THEN f.n - f.d ELSE f.pol.checkout
  ELSE 1

Elem(it, i) == <<it.arr, it.at + i>>
Load(e) == mem[e[1]][e[2]]

\* The elements that iterators of the frame check out in one of the modes.
CheckedOut(f, modes) ==
  {Elem(f.its[k], i) : k \in {k \in DOMAIN f.its : f.its[k].mode \in modes}, i \in 0..(Chunk(f) - 1)}

\* Checkouts are made in the order of the iterators: a write-only one fetches
\* nothing, and nothing is fetched after it.
Fetched(f, e) ==
  \E k \in DOMAIN f.its :
    /\ f.its[k].mode \in {"read", "read_write"}
    /\ \E i \in 0..(Chunk(f) - 1) : e = Elem(f.its[k], i)
    /\ \A j \in 1..(k - 1) :
         f.its[j].mode = "write" => ~\E i \in 0..(Chunk(f) - 1) : e = Elem(f.its[j], i)

Checkout(p) ==
  LET f == calls[p] IN
  /\ At(p, "leaf") /\ f.d < f.n
  /\ calls' = [calls EXCEPT ![p].pc = "chunk",
                            ![p].css = [e \in CheckedOut(f, {"read", "write", "read_write"}) |->
                                          IF Fetched(f, e) THEN Load(e) ELSE Garbage]]
  /\ UNCHANGED <<job, mem>>

\* The user function on one element of each iterator: the values they hold
\* afterwards, and acc.
Applied(op, acc, v) ==
  CASE op = "for_each" -> [acc |-> acc, vs |-> <<F(v[1])>>]
    [] op = "pair" -> [acc |-> acc, vs |-> <<v[1], F(v[1])>>]
    [] op = "triple" -> [acc |-> acc, vs |-> <<v[1], F(v[2]), v[1] \o v[2]>>]
    [] op = "fill" -> [acc |-> acc, vs |-> <<Value>>]
    [] op = "transform" -> [acc |-> acc, vs |-> <<v[1], F(v[1])>>]
    [] op = "transform2" -> [acc |-> acc, vs |-> <<v[1], v[2], v[1] \o v[2]>>]
    [] op = "prefix" -> [acc |-> acc, vs |-> <<acc \o v[1]>>]
    [] op = "prefix2" -> [acc |-> acc, vs |-> <<v[1], acc \o v[1]>>]
    [] op = "accumulate" -> [acc |-> acc \o F(v[1]), vs |-> v]
    [] op = "accumulate_as_is" -> [acc |-> acc \o v[1], vs |-> v]
    [] op = "accumulate2" -> [acc |-> acc \o v[1] \o v[2], vs |-> v]
    [] op = "construct" -> [acc |-> acc, vs |-> <<acc>>]
    [] op = "construct_from" -> [acc |-> acc, vs |-> <<v[1], v[1]>>]
    [] op = "move_construct" -> [acc |-> acc, vs |-> <<Moved, v[1]>>]
    [] op = "destroy" -> [acc |-> acc, vs |-> <<Raw>>]
    [] op = "scan" -> [acc |-> acc \o F(v[1]), vs |-> <<v[1], acc \o F(v[1])>>]
    [] op = "scan_as_is" -> [acc |-> acc \o v[1], vs |-> <<v[1], acc \o v[1]>>]

\* What an iterator refers to; a count iterator refers to its own position.
Deref(it, i, store) == IF it.arr = "count" THEN <<it.at + i>> ELSE store[Elem(it, i)]

\* apply_iterators: the elements of the chunk in order, on a store that maps
\* every element the frame uses to its value.
ApplyIterators(f, start) ==
  LET written == {k \in DOMAIN f.its : f.its[k].mode \in {"write", "read_write", "no_access"}}
      after[i \in 0..Chunk(f)] ==   \* after i elements
        IF i = 0 THEN [acc |-> f.acc, store |-> start]
        ELSE LET was == after[i - 1]
                 r   == Applied(f.op, was.acc, [k \in DOMAIN f.its |-> Deref(f.its[k], i - 1, was.store)])
                 by(e) == {k \in written : Elem(f.its[k], i - 1) = e}
             IN [acc |-> r.acc,
                 store |-> [e \in DOMAIN start |->
                              IF by(e) = {} THEN was.store[e]
                              ELSE r.vs[CHOOSE k \in by(e) : \A l \in by(e) : l <= k]]]
  IN after[Chunk(f)]

NextChunk(f, acc) ==
  [f EXCEPT !.pc = "leaf", !.css = <<>>, !.acc = acc, !.d = @ + Chunk(f),
            !.its = Advanced(@, Chunk(f))]

\* The chunk is processed and checked in.
Apply(p) ==
  LET f == calls[p]
      direct == CheckedOut(f, {"no_access"})
      r == ApplyIterators(f, [e \in DOMAIN f.css \cup direct |->
                                IF e \in DOMAIN f.css THEN f.css[e] ELSE Load(e)])
      written == CheckedOut(f, {"write", "read_write", "no_access"}) IN
  /\ At(p, "chunk")
  /\ mem' = [a \in DOMAIN mem |-> [i \in DOMAIN mem[a] |->
               IF <<a, i>> \in written THEN r.store[<<a, i>>] ELSE mem[a][i]]]
  /\ calls' = [calls EXCEPT ![p] = NextChunk(f, r.acc)]
  /\ UNCHANGED job

LeafReturns(p) ==
  /\ At(p, "leaf") /\ calls[p].d = calls[p].n
  /\ calls' = [calls EXCEPT ![p].pc = "returned"]
  /\ UNCHANGED <<job, mem>>

-----------------------------------------------------------------------------

Step(p) ==
  \/ Cutoff(p) \/ Fork(p) \/ Serialized(p) \/ Stolen(p)
  \/ Join(p) \/ Combine(p) \/ CombineNext(p) \/ CombineReturns(p)
  \/ Checkout(p) \/ Apply(p) \/ LeafReturns(p)

Next == \E p \in DOMAIN calls : Step(p)

Spec == Init /\ [][Next]_vars

-----------------------------------------------------------------------------
(* Properties.                                                              *)

Reduced(f(_), n) == FlattenSeq([i \in 1..n |-> f(i - 1)])

\* What the documentation of each function promises.
Promised(j) ==
  LET src(i) == <<i + 1>>
      f(i)   == F(src(i))
      to(a, g(_)) == [InitialMem(j) EXCEPT ![a] = [i \in 0..(j.n - 1) |-> g(i)]]
      count(i) == F(<<i>>)
      value(i) == Value
      with(i) == <<i>> \o src(i)
      product(i) == src(i) \o <<i>>
      prefix(i) == Init0 \o Reduced(f, i + 1)
      prefixNoInit(i) == Reduced(f, i + 1)
      sums(i) == Init0 \o Reduced(src, i + 1)
      sumsNoInit(i) == Reduced(src, i + 1) IN
  CASE j.fn = "for_each" -> [mem |-> to("src", f), acc |-> Identity]
    [] j.fn = "for_each2" -> [mem |-> to("dst", count), acc |-> Identity]
    [] j.fn = "fill" -> [mem |-> to("dst", value), acc |-> Identity]
    [] j.fn = "transform" -> [mem |-> to(j.dst, f), acc |-> Identity]
    [] j.fn = "transform2" -> [mem |-> to(j.dst, with), acc |-> Identity]
    [] j.fn = "transform_reduce" -> [mem |-> InitialMem(j), acc |-> Reduced(f, j.n)]
    [] j.fn = "transform_reduce2" -> [mem |-> InitialMem(j), acc |-> Reduced(product, j.n)]
    [] j.fn = "scan" -> [mem |-> to(j.dst, prefix), acc |-> Init0 \o Reduced(f, j.n)]
    [] j.fn = "for_each3" -> [mem |-> [to("src", f) EXCEPT !.dst = to("dst", with).dst], acc |-> Identity]
    [] j.fn = "reduce" -> [mem |-> InitialMem(j), acc |-> Reduced(src, j.n)]
    [] j.fn = "transform_scan_no_init" -> [mem |-> to(j.dst, prefixNoInit), acc |-> Reduced(f, j.n)]
    [] j.fn = "inclusive_scan" -> [mem |-> to(j.dst, sums), acc |-> Init0 \o Reduced(src, j.n)]
    [] j.fn = "inclusive_scan_no_init" -> [mem |-> to(j.dst, sumsNoInit), acc |-> Reduced(src, j.n)]

AsPromised ==
  Returned(<<>>) /\ job.fn # "vector" =>
    /\ mem = Promised(job).mem
    /\ calls[<<>>].acc = Promised(job).acc

\* A parallel scan into a destination without automatic checkout.
IsDirectScan(j) == j.fn = "scan" /\ j.pol.par /\ j.mode = "no_access"

\* Whatever is stolen, a loop function does what it promises: every element is
\* processed once with its own partners, partial results are combined in the
\* order of the elements, and a scan's prefixes are complete.  (Parallel scans
\* without automatic checkout are the subject of ScanAsDocumented.)
ResultsAsPromised == ~IsDirectScan(job) => AsPromised

\* The documentation of transform_inclusive_scan, parallel_loop.hpp:1111-1113:
\* "the i-th element of the prefix sum is: init + f(*first1) + ... + f(*(first1 + i))".
ScanAsDocumented == job.fn = "scan" => AsPromised

\* Elements that a frame has in use, and those it writes.
Uses(f) == CheckedOut(f, {"read", "write", "read_write", "no_access"})
Writes(f) == CheckedOut(f, {"write", "read_write"}) \cup
             (IF f.op \in {"accumulate", "accumulate_as_is", "accumulate2", "construct_from"} THEN {}
              ELSE CheckedOut(f, {"no_access"}))

\* Loops are free of data races, which is what the cache requires: two tasks
\* that are at work at the same time never use an element that one of them writes.
NoDataRace ==
  \A p, q \in {r \in DOMAIN calls : calls[r].pc = "chunk"} :
    p # q => Uses(calls[p]) \cap Writes(calls[q]) = {}
=============================================================================
