----------------------------- MODULE GlobalVector -----------------------------
(***************************************************************************)
(* global_vector and checkout_span (include/ityr/container/): vectors in   *)
(* global memory whose elements are constructed, moved and destroyed by    *)
(* the loops of ParallelLoop, possibly in parallel.                        *)
(*                                                                         *)
(* An operation is unfolded into its steps (allocate, set the members, run *)
(* a loop over elements, free), which are taken one after the other; the   *)
(* loops run step by step.  Next to every vector its contents as an        *)
(* abstract sequence is kept, as std::vector would have them.              *)
(***************************************************************************)
EXTENDS ParallelLoop

CONSTANTS
  Vectors,      \* names
  Blocks,       \* names of memory blocks: one more than vectors
  Counts,       \* arguments of the operations
  MaxSize,      \* bound on the size of a vector
  MaxOps        \* bound on the number of operations

VARIABLES
  vec,          \* vec[v]: [opts, b (block or Null), size, cap]
  heap,         \* heap[b]: [cap, coll] of the allocated blocks
  todo,         \* steps left of the current operation
  ops,          \* operations done
  seq           \* seq[v]: the abstract contents

vecVars == <<vec, heap, todo, ops, seq>>
allVars == <<vars, vecVars>>

Null == "null"
ASSUME VectorAssumption ==
  /\ IsFiniteSet(Vectors) /\ IsFiniteSet(Blocks)
  /\ Cardinality(Vectors) < Cardinality(Blocks) /\ Null \notin Blocks
  /\ Counts \subseteq Nat
  /\ \A j \in Jobs : j.fn = "vector" =>
       j.opts \in [Vectors -> [coll : BOOLEAN, construct : BOOLEAN, destruct : BOOLEAN, cutoff : Nat \ {0}]]

Def == <<4>>    \* the value of resize and of the constructor
New == <<3>>    \* the value of push_back

\* The default constructor.
Empty(opts) == [opts |-> opts, b |-> Null, size |-> 0, cap |-> 0]

\* A loop of ParallelLoop without vectors, or vectors with the options job.opts.
VecInit ==
  /\ \/ Init /\ vec = <<>> /\ seq = <<>>
     \/ /\ job \in {j \in Jobs : j.fn = "vector"}
        /\ mem = [b \in Blocks |-> <<>>]
        /\ calls = <<>>
        /\ vec = [v \in Vectors |-> Empty(job.opts[v])]
        /\ seq = [v \in Vectors |-> <<>>]
  /\ heap = <<>>
  /\ todo = <<>>
  /\ ops = 0

-----------------------------------------------------------------------------
(* Steps.                                                                   *)

Alloc(b, x, cap) == <<[do |-> "alloc", b |-> b, cap |-> cap, coll |-> x.opts.coll]>>
Free(x) == <<[do |-> "free", b |-> x.b, cap |-> x.cap, coll |-> x.opts.coll]>>
Set(v, x) == <<[do |-> "set", v |-> v, x |-> x]>>
Loop(f) == <<[do |-> "loop", f |-> f]>>

Policy(opts, par) == [par |-> par, cutoff |-> opts.cutoff, checkout |-> opts.cutoff]
Iter(b, at, mode) == [arr |-> b, at |-> at, mode |-> mode]

\* construct_elems on the elements from..(to - 1).
ConstructElems(x, from, to, value) ==
  Loop(Frame(Policy(x.opts, x.opts.construct), "loop", "construct", value,
             <<Iter(x.b, from, "write")>>, to - from))

\* construct_elems_from_iter.
ConstructElemsFrom(x, it, op, n) ==
  Loop(Frame(Policy(x.opts, x.opts.construct), "loop", op, Identity,
             <<it, Iter(x.b, 0, "write")>>, n))

\* destruct_elems.
DestructElems(x, from, to) ==
  Loop(Frame(Policy(x.opts, x.opts.destruct), "loop", "destroy", Identity,
             <<Iter(x.b, from, "read_write")>>, to - from))

\* The destructor.
Destroy(x) ==
  IF x.b = Null THEN <<>> ELSE DestructElems(x, 0, x.size) \o Free(x)

FreshBlock == CHOOSE b \in Blocks : b \notin DOMAIN heap

\* initialize_from_iter of n elements of an iterator into vector v with options o.
InitializeFromIter(v, o, it, n) ==
  LET x == [opts |-> o, b |-> FreshBlock, size |-> n, cap |-> n] IN
  IF n = 0 THEN Set(v, Empty(o))
  ELSE Alloc(x.b, x, n) \o Set(v, x) \o ConstructElemsFrom(x, it, "construct_from", n)

\* initialize_uniform.
InitializeUniform(v, o, n) ==
  LET x == [opts |-> o, b |-> FreshBlock, size |-> n, cap |-> n] IN
  Alloc(x.b, x, n) \o Set(v, x) \o ConstructElems(x, 0, n, Def)

\* What vector x is after realloc_mem.
Reallocated(x, cap) == [x EXCEPT !.b = FreshBlock, !.cap = cap]

\* Mutant: the moved-from elements are left as they are.
ReallocMemNoDestroy(v, x, cap) ==
  LET y == Reallocated(x, cap) IN
  Alloc(y.b, y, cap) \o Set(v, y)
  \o (IF x.size > 0
      THEN ConstructElemsFrom(y, Iter(x.b, 0, "read_write"), "move_construct", x.size) ELSE <<>>)
  \o (IF x.cap > 0 THEN Free(x) ELSE <<>>)

\* realloc_mem: the elements move into new memory.
ReallocMem(v, x, cap) ==
  LET y == Reallocated(x, cap) IN
  Alloc(y.b, y, cap) \o Set(v, y)
  \o (IF x.size > 0
      THEN ConstructElemsFrom(y, Iter(x.b, 0, "read_write"), "move_construct", x.size)
           \o DestructElems(x, 0, x.size)
      ELSE <<>>)
  \o (IF x.cap > 0 THEN Free(x) ELSE <<>>)

NextSize(x, least) == IF least > x.size * 2 THEN least ELSE x.size * 2

-----------------------------------------------------------------------------
(* Operations of the user.                                                  *)

Idle == todo = <<>> /\ calls = <<>> /\ job.fn = "vector" /\ ops < MaxOps

\* An operation with the steps st, after which the contents are s.
Call(st, s) ==
  /\ Idle
  /\ todo' = st
  /\ ops' = ops + 1
  /\ seq' = s
  /\ UNCHANGED <<vars, vec, heap>>

Assigned(v, s) == [seq EXCEPT ![v] = s]
Const(n, val) == [i \in 1..n |-> val]
Counting(n) == [i \in 1..n |-> <<i - 1>>]

\* A vector goes out of scope and its name is used for a new one.  With count
\* 0 the uniform constructor would ask for no memory, which malloc refuses.
Construct(v, n) ==
  /\ n > 0
  /\ Call(Destroy(vec[v]) \o InitializeUniform(v, vec[v].opts, n), Assigned(v, Const(n, Def)))

ConstructFromIter(v, n) ==
  Call(Destroy(vec[v]) \o InitializeFromIter(v, vec[v].opts, Iter("count", 0, "plain"), n),
       Assigned(v, Counting(n)))

\* A vector is left empty.
Destruct(v) == Call(Destroy(vec[v]) \o Set(v, Empty(vec[v].opts)), Assigned(v, <<>>))

\* operator=(const&), never from itself.
CopyAssign(v, w) ==
  /\ v # w
  /\ Call(Destroy(vec[v])
            \o InitializeFromIter(v, vec[w].opts, Iter(vec[w].b, 0, "no_access"), vec[w].size),
          Assigned(v, seq[w]))

\* Mutant: the source keeps its pointers.
MoveAssignKeeps(v, w) ==
  Call(Destroy(vec[v]) \o Set(v, vec[w]), [seq EXCEPT ![v] = seq[w], ![w] = <<>>])

\* operator=(&&); the moved-from vector is empty and keeps its options.
MoveAssign(v, w) ==
  Call(Destroy(vec[v]) \o Set(v, vec[w]) \o Set(w, Empty(vec[w].opts)),
       [seq EXCEPT ![v] = seq[w], ![w] = <<>>])

\* Mutant: the options are not swapped.
SwapKeepsOpts(v, w) ==
  Call(Set(v, [vec[w] EXCEPT !.opts = vec[v].opts]) \o Set(w, [vec[v] EXCEPT !.opts = vec[w].opts]),
       [seq EXCEPT ![v] = seq[w], ![w] = seq[v]])

Swap(v, w) ==
  Call(Set(v, vec[w]) \o Set(w, vec[v]), [seq EXCEPT ![v] = seq[w], ![w] = seq[v]])

Clear(v) ==
  Call(DestructElems(vec[v], 0, vec[v].size) \o Set(v, [vec[v] EXCEPT !.size = 0]),
       Assigned(v, <<>>))

Reserve(v, cap) ==
  LET x == vec[v]
      y == Reallocated(x, cap) IN
  Call(IF x.cap = 0 /\ cap > 0 THEN Alloc(y.b, y, cap) \o Set(v, y)
       ELSE IF cap > x.cap THEN ReallocMem(v, x, cap) ELSE <<>>,
       seq)

\* resize_impl.
Resize(v, n) ==
  LET x == vec[v]
      y == IF n > x.cap THEN Reallocated(x, NextSize(x, n)) ELSE x IN
  Call(IF n > x.size
       THEN (IF n > x.cap THEN ReallocMem(v, x, NextSize(x, n)) ELSE <<>>)
            \o ConstructElems(y, x.size, n, Def) \o Set(v, [y EXCEPT !.size = n])
       ELSE IF n < x.size THEN DestructElems(x, n, x.size) \o Set(v, [x EXCEPT !.size = n])
       ELSE <<>>,
       Assigned(v, [i \in 1..n |-> IF i <= Len(seq[v]) THEN seq[v][i] ELSE Def]))

\* make_checkout(end, 1): one element, checked out, used and checked in.
OneElem(x, op, value, mode, i) ==
  Loop(Frame([par |-> FALSE, cutoff |-> 0, checkout |-> 1], "loop", op, value,
             <<Iter(x.b, i, mode)>>, 1))

NeedsMemory(x) == x.size = x.cap

\* push_back_impl, refused for collective vectors.
PushBack(v) ==
  LET x == vec[v]
      y == IF NeedsMemory(x) THEN Reallocated(x, NextSize(x, x.size + 1)) ELSE x IN
  /\ ~x.opts.coll /\ x.size < MaxSize
  /\ Call((IF NeedsMemory(x) THEN ReallocMem(v, x, NextSize(x, x.size + 1)) ELSE <<>>)
            \o OneElem(y, "construct", New, "write", x.size) \o Set(v, [y EXCEPT !.size = @ + 1]),
          Assigned(v, Append(seq[v], New)))

PopBack(v) ==
  LET x == vec[v] IN
  /\ ~x.opts.coll /\ x.size > 0
  /\ Call(OneElem(x, "destroy", Identity, "read_write", x.size - 1)
            \o Set(v, [x EXCEPT !.size = @ - 1]),
          Assigned(v, Front(seq[v])))

-----------------------------------------------------------------------------
(* The steps of an operation, in order.                                     *)

AllocateMem ==
  /\ todo # <<>> /\ Head(todo).do = "alloc" /\ calls = <<>>
  /\ heap' = [b \in DOMAIN heap \cup {Head(todo).b} |->
              IF b = Head(todo).b THEN [cap |-> Head(todo).cap, coll |-> Head(todo).coll] ELSE heap[b]]
  /\ mem' = [mem EXCEPT ![Head(todo).b] = [i \in 0..(Head(todo).cap - 1) |-> Raw]]
  /\ todo' = Tail(todo)
  /\ UNCHANGED <<job, calls, vec, ops, seq>>

FreeMem ==
  /\ todo # <<>> /\ Head(todo).do = "free" /\ calls = <<>>
  /\ heap' = [b \in DOMAIN heap \ {Head(todo).b} |-> heap[b]]
  /\ mem' = [mem EXCEPT ![Head(todo).b] = <<>>]
  /\ todo' = Tail(todo)
  /\ UNCHANGED <<job, calls, vec, ops, seq>>

SetMembers ==
  /\ todo # <<>> /\ Head(todo).do = "set" /\ calls = <<>>
  /\ vec' = [vec EXCEPT ![Head(todo).v] = Head(todo).x]
  /\ todo' = Tail(todo)
  /\ UNCHANGED <<vars, heap, ops, seq>>

StartLoop ==
  /\ todo # <<>> /\ Head(todo).do = "loop" /\ calls = <<>>
  /\ calls' = [p \in {<<>>} |-> Head(todo).f]
  /\ UNCHANGED <<job, mem, vecVars>>

EndLoop ==
  /\ todo # <<>> /\ Returned(<<>>)
  /\ calls' = <<>>
  /\ todo' = Tail(todo)
  /\ UNCHANGED <<job, mem, vec, heap, ops, seq>>

Operation(v) ==
  \/ \E n \in Counts : Construct(v, n) \/ ConstructFromIter(v, n) \/ Reserve(v, n) \/ Resize(v, n)
  \/ \E w \in Vectors : CopyAssign(v, w) \/ MoveAssign(v, w) \/ Swap(v, w)
  \/ Destruct(v) \/ Clear(v) \/ PushBack(v) \/ PopBack(v)

VecNext ==
  \/ Next /\ UNCHANGED vecVars
  \/ AllocateMem \/ FreeMem \/ SetMembers \/ StartLoop \/ EndLoop
  \/ job.fn = "vector" /\ \E v \in Vectors : Operation(v)

VecSpec == VecInit /\ [][VecNext]_allVars

-----------------------------------------------------------------------------
(* Properties.                                                              *)

Between == todo = <<>> /\ calls = <<>> /\ job.fn = "vector"

\* The loops that construct or destroy elements at this moment.
Lifetime == {f \in {calls[p] : p \in DOMAIN calls} :
               f.pc = "chunk" /\ f.op \in {"construct", "construct_from", "move_construct", "destroy"}}

IsAllocated(e) == e[1] \in DOMAIN heap /\ e[2] \in DOMAIN mem[e[1]]

\* Every object is constructed once and destroyed once: a constructor runs on
\* allocated memory without an object, a copy or a move starts from an object
\* that has its value, a destructor runs on an object, and memory is freed when
\* it holds no object.
ObjectLifetimes ==
  /\ \A f \in Lifetime :
       /\ \A e \in Uses(f) : IsAllocated(e) \/ e[1] = "count"
       /\ f.op # "destroy" => \A e \in CheckedOut(f, {"write"}) : Load(e) = Raw
       /\ f.op = "destroy" => \A e \in Uses(f) : Load(e) # Raw
       /\ \A e \in CheckedOut(f, {"no_access"}) : Load(e) \notin {Raw, Moved}
       /\ f.op = "move_construct" =>
            \A e \in CheckedOut(f, {"read_write"}) : Load(e) \notin {Raw, Moved}
  /\ todo # <<>> /\ Head(todo).do = "free" =>
       \A i \in DOMAIN mem[Head(todo).b] : mem[Head(todo).b][i] = Raw

\* Memory belongs to one vector and is freed as it was allocated: by free_coll
\* or by free, with its capacity, and none is lost.
MemoryOwned ==
  /\ todo # <<>> /\ Head(todo).do = "free" =>
       /\ Head(todo).b \in DOMAIN heap
       /\ heap[Head(todo).b] = [cap |-> Head(todo).cap, coll |-> Head(todo).coll]
  /\ Between =>
       /\ DOMAIN heap = {vec[v].b : v \in Vectors} \ {Null}
       /\ \A v, w \in Vectors : v # w /\ vec[v].b # Null => vec[v].b # vec[w].b

\* Between operations a vector holds what a std::vector would hold.
ContentsAsVector ==
  Between => \A v \in Vectors :
    seq[v] = [i \in 1..vec[v].size |-> mem[vec[v].b][i - 1]]
=============================================================================
