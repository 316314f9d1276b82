------------------------------- MODULE ForkJoin -------------------------------
(***************************************************************************)
(* The memory consistency of fork-join programs: the fences that           *)
(* parallel_invoke, parallel_loop_generic, root_exec and coll_exec         *)
(* (include/ityr/pattern/) put around forks and joins, composed with what  *)
(* the scheduler and the software cache promise.                           *)
(*                                                                         *)
(*  - The scheduler (RandWs): child first, the parent's continuation waits *)
(*    in a deque and may be stolen; a stolen parent and its child meet at  *)
(*    the join, where the later of them goes on with the parent.           *)
(*  - The cache (CacheManager, ReleaseManager): a write stays in the cache *)
(*    of its worker until a release; what is cached stays, stale or not,   *)
(*    until an acquire; a handler of release_lazy names the epoch in which *)
(*    the release will have happened.                                      *)
(*                                                                         *)
(* A program is data: for every thread a sequence of operations.  begin    *)
(* and end enclose a parallel_invoke or one level of a parallel loop, the  *)
(* operations between its last fork and its first join are the task that   *)
(* is called and not forked.  A read names the value that the serial       *)
(* execution of the program reads.                                         *)
(***************************************************************************)
EXTENDS Integers, Sequences, FiniteSets

CONSTANTS
  Workers,
  Rank0,        \* the worker that starts the root thread
  Threads,
  Root,
  Locs,         \* locations in global memory
  Programs,     \* [code : threads' operations, before : SPMD writes, after : final values]
  NoValue,      \* not cached
  Nobody

ASSUME NamesAssumption ==
  Rank0 \in Workers /\ Root \in Threads /\ Nobody \notin Workers \cup Threads

VARIABLES
  prog,         \* the program
  \* the cache
  home,         \* home[l]: the value in home memory
  cache,        \* cache[w][l]: the cached value or NoValue
  dirty,        \* dirty[w]: written and not yet released
  epoch,        \* current_epoch
  \* the threads
  next,         \* next[t]: the operation thread t is at
  levels,       \* levels[t]: the open begins, [rh, ser] each, innermost last
  serialized,   \* th.serialized()
  ended,        \* threads that have ended after their parent was stolen
  joining,      \* threads suspended in join
  \* the workers
  at,           \* where a worker is
  run,          \* the thread it runs
  deque,        \* continuations, oldest first
  coll,         \* workers that have yet to execute the collective task
  rootDone      \* the root thread has ended

memVars == <<home, cache, dirty, epoch>>
threadVars == <<next, levels, serialized, ended, joining>>
workerVars == <<at, run, deque, coll, rootDone>>
vars == <<prog, memVars, threadVars, workerVars>>

Init ==
  /\ prog \in Programs
  /\ home = [l \in Locs |-> 0]
  /\ cache = [w \in Workers |-> [l \in Locs |-> NoValue]]
  /\ dirty = [w \in Workers |-> {}]
  /\ epoch = [w \in Workers |-> 1]
  /\ next = [t \in Threads |-> 1]
  /\ levels = [t \in Threads |-> <<>>]
  /\ serialized = [t \in Threads |-> FALSE]
  /\ ended = {}
  /\ joining = {}
  /\ at = [w \in Workers |-> "spmd"]
  /\ run = [w \in Workers |-> Nobody]
  /\ deque = [w \in Workers |-> <<>>]
  /\ coll = {}
  /\ rootDone = FALSE

-----------------------------------------------------------------------------
(* The cache, worker by worker.                                             *)

View(w, l) == IF cache[w][l] # NoValue THEN cache[w][l] ELSE home[l]

\* Mutant: the epoch is not increased.
ReleaseKeepsEpoch(w) ==
  /\ home' = [l \in Locs |-> IF l \in dirty[w] THEN cache[w][l] ELSE home[l]]
  /\ dirty' = [dirty EXCEPT ![w] = {}]
  /\ UNCHANGED <<epoch, cache>>

\* release: everything dirty reaches its home, which ends the epoch.
Release(w) ==
  /\ home' = [l \in Locs |-> IF l \in dirty[w] THEN cache[w][l] ELSE home[l]]
  /\ dirty' = [dirty EXCEPT ![w] = {}]
  /\ epoch' = [epoch EXCEPT ![w] = IF dirty[w] # {} THEN @ + 1 ELSE @]
  /\ UNCHANGED cache

\* acquire without a handler.
Acquire(w) ==
  /\ home' = [l \in Locs |-> IF l \in dirty[w] THEN cache[w][l] ELSE home[l]]
  /\ dirty' = [dirty EXCEPT ![w] = {}]
  /\ epoch' = [epoch EXCEPT ![w] = IF dirty[w] # {} THEN @ + 1 ELSE @]
  /\ cache' = [cache EXCEPT ![w] = [l \in Locs |-> NoValue]]

\* release_lazy.
ReleaseLazy(w) ==
  IF dirty[w] # {} THEN [rank |-> w, epoch |-> epoch[w] + 1]
  ELSE [rank |-> Rank0, epoch |-> 0]

\* What ensure_released waits for.
IsReleased(w, rh) == rh.rank = w \/ epoch[rh.rank] >= rh.epoch

\* checkin of a write; the cache may write back everything dirty at that point.
Store(w, l, v, spill) ==
  /\ cache' = [cache EXCEPT ![w][l] = v]
  /\ dirty' = [dirty EXCEPT ![w] = IF spill THEN {} ELSE @ \cup {l}]
  /\ home' = IF spill THEN [k \in Locs |-> IF k \in dirty[w] \cup {l} THEN cache'[w][k] ELSE home[k]]
             ELSE home
  /\ epoch' = [epoch EXCEPT ![w] = IF spill THEN @ + 1 ELSE @]

\* checkout of a read; the fetch may be padded to other locations.
Load(w, l, pad) ==
  /\ cache' = [cache EXCEPT ![w] =
                 [k \in Locs |-> IF k = l \/ pad THEN View(w, k) ELSE cache[w][k]]]
  /\ UNCHANGED <<home, dirty, epoch>>

-----------------------------------------------------------------------------
(* Threads.                                                                 *)

Code(t) == prog.code[t]
Op(t) == Code(t)[next[t]]
At(w, do) == at[w] = "run" /\ next[run[w]] <= Len(Code(run[w])) /\ Op(run[w]).do = do
Level(t) == levels[t][Len(levels[t])]
Step(t) == next' = [next EXCEPT ![t] = @ + 1]

\* User code.
Write(w, spill) ==
  LET t == run[w] IN
  /\ At(w, "write")
  /\ Store(w, Op(t).loc, Op(t).val, spill)
  /\ Step(t)
  /\ UNCHANGED <<prog, levels, serialized, ended, joining, workerVars>>

Read(w, pad) ==
  LET t == run[w] IN
  /\ At(w, "read")
  /\ Load(w, Op(t).loc, pad)
  /\ Step(t)
  /\ UNCHANGED <<prog, levels, serialized, ended, joining, workerVars>>

\* parallel_invoke up to its first fork.  The inner levels of a parallel loop
\* use the handler of the outermost one.
Begin(w) ==
  LET t  == run[w]
      rh == IF Op(t).own THEN ReleaseLazy(w) ELSE Level(t).rh IN
  /\ At(w, "begin")
  /\ levels' = [levels EXCEPT ![t] = Append(@, [rh |-> rh, ser |-> TRUE])]
  /\ Step(t)
  /\ UNCHANGED <<prog, memVars, serialized, ended, joining, workerVars>>

\* Some worker waits in ensure_released for an epoch of w.
Requested(w) ==
  \E v \in Workers \ {w} : /\ at[v] = "drift"
                           /\ Level(run[v]).rh.rank = w
                           /\ Level(run[v]).rh.epoch > epoch[w]

\* A fork: poll, then the child runs, with the handler of its parent at hand,
\* and the parent waits in the deque.
Fork(w) ==
  LET t == run[w]
      c == Op(t).child IN
  /\ At(w, "fork")
  /\ IF Requested(w) THEN Release(w) ELSE UNCHANGED memVars
  /\ deque' = [deque EXCEPT ![w] = Append(@, t)]
  /\ run' = [run EXCEPT ![w] = c]
  /\ levels' = [levels EXCEPT ![c] = <<Level(t)>>]
  /\ UNCHANGED <<prog, next, serialized, ended, joining, at, coll, rootDone>>

\* Mutant: all_serialized_ is the outcome of the last fork.
AfterForkLast(t, c, ser) ==
  /\ serialized' = [serialized EXCEPT ![c] = ser]
  /\ levels' = [levels EXCEPT ![t][Len(levels[t])].ser = ser]

\* The parent goes on after the fork of c: all_serialized_ &= th.serialized().
AfterFork(t, c, ser) ==
  /\ serialized' = [serialized EXCEPT ![c] = ser]
  /\ levels' = [levels EXCEPT ![t][Len(levels[t])].ser = @ /\ ser]

\* A thread ends and pops its parent: it was serialized.
DieSerialized(w) ==
  LET c == run[w]
      t == deque[w][Len(deque[w])] IN
  /\ at[w] = "run" /\ next[c] > Len(Code(c)) /\ c # Root
  /\ deque[w] # <<>>
  /\ deque' = [deque EXCEPT ![w] = SubSeq(@, 1, Len(@) - 1)]
  /\ run' = [run EXCEPT ![w] = t]
  /\ AfterFork(t, c, TRUE)
  /\ Step(t)
  /\ UNCHANGED <<prog, memVars, ended, joining, at, coll, rootDone>>

\* The worker goes back to its scheduling loop.
ToSched(w) ==
  /\ at' = [at EXCEPT ![w] = "sched"]
  /\ run' = [run EXCEPT ![w] = Nobody]

\* Thread c has ended on w, which goes on with the parent if that waits in join.
Hands(w, c) ==
  LET waits == {t \in joining : Op(t).child = c} IN
  /\ ended' = ended \cup {c}
  /\ joining' = joining \ waits
  /\ IF waits = {} THEN ToSched(w) /\ UNCHANGED next
     ELSE \E t \in waits : /\ run' = [run EXCEPT ![w] = t]
                           /\ Step(t)
                           /\ UNCHANGED at

\* Mutant: a drifted thread ends without a release.
DieDriftedNoRelease(w) ==
  LET c == run[w] IN
  /\ at[w] = "run" /\ next[c] > Len(Code(c)) /\ c # Root
  /\ deque[w] = <<>>
  /\ UNCHANGED memVars
  /\ Hands(w, c)
  /\ UNCHANGED <<prog, levels, serialized, deque, coll, rootDone>>

\* A thread ends and its parent has been stolen: the callback releases, and
\* the parent goes on here if it waits in join already.
DieDrifted(w) ==
  LET c == run[w] IN
  /\ at[w] = "run" /\ next[c] > Len(Code(c)) /\ c # Root
  /\ deque[w] = <<>>
  /\ Release(w)
  /\ Hands(w, c)
  /\ UNCHANGED <<prog, levels, serialized, deque, coll, rootDone>>

\* A worker in the scheduling loop steals the oldest continuation of another;
\* the callback's acquire cleans the thief's own cache and then waits.
Steal(w, v) ==
  LET t == Head(deque[v]) IN
  /\ at[w] = "sched" /\ w # v /\ deque[v] # <<>>
  /\ deque' = [deque EXCEPT ![v] = Tail(@)]
  /\ run' = [run EXCEPT ![w] = t]
  /\ at' = [at EXCEPT ![w] = "drift"]
  /\ AfterFork(t, Op(t).child, FALSE)
  /\ Release(w)
  /\ UNCHANGED <<prog, next, ended, joining, coll, rootDone>>

\* The end of acquire(rh) in the callback of a stolen continuation.
DriftAcquires(w) ==
  /\ at[w] = "drift"
  /\ IsReleased(w, Level(run[w]).rh)
  /\ Acquire(w)
  /\ at' = [at EXCEPT ![w] = "run"]
  /\ Step(run[w])
  /\ UNCHANGED <<prog, levels, serialized, ended, joining, run, deque, coll, rootDone>>

\* join of a serialized thread returns at once.
JoinSerialized(w) ==
  /\ At(w, "join")
  /\ serialized[Op(run[w]).child]
  /\ Step(run[w])
  /\ UNCHANGED <<prog, memVars, levels, serialized, ended, joining, workerVars>>

\* Otherwise the cache is released first, and the thread is suspended if the
\* other has not ended.
JoinDrifted(w) ==
  LET t == run[w]
      c == Op(t).child IN
  /\ At(w, "join")
  /\ ~serialized[c]
  /\ Release(w)
  /\ IF c \in ended THEN Step(t) /\ UNCHANGED <<joining, at, run>>
     ELSE joining' = joining \cup {t} /\ ToSched(w) /\ UNCHANGED next
  /\ UNCHANGED <<prog, levels, serialized, ended, deque, coll, rootDone>>

\* The end of parallel_invoke: an acquire unless everything was serialized.
End(w) ==
  LET t == run[w] IN
  /\ At(w, "end")
  /\ IF Level(t).ser THEN UNCHANGED memVars ELSE Acquire(w)
  /\ levels' = [levels EXCEPT ![t] = SubSeq(@, 1, Len(@) - 1)]
  /\ Step(t)
  /\ UNCHANGED <<prog, serialized, ended, joining, workerVars>>

\* poll where parallel_loop_generic starts on a range it does not split.
LeafPoll(w) ==
  /\ At(w, "poll")
  /\ IF Requested(w) THEN Release(w) ELSE UNCHANGED memVars
  /\ Step(run[w])
  /\ UNCHANGED <<prog, levels, serialized, ended, joining, workerVars>>

\* poll in the scheduling loop.
Poll(w) ==
  /\ at[w] = "sched"
  /\ IF Requested(w) THEN Release(w) ELSE UNCHANGED memVars
  /\ UNCHANGED <<prog, threadVars, workerVars>>

-----------------------------------------------------------------------------
(* root_exec and coll_exec.                                                 *)

\* SPMD code: every worker writes its location.
SpmdWrite(w) ==
  /\ at[w] = "spmd"
  /\ Store(w, prog.before[w].loc, prog.before[w].val, FALSE)
  /\ at' = [at EXCEPT ![w] = "written"]
  /\ UNCHANGED <<prog, threadVars, run, deque, coll, rootDone>>

\* root_exec: the release before its first barrier.
RootExec(w) ==
  /\ at[w] = "written"
  /\ Release(w)
  /\ at' = [at EXCEPT ![w] = "enter"]
  /\ UNCHANGED <<prog, threadVars, run, deque, coll, rootDone>>

\* The acquire after the barrier; the first worker starts the root thread.
RootStart(w) ==
  /\ at[w] = "enter"
  /\ \A v \in Workers : at[v] \notin {"spmd", "written"}
  /\ Acquire(w)
  /\ at' = [at EXCEPT ![w] = IF w = Rank0 THEN "run" ELSE "sched"]
  /\ run' = [run EXCEPT ![w] = IF w = Rank0 THEN Root ELSE Nobody]
  /\ UNCHANGED <<prog, threadVars, deque, coll, rootDone>>

\* on_root_die.
RootDies(w) ==
  /\ at[w] = "run" /\ run[w] = Root /\ next[Root] > Len(Code(Root))
  /\ rootDone' = TRUE
  /\ ToSched(w)
  /\ UNCHANGED <<prog, memVars, threadVars, deque, coll>>

\* root_exec after the scheduling loop: the release before the last barrier.
RootReturns(w) ==
  /\ at[w] = "sched" /\ rootDone
  /\ Release(w)
  /\ at' = [at EXCEPT ![w] = "leave"]
  /\ UNCHANGED <<prog, threadVars, run, deque, coll, rootDone>>

\* The acquire after the last barrier.
RootExecEnds(w) ==
  /\ at[w] = "leave"
  /\ \A v \in Workers : at[v] \in {"leave", "after"}
  /\ Acquire(w)
  /\ at' = [at EXCEPT ![w] = "after"]
  /\ UNCHANGED <<prog, threadVars, run, deque, coll, rootDone>>

\* coll_exec of the root thread: a release, then every worker executes the task.
CollCall(w) ==
  /\ At(w, "coll")
  /\ Release(w)
  /\ at' = [at EXCEPT ![w] = "coll"]
  /\ coll' = Workers
  /\ UNCHANGED <<prog, threadVars, run, deque, rootDone>>

\* The collective task on one worker, from the scheduling loop or from the
\* caller: acquire, a write by fn, release.
CollTask(w, pad) ==
  LET put == Op(Root).puts[w] IN
  /\ w \in coll /\ at[w] \in {"sched", "coll"}
  /\ coll' = coll \ {w}
  /\ home' = [l \in Locs |-> IF l = put.loc THEN put.val
                             ELSE IF l \in dirty[w] THEN cache[w][l] ELSE home[l]]
  /\ cache' = [cache EXCEPT ![w] = [l \in Locs |-> IF l = put.loc THEN put.val
                                                  ELSE IF pad THEN home'[l] ELSE NoValue]]
  /\ dirty' = [dirty EXCEPT ![w] = {}]
  /\ epoch' = [epoch EXCEPT ![w] = @ + (IF dirty[w] # {} THEN 2 ELSE 1)]
  /\ UNCHANGED <<prog, threadVars, at, run, deque, rootDone>>

\* coll_exec returns when every worker has executed the task, and acquires.
CollReturns(w) ==
  /\ at[w] = "coll" /\ coll = {}
  /\ Acquire(w)
  /\ at' = [at EXCEPT ![w] = "run"]
  /\ Step(run[w])
  /\ UNCHANGED <<prog, levels, serialized, ended, joining, run, deque, coll, rootDone>>

-----------------------------------------------------------------------------
\* What a worker does by itself; stealing is a matter of luck.
WorkerStep(w) ==
  \/ \E b \in BOOLEAN : Write(w, b) \/ Read(w, b) \/ CollTask(w, b)
  \/ Begin(w) \/ Fork(w) \/ DieSerialized(w) \/ DieDrifted(w) \/ DriftAcquires(w)
  \/ JoinSerialized(w) \/ JoinDrifted(w) \/ End(w) \/ LeafPoll(w)
  \/ SpmdWrite(w) \/ RootExec(w) \/ RootStart(w) \/ RootDies(w) \/ RootReturns(w) \/ RootExecEnds(w)
  \/ CollCall(w) \/ CollReturns(w)

Next == \E w \in Workers : WorkerStep(w) \/ Poll(w) \/ \E v \in Workers : Steal(w, v)

Spec == Init /\ [][Next]_vars

\* Every worker is a process that keeps running.
FairSpec == Spec /\ \A w \in Workers : WF_vars(WorkerStep(w)) /\ WF_vars(Poll(w))

-----------------------------------------------------------------------------
\* A thread about to read sees the value that the serial execution of the
\* program reads, whatever was stolen and wherever its code has run, and after
\* root_exec every worker sees what the threads and collective tasks have
\* written.
ReadsSerial ==
  \A w \in Workers :
    /\ At(w, "read") => View(w, Op(run[w]).loc) = Op(run[w]).val
    /\ at[w] = "after" => \A l \in Locs : View(w, l) = prog.after[l]

\* No location is dirty on two workers: a late write-back never overwrites a
\* newer value.
OneDirtyCopy ==
  \A w, v \in Workers : w # v => dirty[w] \cap dirty[v] = {}

\* The program ends; no worker waits for ever for an epoch, a join or a barrier.
Terminates == <>(\A w \in Workers : at[w] = "after")
=============================================================================
