------------------------------- MODULE RandWs -------------------------------
(***************************************************************************)
(* The random work-stealing scheduler of ityr::ito, scheduler_randws       *)
(* (include/ityr/ito/sched/randws.hpp), with worker::root_exec around it.  *)
(*                                                                         *)
(* fork runs the child at once and leaves the parent's continuation in the *)
(* worker's queue, where another worker may steal it.  A child that ends   *)
(* pops that continuation and goes on with it (it was serialized); if it   *)
(* was stolen, the child and the parent's join race on resume_flag of the  *)
(* thread state, and the later one goes on with the join.                  *)
(*                                                                         *)
(* Frames live at the same address on every worker (callstack), so a frame *)
(* is destroyed on a worker when a frame that is not below it is put on    *)
(* the same stack.  The queue is what WsDeque promises.                    *)
(***************************************************************************)
EXTENDS Integers, Sequences, FiniteSets

CONSTANTS
  MaxRanks,     \* bound: number of workers
  Threads,
  Root,
  Programs,     \* records [ranks, body], body[t] the forks and joins of thread t
  Nobody

\* What a thread does: fork and join other threads, and collective tasks (CollExec).
Operations == [do : {"fork", "join"}, child : Threads \ {Root}] \cup [do : {"coll"}]
ForkOf(c) == [do |-> "fork", child |-> c]
JoinOf(c) == [do |-> "join", child |-> c]

ASSUME ThreadAssumption ==
  /\ MaxRanks \in Nat \ {0} /\ Root \in Threads /\ Nobody \notin Threads \cup 0..MaxRanks
  /\ \A p \in Programs :
       /\ p.ranks \in 1..MaxRanks /\ p.body \in [Threads -> Seq(Operations)]
       \* A thread is forked once, and joined at most once, by the thread that has
       \* forked it.
       /\ \A t, u, c \in Threads : \A k \in DOMAIN p.body[t], m \in DOMAIN p.body[u] :
            /\ p.body[t][k] = ForkOf(c) /\ p.body[u][m] = ForkOf(c) => t = u /\ k = m
            /\ p.body[t][k] = JoinOf(c) /\ p.body[u][m] = JoinOf(c) => t = u /\ k = m
       /\ \A t, c \in Threads : \A k \in DOMAIN p.body[t] :
            p.body[t][k] = JoinOf(c) => \E m \in 1..(k - 1) : p.body[t][m] = ForkOf(c)

VARIABLES
  prog,         \* the program that is run
  pc,           \* where a worker is
  cur,          \* the thread it runs, or the one it is stealing
  victim,       \* the worker it steals from
  queue,        \* wsq_: threads whose continuation can be stolen, oldest first
  lock,         \* who holds the lock of the queue for a steal
  next,         \* next[t]: where thread t goes on
  frames,       \* frames[w]: threads whose frame on w's stack is intact and current
  state,        \* thread_state: "none", "allocated" or "freed"
  flag,         \* resume_flag
  retval,       \* retval has been put
  suspended,    \* suspended: the joining thread
  serialized,   \* thread_handler.serialized
  evacuated,    \* threads whose frame is in suspended_thread_allocator_
  entered       \* sched_loop_exit_req_ # MPI_REQUEST_NULL

tsVars == <<state, flag, retval, suspended, serialized>>
vars == <<prog, pc, cur, victim, queue, lock, next, frames, tsVars, evacuated, entered>>

Workers == 0..(prog.ranks - 1)
Rank0 == 0
Prog == prog.body

Forks(t, c) == \E i \in DOMAIN Prog[t] : Prog[t][i] = ForkOf(c)

Parent == [c \in Threads \ {Root} |-> CHOOSE t \in Threads : Forks(t, c)]

\* The threads that t descends from: they are in every set that has the parent of
\* t and the parents of its members.
Ancestors(t) ==
  {a \in Threads :
     \A S \in SUBSET Threads :
       (\A c \in S \cup {t}, p \in Threads : Forks(p, c) => p \in S) => a \in S}

\* t goes on with its frame on w's stack; copies on other stacks are stale.
PutFrame(w, t) ==
  frames' = [v \in Workers |-> IF v = w THEN (frames[w] \cap Ancestors(t)) \cup {t}
                               ELSE frames[v] \ {t}]

Init ==
  /\ prog \in Programs
  /\ pc = [w \in Workers |-> IF w = Rank0 THEN "run" ELSE "sched"]
  /\ cur = [w \in Workers |-> IF w = Rank0 THEN Root ELSE Nobody]
  /\ victim = [w \in Workers |-> Nobody]
  /\ queue = [w \in Workers |-> <<>>]
  /\ lock = [w \in Workers |-> Nobody]
  /\ next = [t \in Threads |-> 1]
  /\ frames = [w \in Workers |-> IF w = Rank0 THEN {Root} ELSE {}]
  /\ state = [t \in Threads |-> IF t = Root THEN "allocated" ELSE "none"]
  /\ flag = [t \in Threads |-> 0]
  /\ retval = [t \in Threads |-> FALSE]
  /\ suspended = [t \in Threads |-> Nobody]
  /\ serialized = [t \in Threads |-> FALSE]
  /\ evacuated = {}
  /\ entered = [w \in Workers |-> FALSE]

Goto(w, l) == pc' = [pc EXCEPT ![w] = l]

Does(w, what) ==
  /\ pc[w] = "run"
  /\ next[cur[w]] <= Len(Prog[cur[w]])
  /\ Prog[cur[w]][next[cur[w]]].do = what

\* The thread that the next fork or join of w's thread is about.
Child(w) == Prog[cur[w]][next[cur[w]]].child

\* resume_sched.
ToSched(w) == Goto(w, "sched") /\ cur' = [cur EXCEPT ![w] = Nobody]

-----------------------------------------------------------------------------
(* fork, and the end of a thread.                                           *)

Fork(w) ==
  LET c == Child(w) IN
  /\ Does(w, "fork")
  /\ state' = [state EXCEPT ![c] = "allocated"]
  /\ queue' = [queue EXCEPT ![w] = Append(@, cur[w])]
  /\ next' = [next EXCEPT ![cur[w]] = @ + 1]
  /\ cur' = [cur EXCEPT ![w] = c]
  /\ PutFrame(w, c)
  /\ UNCHANGED <<prog, pc, victim, lock, flag, retval, suspended, serialized, evacuated, entered>>

ThreadEnds(w) ==
  /\ pc[w] = "run"
  /\ next[cur[w]] > Len(Prog[cur[w]])
  /\ Goto(w, IF cur[w] = Root THEN "rootDie" ELSE "die")
  /\ UNCHANGED <<prog, cur, victim, queue, lock, next, frames, tsVars, evacuated, entered>>

\* on_die: the queue is not empty.  What was popped is not looked at: the code
\* returns into the frame that the child was called from.
DieSerialized(w) ==
  LET c == cur[w] IN
  /\ pc[w] = "die"
  /\ queue[w] # <<>>
  /\ queue' = [queue EXCEPT ![w] = SubSeq(@, 1, Len(@) - 1)]
  /\ state' = [state EXCEPT ![c] = "freed"]
  /\ serialized' = [serialized EXCEPT ![c] = TRUE]
  /\ cur' = [cur EXCEPT ![w] = Parent[c]]
  /\ Goto(w, "run")
  /\ UNCHANGED <<prog, victim, lock, next, frames, flag, retval, suspended, evacuated, entered>>

\* on_die: the queue is empty, and no thief is busy with it.
DieDrifted(w) ==
  /\ pc[w] = "die"
  /\ queue[w] = <<>>
  /\ lock[w] = Nobody
  /\ Goto(w, "diePut")
  /\ UNCHANGED <<prog, cur, victim, queue, lock, next, frames, tsVars, evacuated, entered>>

DiePut(w) ==
  /\ pc[w] = "diePut"
  /\ retval' = [retval EXCEPT ![cur[w]] = TRUE]
  /\ Goto(w, "dieFaa")
  /\ UNCHANGED <<prog, cur, victim, queue, lock, next, frames, state, flag, suspended,
                 serialized, evacuated, entered>>

\* The ended thread's side of the join race.
DieWinsRace(w) ==
  /\ pc[w] = "dieFaa"
  /\ flag[cur[w]] = 0
  /\ flag' = [flag EXCEPT ![cur[w]] = @ + 1]
  /\ ToSched(w)
  /\ UNCHANGED <<prog, victim, queue, lock, next, frames, state, retval, suspended,
                 serialized, evacuated, entered>>

DieLosesRace(w) ==
  /\ pc[w] = "dieFaa"
  /\ flag[cur[w]] # 0
  /\ flag' = [flag EXCEPT ![cur[w]] = @ + 1]
  /\ Goto(w, "dieResume")
  /\ UNCHANGED <<prog, cur, victim, queue, lock, next, frames, state, retval, suspended,
                 serialized, evacuated, entered>>

\* resume(ss): the joining thread goes on here.
DieResumes(w) ==
  LET j == suspended[cur[w]] IN
  /\ pc[w] = "dieResume"
  /\ evacuated' = evacuated \ {j}
  /\ PutFrame(w, j)
  /\ cur' = [cur EXCEPT ![w] = j]
  /\ Goto(w, "joinGet")
  /\ UNCHANGED <<prog, victim, queue, lock, next, tsVars, entered>>

\* on_root_die.
RootPut(w) ==
  /\ pc[w] = "rootDie"
  /\ retval' = [retval EXCEPT ![Root] = TRUE]
  /\ Goto(w, "rootFlag")
  /\ UNCHANGED <<prog, cur, victim, queue, lock, next, frames, state, flag, suspended,
                 serialized, evacuated, entered>>

RootFlag(w) ==
  /\ pc[w] = "rootFlag"
  /\ flag' = [flag EXCEPT ![Root] = 1]
  /\ ToSched(w)
  /\ UNCHANGED <<prog, victim, queue, lock, next, frames, state, retval, suspended,
                 serialized, evacuated, entered>>

-----------------------------------------------------------------------------
(* join.                                                                    *)

JoinSerialized(w) ==
  /\ Does(w, "join")
  /\ serialized[Child(w)]
  /\ next' = [next EXCEPT ![cur[w]] = @ + 1]
  /\ UNCHANGED <<prog, pc, cur, victim, queue, lock, frames, tsVars, evacuated, entered>>

\* resume_flag is read: the child has ended.
JoinEnded(w) ==
  /\ Does(w, "join")
  /\ ~serialized[Child(w)]
  /\ flag[Child(w)] >= 1
  /\ Goto(w, "joinGet")
  /\ UNCHANGED <<prog, cur, victim, queue, lock, next, frames, tsVars, evacuated, entered>>

\* It has not: evacuate the frame and put where it is.
JoinSuspends(w) ==
  LET c == Child(w) IN
  /\ Does(w, "join")
  /\ ~serialized[c]
  /\ flag[c] = 0
  /\ evacuated' = evacuated \cup {cur[w]}
  /\ suspended' = [suspended EXCEPT ![c] = cur[w]]
  /\ Goto(w, "joinFaa")
  /\ UNCHANGED <<prog, cur, victim, queue, lock, next, frames, state, flag, retval,
                 serialized, entered>>

\* The joining thread's side of the race.
JoinWinsRace(w) ==
  LET c == Child(w) IN
  /\ pc[w] = "joinFaa"
  /\ flag[c] = 0
  /\ flag' = [flag EXCEPT ![c] = @ + 1]
  /\ ToSched(w)
  /\ UNCHANGED <<prog, victim, queue, lock, next, frames, state, retval, suspended,
                 serialized, evacuated, entered>>

\* Mutant: goes to the scheduler loop whoever came first.
JoinLosesRaceSleeps(w) ==
  LET c == Child(w) IN
  /\ pc[w] = "joinFaa"
  /\ flag[c] # 0
  /\ flag' = [flag EXCEPT ![c] = @ + 1]
  /\ ToSched(w)
  /\ UNCHANGED <<prog, victim, queue, lock, next, frames, state, retval, suspended,
                 serialized, evacuated, entered>>

JoinLosesRace(w) ==
  LET c == Child(w) IN
  /\ pc[w] = "joinFaa"
  /\ flag[c] # 0
  /\ flag' = [flag EXCEPT ![c] = @ + 1]
  /\ evacuated' = evacuated \ {cur[w]}
  /\ Goto(w, "joinGet")
  /\ UNCHANGED <<prog, cur, victim, queue, lock, next, frames, state, retval, suspended,
                 serialized, entered>>

\* The return value is got and the thread state freed.
JoinGets(w) ==
  /\ pc[w] = "joinGet"
  /\ state' = [state EXCEPT ![Child(w)] = "freed"]
  /\ next' = [next EXCEPT ![cur[w]] = @ + 1]
  /\ Goto(w, "run")
  /\ UNCHANGED <<prog, cur, victim, queue, lock, frames, flag, retval, suspended,
                 serialized, evacuated, entered>>

-----------------------------------------------------------------------------
(* The scheduler loop.                                                      *)

\* Mutant: the victim's queue is unlocked before its stack is copied.
StealUnlocked(w, v) ==
  /\ pc[w] = "sched" /\ w # v
  /\ queue[v] # <<>> /\ lock[v] = Nobody
  /\ victim' = [victim EXCEPT ![w] = v]
  /\ cur' = [cur EXCEPT ![w] = Head(queue[v])]
  /\ queue' = [queue EXCEPT ![v] = Tail(@)]
  /\ Goto(w, "steal")
  /\ UNCHANGED <<prog, lock, next, frames, tsVars, evacuated, entered>>

\* steal: a queue that is not empty, trylock, steal_nolock.
Steal(w, v) ==
  /\ pc[w] = "sched" /\ w # v
  /\ queue[v] # <<>> /\ lock[v] = Nobody
  /\ lock' = [lock EXCEPT ![v] = w]
  /\ victim' = [victim EXCEPT ![w] = v]
  /\ cur' = [cur EXCEPT ![w] = Head(queue[v])]
  /\ queue' = [queue EXCEPT ![v] = Tail(@)]
  /\ Goto(w, "steal")
  /\ UNCHANGED <<prog, next, frames, tsVars, evacuated, entered>>

\* An attempt that finds the queue empty or locked changes nothing.
StealFails(w, v) ==
  /\ pc[w] = "sched" /\ w # v
  /\ queue[v] = <<>> \/ lock[v] # Nobody
  /\ UNCHANGED vars

\* direct_copy_from: an intact frame if the victim's is; then unlock and resume.
StealCopies(w) ==
  /\ pc[w] = "steal"
  /\ PutFrame(w, cur[w])
  /\ lock' = [lock EXCEPT ![victim[w]] = Nobody]
  /\ victim' = [victim EXCEPT ![w] = Nobody]
  /\ Goto(w, "run")
  /\ UNCHANGED <<prog, cur, queue, next, tsVars, evacuated, entered>>

\* should_exit_sched_loop: the barrier is entered when the condition holds, at
\* once except on rank 0, which looks at the root thread's resume_flag.
EntersBarrier(w) ==
  /\ pc[w] = "sched" /\ ~entered[w]
  /\ w = Rank0 => flag[Root] >= 1
  /\ entered' = [entered EXCEPT ![w] = TRUE]
  /\ UNCHANGED <<prog, pc, cur, victim, queue, lock, next, frames, tsVars, evacuated>>

\* The barrier is resolved; rank 0 takes the return value of the root thread.
Exits(w) ==
  /\ pc[w] = "sched" /\ entered[w]
  /\ \A v \in Workers : entered[v]
  /\ Goto(w, "exited")
  /\ state' = [state EXCEPT ![Root] = IF w = Rank0 THEN "freed" ELSE @]
  /\ UNCHANGED <<prog, cur, victim, queue, lock, next, frames, flag, retval, suspended,
                 serialized, evacuated, entered>>

\* Every worker has left root_exec.
Done ==
  /\ \A w \in Workers : pc[w] = "exited"
  /\ UNCHANGED vars

WorkerStep(w) ==
  \/ Fork(w) \/ ThreadEnds(w)
  \/ DieSerialized(w) \/ DieDrifted(w) \/ DiePut(w)
  \/ DieWinsRace(w) \/ DieLosesRace(w) \/ DieResumes(w)
  \/ RootPut(w) \/ RootFlag(w)
  \/ JoinSerialized(w) \/ JoinEnded(w) \/ JoinSuspends(w)
  \/ JoinWinsRace(w) \/ JoinLosesRace(w) \/ JoinGets(w)
  \/ StealCopies(w) \/ EntersBarrier(w) \/ Exits(w)

Next ==
  \/ \E w \in Workers : WorkerStep(w) \/ \E v \in Workers : Steal(w, v) \/ StealFails(w, v)
  \/ Done

Spec == Init /\ [][Next]_vars

\* A worker goes on with what it does and with its loop; no steal ever has to
\* succeed.
FairSpec == Spec /\ \A w \in 0..(MaxRanks - 1) : WF_vars(w \in Workers /\ WorkerStep(w))

-----------------------------------------------------------------------------
(* Properties.                                                              *)

\* d has lost the race and is about to resume the thread that joins it.
WillResume(d) == \E w \in Workers : pc[w] = "dieResume" /\ cur[w] = d

\* Where the continuation of t is: run or being stolen by a worker, in a queue,
\* or evacuated by a join that has gone to sleep and that d will wake up.
Homes(t) ==
  {<<"worker", w>> : w \in {v \in Workers : cur[v] = t}} \cup
  {<<"queue", w>> : w \in {v \in Workers : \E i \in DOMAIN queue[v] : queue[v][i] = t}} \cup
  {<<"asleep", c>> : c \in {d \in Threads : /\ suspended[d] = t /\ t \in evacuated
                                            /\ flag[d] = 1 \/ WillResume(d)
                                            /\ \A w \in Workers : cur[w] # t}}

\* A continuation is never run twice and never lost: a thread that has begun
\* and not ended is in exactly one place.
OnePlace ==
  \A t \in Threads :
    /\ Cardinality(Homes(t)) <= 1
    /\ \A w \in Workers : Cardinality({i \in DOMAIN queue[w] : queue[w][i] = t}) <= 1
    /\ state[t] = "allocated" /\ ~retval[t] => Homes(t) # {}

\* What on_die pops without looking at it is the continuation that the child
\* was forked from, and a worker that goes to sleep leaves nothing behind.
PoppedIsParent ==
  \A w \in Workers :
    /\ pc[w] = "die" /\ queue[w] # <<>> =>
         queue[w][Len(queue[w])] = Parent[cur[w]]
    /\ pc[w] \in {"sched", "steal", "joinFaa", "dieFaa", "exited"} => queue[w] = <<>>

\* PoppedIsParent holds, and a frame is intact on the stack where it is used:
\* when a worker runs it, when it sits in the queue to be popped, and when a thief
\* copies it.  A thread state is used only between its allocation and its one
\* deallocation, and join takes the return value only after it has been put.
FramesAndStatesLive ==
  /\ PoppedIsParent
  /\ \A w \in Workers :
       /\ pc[w] \in {"run", "joinGet"} => cur[w] \in frames[w]
       /\ \A i \in DOMAIN queue[w] : queue[w][i] \in frames[w]
       /\ pc[w] = "steal" => cur[w] \in frames[victim[w]]
       /\ pc[w] \in {"diePut", "dieFaa", "dieResume"} => state[cur[w]] = "allocated"
       /\ pc[w] \in {"joinFaa", "joinGet"} => state[Child(w)] = "allocated"
       /\ pc[w] = "joinGet" => retval[Child(w)]
       /\ pc[w] = "dieResume" => suspended[cur[w]] \in evacuated

\* root_exec returns on every worker, whatever is stolen.
Terminates == <>(\A w \in Workers : pc[w] = "exited")
=============================================================================
