-------------------------------- MODULE Adws --------------------------------
(***************************************************************************)
(* The almost deterministic work-stealing scheduler, scheduler_adws        *)
(* (include/ityr/ito/sched/adws.hpp), with worker::root_exec around it.    *)
(*                                                                         *)
(* A thread has a distribution range, a part of the line [0, n) on which   *)
(* rank r is [r, r+1).  fork divides it.  A task whose range crosses ranks *)
(* goes to the mailbox of the rank its range begins at (its owner), one    *)
(* that lies in another rank to that rank's migration queue; the parent of *)
(* any other task leaves its continuation in a queue of its rank.  A task  *)
(* group of a cross-worker thread owns a node of the distribution tree;    *)
(* once a cross-worker task of the group ends, the node is dominant and    *)
(* ranks that know it may steal inside the range of the group.             *)
(*                                                                         *)
(* Ranges are in units of 1/Unit of a rank.  The queues are what WsDeque   *)
(* promises, and frames are treated as in RandWs: the threads below[t] lie *)
(* under the frame of t on whatever stack it is put.                       *)
(***************************************************************************)
EXTENDS Integers, Sequences, FiniteSets

CONSTANTS
  MaxRanks,     \* bound: number of ranks
  Threads,
  Root,
  Programs,     \* records [ranks, body], body[t] the statements of thread t
  Unit,         \* units of a distribution range per rank
  Epsilon,      \* eps of dist_range::divide, in units
  MinDrange,    \* adws_min_drange_size, in units
  MaxDepth,     \* adws_max_depth
  VersionMax,   \* numeric_limits<version_t>::max()
  Nobody

Workers == 0..(MaxRanks - 1)
Depths == 0..(MaxDepth - 1)
\* node_ref; version is a ghost, the version of the node that is meant.
NoRef == [owner |-> -1, depth |-> -1, version |-> 0]

ASSUME AdwsAssumption ==
  /\ MaxRanks \in Nat \ {0} /\ MaxDepth \in Nat \ {0} /\ Unit \in Nat \ {0}
  /\ Nobody \notin Workers \cup Threads /\ Root \in Threads
  /\ \A p \in Programs : p.ranks \in 1..MaxRanks

VARIABLES
  prog,         \* the program that is run
  pc,           \* where a worker is
  cur,          \* the thread it runs, starts or steals
  usePrimary,   \* use_primary_wsq_
  from,         \* the queue it steals from, or the mail it has popped
  mail,         \* cross_worker_mailbox_: the entry
  arrived,      \* and whether there is one
  queue,        \* queue[k][w][d], k = "primary" or "migration", head first
  node,         \* node_win_ of dtree_: the nodes a worker knows, by depth
  dominant,     \* dominant_flag_win_
  versions,     \* versions_
  bottom,       \* dtree_local_bottom_ref_
  dummies,      \* dummies[w]: ranks that still have the task w waits for
  frames,       \* frames[w]: threads whose frame on w's stack is intact and current
  below,        \* below[t]: threads under t's frame on the stack
  tls,          \* thread_local_storage
  groups,       \* groups[t]: task_group_data of the open groups, innermost last
  next,         \* next[t]: where thread t goes on
  flag,         \* resume_flag
  ended,        \* ended[t]: retval has been put, or the thread was serialized
  suspended,    \* thread_state.suspended: the joining thread
  serialized,   \* thread_handler.serialized
  entered       \* sched_loop_exit_req_ # MPI_REQUEST_NULL

treeVars == <<node, dominant, versions, bottom>>
mailVars == <<mail, arrived>>
joinVars == <<flag, ended, suspended, serialized>>
frameVars == <<frames, below>>
threadVars == <<tls, groups, next>>
vars == <<prog, pc, cur, usePrimary, from, mailVars, queue, treeVars, dummies,
          frameVars, threadVars, joinVars, entered>>

Ranks == 0..(prog.ranks - 1)

-----------------------------------------------------------------------------
(* dist_range: <<begin, end>>.                                              *)

BeginRank(r) == r[1] \div Unit
EndRank(r) == r[2] \div Unit
IsCross(r) == BeginRank(r) # EndRank(r)
AtEndBoundary(r) == r[2] % Unit = 0
NonCross(r) == <<r[1], r[1]>>

\* is_sufficiently_small, and then move_to_end_boundary.
Trimmed(r) == IF r[2] - r[1] < MinDrange THEN <<r[1], EndRank(r) * Unit>> ELSE r

\* divide: where the two parts meet.
DivideAt(r, r1, r2) ==
  LET at == r[1] + ((r[2] - r[1]) * r1) \div (r1 + r2) IN
  IF at # r[2] THEN at ELSE IF at - Epsilon < r[1] THEN r[1] ELSE at - Epsilon

-----------------------------------------------------------------------------
(* Threads and workers.                                                     *)

Tls(drange, ref, tgv) ==
  [drange |-> drange, ref |-> ref, tgv |-> tgv, undistributed |-> TRUE]

Empty == [d \in Depths |-> <<>>]
NoNode == [parent |-> NoRef, drange |-> <<0, 0>>, tgv |-> {}, version |-> 0]
NoMail == [kind |-> "none"]

\* What thread t does next.
Statement(t) == prog.body[t][next[t]]
Does(w, what) ==
  /\ pc[w] = "run"
  /\ next[cur[w]] <= Len(prog.body[cur[w]])
  /\ Statement(cur[w]).do = what

Child(w) == Statement(cur[w]).child
Drange(w) == tls[cur[w]].drange
Ref(w) == tls[cur[w]].ref
Goto(w, l) == pc' = [pc EXCEPT ![w] = l]

\* resume_sched, and what execute_migrated_task is followed by.
ToSched(w) ==
  /\ Goto(w, "sched")
  /\ cur' = [cur EXCEPT ![w] = Nobody]
  /\ usePrimary' = [usePrimary EXCEPT ![w] = TRUE]

\* t goes on with its frame on w's stack; copies on other stacks are stale.
PutFrame(w, t) ==
  frames' = [v \in Workers |-> IF v = w THEN (frames[w] \cap below'[t]) \cup {t}
                               ELSE frames[v] \ {t}]

Parent(c) == CHOOSE t \in DOMAIN prog.body : \E i \in DOMAIN prog.body[t] :
               prog.body[t][i].do = "fork" /\ prog.body[t][i].child = c

Init ==
  /\ prog \in Programs
  /\ pc = [w \in Workers |-> IF w = 0 THEN "run" ELSE "sched"]
  /\ cur = [w \in Workers |-> IF w = 0 THEN Root ELSE Nobody]
  /\ usePrimary = [w \in Workers |-> TRUE]
  /\ from = [w \in Workers |-> NoMail]
  /\ mail = [w \in Workers |-> NoMail]
  /\ arrived = [w \in Workers |-> FALSE]
  /\ queue = [k \in {"primary", "migration"} |-> [w \in Workers |-> Empty]]
  /\ node = [w \in Workers |-> [d \in Depths |-> NoNode]]
  /\ dominant = [w \in Workers |-> [d \in Depths |-> 0]]
  /\ versions = [w \in Workers |-> [d \in Depths |-> w + 1]]
  /\ bottom = [w \in Workers |-> NoRef]
  /\ dummies = [w \in Workers |-> {}]
  /\ frames = [w \in Workers |-> IF w = 0 THEN {Root} ELSE {}]
  /\ below = [t \in Threads |-> {}]
  /\ tls = [t \in Threads |-> Tls(<<0, prog.ranks * Unit>>, NoRef, {})]
  /\ groups = [t \in Threads |-> <<>>]
  /\ next = [t \in Threads |-> 1]
  /\ flag = [t \in Threads |-> 0]
  /\ ended = [t \in Threads |-> FALSE]
  /\ suspended = [t \in Threads |-> Nobody]
  /\ serialized = [t \in Threads |-> FALSE]
  /\ entered = [w \in Workers |-> FALSE]

-----------------------------------------------------------------------------
(* Queues.  A thief that copies a frame holds the lock of its queue.        *)

Kind(w) == IF usePrimary[w] THEN "primary" ELSE "migration"
Entry(t, kind) == [thread |-> t, kind |-> kind, tgv |-> tls[t].tgv]
Front(s) == SubSeq(s, 1, Len(s) - 1)
Last(s) == s[Len(s)]

\* Mutant: a thief lets the queue go before it has copied the frame.
LockedNever(k, v, d) == FALSE

Locked(k, v, d) ==
  \E w \in Workers : pc[w] = "steal" /\ from[w] = [kind |-> k, rank |-> v, depth |-> d]

\* The depths whose queues evacuate_all goes through.
EvacuatedDepths(w) == IF usePrimary[w] THEN 0..Ref(w).depth ELSE {Ref(w).depth}

Evacuated(q) == [i \in DOMAIN q |-> IF q[i].kind = "stack" THEN [q[i] EXCEPT !.kind = "evac"]
                                    ELSE q[i]]

\* evacuate_all, which takes the locks.
CanEvacuateAll(w) == \A d \in EvacuatedDepths(w) : ~Locked(Kind(w), w, d)
EvacuateAll(w) ==
  [d \in Depths |-> IF d \in EvacuatedDepths(w) THEN Evacuated(queue[Kind(w)][w][d])
                    ELSE queue[Kind(w)][w][d]]

Push(w, k, d, e) == queue' = [queue EXCEPT ![k][w][d] = Append(@, e)]

-----------------------------------------------------------------------------
(* Task groups.                                                             *)

\* dist_tree::append, with the version that is used next.
NextVersion(w, d) ==
  IF versions[w][d] >= VersionMax - prog.ranks THEN w + 1 + prog.ranks
  ELSE versions[w][d] + prog.ranks


\* task_group_begin.
GroupBegins(w) ==
  LET t == cur[w]
      d == Ref(w).depth + 1
      v == NextVersion(w, d)
      owns == IsCross(Drange(w)) /\ d < MaxDepth
      ref == [owner |-> w, depth |-> d, version |-> v]
  IN
  /\ Does(w, "begin")
  /\ groups' = [groups EXCEPT ![t] = Append(@, [drange |-> Drange(w), owns |-> owns])]
  /\ next' = [next EXCEPT ![t] = @ + 1]
  /\ tls' = [tls EXCEPT ![t].undistributed = @ \/ IsCross(Drange(w)),
                        ![t].ref = IF owns THEN ref ELSE @]
  /\ IF owns
     THEN /\ node' = [node EXCEPT ![w][d] =
                        [parent |-> Ref(w), drange |-> Drange(w), tgv |-> tls[t].tgv,
                         version |-> v]]
          /\ versions' = [versions EXCEPT ![w][d] = v]
          /\ bottom' = [bottom EXCEPT ![w] = ref]
     ELSE UNCHANGED <<node, versions, bottom>>
  /\ UNCHANGED <<prog, pc, cur, usePrimary, from, mailVars, queue, dominant, dummies,
                 frameVars, joinVars, entered>>

\* The thread of w ends a task: it joins, ends a group, or ends itself.
EndsTask(w) ==
  \/ Does(w, "join") \/ Does(w, "end")
  \/ pc[w] = "run" /\ cur[w] # Root /\ next[cur[w]] > Len(prog.body[cur[w]])

\* set_dominant: the flag on w, and on the owner of the node.
SetDominant(w, ref, sign) ==
  LET v == sign * node[w][ref.depth].version IN
  dominant' = [dominant EXCEPT ![w][ref.depth] = v, ![ref.owner][ref.depth] = v]

\* The ranks inside the range of a task that has handed nothing on.
InnerRanks(w) ==
  IF tls[cur[w]].undistributed THEN (BeginRank(Drange(w)) + 1)..(EndRank(Drange(w)) - 1) ELSE {}

\* on_task_die of a cross-worker task: its group becomes dominant, and the
\* ranks inside its range are told of the node.
TaskDies(w) ==
  LET told == InnerRanks(w) IN
  /\ EndsTask(w)
  /\ IsCross(Drange(w))
  /\ SetDominant(w, Ref(w), 1)
  /\ mail' = [r \in Workers |-> IF r \in told THEN [kind |-> "dummy", sender |-> w, ref |-> Ref(w)]
                                ELSE mail[r]]
  /\ arrived' = [r \in Workers |-> arrived[r] \/ r \in told]
  /\ dummies' = [dummies EXCEPT ![w] = told]
  /\ Goto(w, "wait")
  /\ UNCHANGED <<prog, cur, usePrimary, from, queue, node, versions, bottom,
                 frameVars, threadVars, joinVars, entered>>

\* Mutant: does not wait.
DummiesNotAwaited(w) ==
  /\ pc[w] = "wait"
  /\ tls' = [tls EXCEPT ![cur[w]].drange = NonCross(@)]
  /\ Goto(w, "run")
  /\ UNCHANGED <<prog, cur, usePrimary, from, mailVars, queue, treeVars, dummies,
                 frameVars, groups, next, joinVars, entered>>

\* The memory of every dummy task is freed; make_non_cross_worker.
DummiesFreed(w) ==
  /\ pc[w] = "wait"
  /\ dummies[w] = {}
  /\ tls' = [tls EXCEPT ![cur[w]].drange = NonCross(@)]
  /\ Goto(w, "run")
  /\ UNCHANGED <<prog, cur, usePrimary, from, mailVars, queue, treeVars, dummies,
                 frameVars, groups, next, joinVars, entered>>

Group(w) == Last(groups[cur[w]])

\* task_group_end: the task is over.
EndsGroup(w) == Does(w, "end") /\ ~IsCross(Drange(w))

\* Mutant: goes on where it is.
GoesNowhere(w) == FALSE

\* A cross-worker thread that is not on its owner goes back there.
GoesHome(w) == EndsGroup(w) /\ IsCross(Group(w).drange) /\ BeginRank(Group(w).drange) # w

GroupMigrates(w) ==
  LET t == cur[w]
      home == BeginRank(Group(w).drange)
  IN
  /\ GoesHome(w)
  /\ CanEvacuateAll(w)
  /\ tls' = [tls EXCEPT ![t].drange = Group(w).drange]
  /\ mail' = [mail EXCEPT ![home] = [kind |-> "continuation", thread |-> t]]
  /\ arrived' = [arrived EXCEPT ![home] = TRUE]
  /\ queue' = [queue EXCEPT ![Kind(w)][w] = EvacuateAll(w)]
  /\ ToSched(w)
  /\ UNCHANGED <<prog, from, treeVars, dummies, frameVars, groups, next, joinVars, entered>>

Flip(tgv, d) == IF d \in tgv THEN tgv \ {d} ELSE tgv \cup {d}

\* The rest of task_group_end: the node is left and never dominant again.
GroupEnds(w) ==
  LET t == cur[w]
      ref == Ref(w)
      n == node[w][ref.depth]
      cross == IsCross(Group(w).drange)
      owns == cross /\ Group(w).owns
  IN
  /\ (EndsGroup(w) /\ ~GoesHome(w)) \/ pc[w] = "groupEnd"
  /\ tls' = [tls EXCEPT ![t].drange = Group(w).drange,
                        ![t].undistributed = @ /\ ~cross,
                        ![t].ref = IF owns THEN n.parent ELSE @,
                        ![t].tgv = IF owns THEN Flip(@, n.parent.depth + 1) ELSE @]
  /\ IF owns THEN /\ SetDominant(w, ref, -1)
                  /\ bottom' = [bottom EXCEPT ![w] = n.parent]
     ELSE UNCHANGED <<dominant, bottom>>
  /\ groups' = [groups EXCEPT ![t] = Front(@)]
  /\ next' = [next EXCEPT ![t] = @ + 1]
  /\ Goto(w, "run")
  /\ UNCHANGED <<prog, cur, usePrimary, from, mailVars, queue, node, versions, dummies,
                 frameVars, joinVars, entered>>

-----------------------------------------------------------------------------
(* fork and poll.                                                           *)

\* The ranges of the continuation and of the new task.
RestRange(w) ==
  LET r == Trimmed(Drange(w)) IN
  IF IsCross(Drange(w)) THEN <<r[1], DivideAt(r, Statement(cur[w]).rest, Statement(cur[w]).new)>>
  ELSE Drange(w)
NewRange(w) ==
  LET r == Trimmed(Drange(w)) IN
  IF IsCross(Drange(w)) THEN <<DivideAt(r, Statement(cur[w]).rest, Statement(cur[w]).new), r[2]>>
  ELSE Drange(w)

\* Where the new task goes.
Target(w) == IF IsCross(Drange(w)) THEN BeginRank(NewRange(w)) ELSE w

Divides(w) ==
  /\ tls' = [tls EXCEPT ![cur[w]].drange = RestRange(w),
                        ![Child(w)] = Tls(NewRange(w), Ref(w), tls[cur[w]].tgv)]
  /\ next' = [next EXCEPT ![cur[w]] = @ + 1]

\* The new task is run at once; the continuation goes to a queue of this rank.
ForkLocal(w) ==
  LET c == Child(w) IN
  /\ Does(w, "fork")
  /\ Target(w) = w
  /\ Divides(w)
  /\ Push(w, Kind(w), Ref(w).depth, Entry(cur[w], "stack"))
  /\ cur' = [cur EXCEPT ![w] = c]
  /\ below' = [below EXCEPT ![c] = below[cur[w]] \cup {cur[w]}]
  /\ PutFrame(w, c)
  /\ UNCHANGED <<prog, pc, usePrimary, from, mailVars, treeVars, dummies, groups,
                 joinVars, entered>>

\* A new cross-worker task is put into the mailbox of its owner.
ForkCross(w) ==
  /\ Does(w, "fork")
  /\ Target(w) # w /\ IsCross(NewRange(w))
  /\ Divides(w)
  /\ mail' = [mail EXCEPT ![Target(w)] = [kind |-> "new", thread |-> Child(w)]]
  /\ arrived' = [arrived EXCEPT ![Target(w)] = TRUE]
  /\ UNCHANGED <<prog, pc, cur, usePrimary, from, queue, treeVars, dummies, frameVars, groups,
                 joinVars, entered>>

\* Any other is passed to the migration queue of its owner.
ForkPass(w) ==
  LET d == Ref(w).depth IN
  /\ Does(w, "fork")
  /\ Target(w) # w /\ ~IsCross(NewRange(w))
  /\ ~Locked("migration", Target(w), d)
  /\ Divides(w)
  /\ queue' = [queue EXCEPT !["migration"][Target(w)][d] =
                 <<[thread |-> Child(w), kind |-> "new", tgv |-> tls[cur[w]].tgv]>> \o @]
  /\ UNCHANGED <<prog, pc, cur, usePrimary, from, mailVars, treeVars, dummies, frameVars, groups,
                 joinVars, entered>>

\* Where the program polls: before a fork or a group, and when it begins with a
\* leaf, which is all of a thread or the part that goes on after its last fork.
Polls(w) ==
  LET t == cur[w] IN
  \/ Does(w, "fork") \/ Does(w, "begin")
  \/ pc[w] = "run" /\ prog.body[t] = <<>>
  \/ Does(w, "join") /\ prog.body[t][next[t] - 1].do = "fork"

\* check_cross_worker_task_arrival: the thread makes way for a cross-worker task.
PollYields(w) ==
  /\ Polls(w)
  /\ arrived[w]
  /\ CanEvacuateAll(w)
  /\ queue' = [queue EXCEPT ![Kind(w)][w] =
                 [EvacuateAll(w) EXCEPT ![Ref(w).depth] = Append(@, Entry(cur[w], "evac"))]]
  /\ ToSched(w)
  /\ UNCHANGED <<prog, from, mailVars, treeVars, dummies, frameVars, threadVars, joinVars, entered>>

-----------------------------------------------------------------------------
(* The end of a thread.                                                     *)

EndsThread(w) ==
  /\ pc[w] = "run" /\ cur[w] # Root
  /\ next[cur[w]] > Len(prog.body[cur[w]])
  /\ ~IsCross(Drange(w))

\* on_die_workfirst is not called for a task that was started by another task
\* than its parent.
Fresh(t) == below[t] = {}

\* The last entry of the queue that on_die_workfirst pops from.
OwnQueue(w) == queue[Kind(w)][w][Ref(w).depth]
OnStackNext(w) == OwnQueue(w) # <<>> /\ Last(OwnQueue(w)).kind = "stack"

\* on_die_workfirst: the parent is popped, and the code returns into it.
DieSerialized(w) ==
  LET c == cur[w] IN
  /\ EndsThread(w)
  /\ ~Fresh(c) /\ OnStackNext(w)
  /\ queue' = [queue EXCEPT ![Kind(w)][w][Ref(w).depth] = Front(@)]
  /\ serialized' = [serialized EXCEPT ![c] = TRUE]
  /\ ended' = [ended EXCEPT ![c] = TRUE]
  /\ cur' = [cur EXCEPT ![w] = Parent(c)]
  /\ UNCHANGED <<prog, pc, usePrimary, from, mailVars, treeVars, dummies, frameVars, threadVars,
                 flag, suspended, entered>>

\* on_die_drifted: the return value is put.
DieDrifted(w) ==
  /\ EndsThread(w)
  /\ \/ Fresh(cur[w])
     \/ OwnQueue(w) # <<>> /\ ~OnStackNext(w)
     \/ OwnQueue(w) = <<>> /\ ~Locked(Kind(w), w, Ref(w).depth)
  /\ ended' = [ended EXCEPT ![cur[w]] = TRUE]
  /\ Goto(w, "dieFaa")
  /\ UNCHANGED <<prog, cur, usePrimary, from, mailVars, queue, treeVars, dummies, frameVars,
                 threadVars, flag, suspended, serialized, entered>>

\* The ended thread's side of the join race.
DieWinsRace(w) ==
  /\ pc[w] = "dieFaa"
  /\ flag[cur[w]] = 0
  /\ CanEvacuateAll(w)
  /\ flag' = [flag EXCEPT ![cur[w]] = 1]
  /\ queue' = [queue EXCEPT ![Kind(w)][w] = EvacuateAll(w)]
  /\ ToSched(w)
  /\ UNCHANGED <<prog, from, mailVars, treeVars, dummies, frameVars, threadVars,
                 ended, suspended, serialized, entered>>

\* The joining thread sleeps already: it goes on here.
DieLosesRace(w) ==
  LET j == suspended[cur[w]] IN
  /\ pc[w] = "dieFaa"
  /\ flag[cur[w]] # 0
  /\ flag' = [flag EXCEPT ![cur[w]] = @ + 1]
  /\ cur' = [cur EXCEPT ![w] = j]
  /\ UNCHANGED below
  /\ PutFrame(w, j)
  /\ Goto(w, "joined")
  /\ UNCHANGED <<prog, usePrimary, from, mailVars, queue, treeVars, dummies, threadVars,
                 ended, suspended, serialized, entered>>

\* on_root_die.
RootDies(w) ==
  /\ pc[w] = "run" /\ cur[w] = Root
  /\ next[Root] > Len(prog.body[Root])
  /\ ended' = [ended EXCEPT ![Root] = TRUE]
  /\ flag' = [flag EXCEPT ![Root] = 1]
  /\ ToSched(w)
  /\ UNCHANGED <<prog, from, mailVars, queue, treeVars, dummies, frameVars, threadVars,
                 suspended, serialized, entered>>

-----------------------------------------------------------------------------
(* join, after on_task_die.                                                 *)

Joins(w) == Does(w, "join") /\ ~IsCross(Drange(w))

\* The child was serialized, or its return value is there already.
JoinEnded(w) ==
  /\ Joins(w)
  /\ serialized[Child(w)] \/ flag[Child(w)] >= 1
  /\ next' = [next EXCEPT ![cur[w]] = @ + 1]
  /\ UNCHANGED <<prog, pc, cur, usePrimary, from, mailVars, queue, treeVars, dummies, frameVars,
                 tls, groups, joinVars, entered>>

\* It is not: the frame is evacuated, and where to is put.
JoinSuspends(w) ==
  /\ Joins(w)
  /\ ~serialized[Child(w)] /\ flag[Child(w)] = 0
  /\ suspended' = [suspended EXCEPT ![Child(w)] = cur[w]]
  /\ Goto(w, "joinFaa")
  /\ UNCHANGED <<prog, cur, usePrimary, from, mailVars, queue, treeVars, dummies, frameVars,
                 threadVars, flag, ended, serialized, entered>>

JoinWinsRace(w) ==
  /\ pc[w] = "joinFaa"
  /\ flag[Child(w)] = 0
  /\ CanEvacuateAll(w)
  /\ flag' = [flag EXCEPT ![Child(w)] = 1]
  /\ queue' = [queue EXCEPT ![Kind(w)][w] = EvacuateAll(w)]
  /\ ToSched(w)
  /\ UNCHANGED <<prog, from, mailVars, treeVars, dummies, frameVars, threadVars,
                 ended, suspended, serialized, entered>>

JoinLosesRace(w) ==
  /\ pc[w] = "joinFaa"
  /\ flag[Child(w)] # 0
  /\ flag' = [flag EXCEPT ![Child(w)] = @ + 1]
  /\ Goto(w, "joined")
  /\ UNCHANGED <<prog, cur, usePrimary, from, mailVars, queue, treeVars, dummies, frameVars,
                 threadVars, ended, suspended, serialized, entered>>

\* The return value is got and the thread state freed.
JoinReturns(w) ==
  /\ pc[w] = "joined"
  /\ next' = [next EXCEPT ![cur[w]] = @ + 1]
  /\ Goto(w, "run")
  /\ UNCHANGED <<prog, cur, usePrimary, from, mailVars, queue, treeVars, dummies, frameVars,
                 tls, groups, joinVars, entered>>

-----------------------------------------------------------------------------
(* The scheduler loop.                                                      *)

\* start_new_task runs t at the bottom of the stack.
StartNew(w, t) ==
  /\ cur' = [cur EXCEPT ![w] = t]
  /\ below' = [below EXCEPT ![t] = {}]
  /\ PutFrame(w, t)

\* resume(suspended_state).
Resume(w, t) ==
  /\ cur' = [cur EXCEPT ![w] = t]
  /\ UNCHANGED below
  /\ PutFrame(w, t)

\* Mailbox pop clears arrived before it reads the entry.
MailClears(w) ==
  /\ pc[w] = "sched" /\ arrived[w]
  /\ arrived' = [arrived EXCEPT ![w] = FALSE]
  /\ Goto(w, "mail")
  /\ UNCHANGED <<prog, cur, usePrimary, from, mail, queue, treeVars, dummies, frameVars,
                 threadVars, joinVars, entered>>

\* Mutant: the memory of the task is not freed.
ReadsDummyKeeps(w) ==
  /\ pc[w] = "mail" /\ mail[w].kind = "dummy"
  /\ from' = [from EXCEPT ![w] = mail[w]]
  /\ Goto(w, "copyDummy")
  /\ UNCHANGED <<prog, cur, usePrimary, mailVars, queue, treeVars, dummies, frameVars, threadVars,
                 joinVars, entered>>

\* execute_cross_worker_task: the memory of a task is freed when it is copied.
ReadsDummy(w) ==
  LET m == mail[w] IN
  /\ pc[w] = "mail" /\ m.kind = "dummy"
  /\ from' = [from EXCEPT ![w] = m]
  /\ dummies' = [dummies EXCEPT ![m.sender] = @ \ {w}]
  /\ Goto(w, "copyDummy")
  /\ UNCHANGED <<prog, cur, usePrimary, mailVars, queue, treeVars, frameVars, threadVars,
                 joinVars, entered>>

ReadsNew(w) ==
  /\ pc[w] = "mail" /\ mail[w].kind = "new"
  /\ StartNew(w, mail[w].thread)
  /\ Goto(w, "copy")
  /\ UNCHANGED <<prog, usePrimary, from, mailVars, queue, treeVars, dummies, threadVars,
                 joinVars, entered>>

ReadsContinuation(w) ==
  /\ pc[w] = "mail" /\ mail[w].kind = "continuation"
  /\ Resume(w, mail[w].thread)
  /\ Goto(w, "groupEnd")
  /\ UNCHANGED <<prog, usePrimary, from, mailVars, queue, treeVars, dummies, threadVars,
                 joinVars, entered>>

\* copy_parents, and where the path ends.
CopyParents(w, ref) ==
  /\ node' = [node EXCEPT ![w] = [d \in Depths |-> IF d <= ref.depth THEN node[ref.owner][d] ELSE @[d]]]
  /\ dominant' = [dominant EXCEPT ![w] = [d \in Depths |-> IF d <= ref.depth THEN 0 ELSE @[d]]]
  /\ bottom' = [bottom EXCEPT ![w] = ref]

NewCopies(w) ==
  /\ pc[w] = "copy"
  /\ CopyParents(w, Ref(w))
  /\ Goto(w, "run")
  /\ UNCHANGED <<prog, cur, usePrimary, from, mailVars, queue, versions, dummies, frameVars,
                 threadVars, joinVars, entered>>

DummyCopies(w) ==
  /\ pc[w] = "copyDummy"
  /\ CopyParents(w, from[w].ref)
  /\ from' = [from EXCEPT ![w] = NoMail]
  /\ Goto(w, "sched")
  /\ UNCHANGED <<prog, cur, usePrimary, mailVars, queue, versions, dummies, frameVars,
                 threadVars, joinVars, entered>>

\* The mailbox comes first in every iteration of the loop.
Looks(w) == pc[w] = "sched" /\ ~arrived[w]
NonEmpty(k, w) == {d \in Depths : queue[k][w][d] # <<>>}

\* pop_from_primary_queues: the deepest.
PopPrimary(w) ==
  \E d \in NonEmpty("primary", w) :
    /\ Looks(w)
    /\ \A e \in NonEmpty("primary", w) : e <= d
    /\ Resume(w, Last(queue["primary"][w][d]).thread)
    /\ queue' = [queue EXCEPT !["primary"][w][d] = Front(@)]
    /\ Goto(w, "run")
    /\ UNCHANGED <<prog, usePrimary, from, mailVars, treeVars, dummies, threadVars,
                   joinVars, entered>>

\* pop_from_migration_queues: the shallowest; then execute_migrated_task.
PopMigration(w) ==
  \E d \in NonEmpty("migration", w) :
    LET e == Last(queue["migration"][w][d]) IN
    /\ Looks(w) /\ NonEmpty("primary", w) = {}
    /\ \A f \in NonEmpty("migration", w) : d <= f
    /\ IF e.kind = "new" THEN StartNew(w, e.thread) ELSE Resume(w, e.thread)
    /\ queue' = [queue EXCEPT !["migration"][w][d] = Front(@)]
    /\ usePrimary' = [usePrimary EXCEPT ![w] = FALSE]
    /\ Goto(w, "run")
    /\ UNCHANGED <<prog, from, mailVars, treeVars, dummies, threadVars, joinVars, entered>>

Idle(w) == pc[w] = "sched" /\ NonEmpty("primary", w) = {} /\ NonEmpty("migration", w) = {}

\* The owner of the node at depth d of the path that w knows.
OwnerAt(w, d) == IF d = bottom[w].depth THEN bottom[w].owner ELSE node[w][d + 1].parent.owner

Dominants(w) == {d \in 0..bottom[w].depth : dominant[w][d] = node[w][d].version}

\* get_topmost_dominant at depth d: w asks a rank of the range of the node, or
\* tells it what w knows.
Asks(w, d, r) ==
  LET v == node[w][d].version
      there == dominant[r][d]
      tell == r # OwnerAt(w, d) /\ dominant[w][d] = v
  IN
  /\ Idle(w) /\ d <= bottom[w].depth
  /\ \A e \in Dominants(w) : d <= e
  /\ OwnerAt(w, d) # w /\ dominant[w][d] # -v
  /\ r \in OwnerAt(w, d)..(EndRank(node[w][d].drange) - 1) /\ r # w
  /\ dominant' = [dominant EXCEPT
       ![r][d] = IF tell /\ @ = 0 THEN v ELSE @,
       ![w][d] = IF there = -v \/ (~tell /\ there = v) THEN there ELSE @]
  /\ UNCHANGED <<prog, pc, cur, usePrimary, from, mailVars, queue, node, versions, bottom, dummies,
                 frameVars, threadVars, joinVars, entered>>

Matches(tgv1, tgv2, depth) == tgv1 \cap 0..depth = tgv2 \cap 0..depth

\* The queues that steal looks into, for the node at depth top.
Victims(w, top) ==
  LET r == node[w][top].drange
      last == EndRank(r) - (IF AtEndBoundary(r) THEN 1 ELSE 0)
  IN {x \in {"primary", "migration"} \X (BeginRank(r)..last) \X (top..(MaxDepth - 1)) :
        /\ BeginRank(r) # last /\ x[2] # w
        /\ IF x[1] = "migration" THEN x[2] # BeginRank(r) ELSE x[2] # last \/ AtEndBoundary(r)}

\* steal: from the head of a queue, if its entry belongs to the group.  A frame
\* on the stack is copied under the lock; any other entry is taken at once.
Steals(w, k, v, d) ==
  \E top \in Dominants(w) :
    LET e == Head(queue[k][v][d]) IN
    /\ Idle(w)
    /\ \A f \in Dominants(w) : top <= f
    /\ <<k, v, d>> \in Victims(w, top)
    /\ queue[k][v][d] # <<>> /\ ~Locked(k, v, d)
    /\ Matches(e.tgv, node[w][top].tgv, top)
    /\ queue' = [queue EXCEPT ![k][v][d] = Tail(@)]
    /\ \/ /\ e.kind = "stack"
          /\ from' = [from EXCEPT ![w] = [kind |-> k, rank |-> v, depth |-> d]]
          /\ cur' = [cur EXCEPT ![w] = e.thread]
          /\ Goto(w, "steal")
          /\ UNCHANGED frameVars
       \/ /\ e.kind # "stack"
          /\ IF e.kind = "new" THEN StartNew(w, e.thread) ELSE Resume(w, e.thread)
          /\ Goto(w, "run")
          /\ UNCHANGED from
    /\ UNCHANGED <<prog, usePrimary, mailVars, treeVars, dummies, threadVars, joinVars, entered>>

\* direct_copy_from, then unlock and resume.
StealCopies(w) ==
  /\ pc[w] = "steal"
  /\ from' = [from EXCEPT ![w] = NoMail]
  /\ UNCHANGED below
  /\ PutFrame(w, cur[w])
  /\ Goto(w, "run")
  /\ UNCHANGED <<prog, cur, usePrimary, mailVars, queue, treeVars, dummies, threadVars,
                 joinVars, entered>>

\* should_exit_sched_loop, as in RandWs.
EntersBarrier(w) ==
  /\ pc[w] = "sched" /\ ~entered[w]
  /\ w = 0 => flag[Root] >= 1
  /\ entered' = [entered EXCEPT ![w] = TRUE]
  /\ UNCHANGED <<prog, pc, cur, usePrimary, from, mailVars, queue, treeVars, dummies, frameVars,
                 threadVars, joinVars>>

Exits(w) ==
  /\ pc[w] = "sched"
  /\ \A v \in Ranks : entered[v]
  /\ bottom' = [bottom EXCEPT ![w] = NoRef]
  /\ Goto(w, "exited")
  /\ UNCHANGED <<prog, cur, usePrimary, from, mailVars, queue, node, dominant, versions, dummies,
                 frameVars, threadVars, joinVars, entered>>

Done ==
  /\ \A w \in Ranks : pc[w] = "exited"
  /\ UNCHANGED vars

WorkerStep(w) ==
  \/ GroupBegins(w) \/ TaskDies(w) \/ DummiesFreed(w) \/ GroupMigrates(w) \/ GroupEnds(w)
  \/ ForkLocal(w) \/ ForkCross(w) \/ ForkPass(w) \/ PollYields(w)
  \/ DieSerialized(w) \/ DieDrifted(w) \/ DieWinsRace(w) \/ DieLosesRace(w) \/ RootDies(w)
  \/ JoinEnded(w) \/ JoinSuspends(w) \/ JoinWinsRace(w) \/ JoinLosesRace(w) \/ JoinReturns(w)
  \/ MailClears(w) \/ ReadsDummy(w) \/ ReadsNew(w) \/ ReadsContinuation(w)
  \/ NewCopies(w) \/ DummyCopies(w) \/ PopPrimary(w) \/ PopMigration(w)
  \/ StealCopies(w) \/ EntersBarrier(w) \/ Exits(w)

ThiefStep(w) ==
  \/ \E d \in Depths, r \in Ranks : Asks(w, d, r)
  \/ \E k \in {"primary", "migration"}, v \in Ranks, d \in Depths : Steals(w, k, v, d)

Next ==
  \/ \E w \in Ranks : WorkerStep(w) \/ ThiefStep(w)
  \/ Done

Spec == Init /\ [][Next]_vars

\* A worker goes on with what it does and with its loop; no steal ever has to
\* succeed.
FairSpec == Spec /\ \A w \in Workers : WF_vars(w \in Ranks /\ WorkerStep(w))

-----------------------------------------------------------------------------
(* Properties.                                                              *)

\* Mail that has not been read yet.
InMail(r) == arrived[r] \/ pc[r] = "mail"

\* Where the continuation of t, or t itself before it has started, is.
Homes(t) ==
  {<<"worker", w>> : w \in {v \in Ranks : cur[v] = t}} \cup
  {<<"mail", r>> : r \in {v \in Ranks : InMail(v) /\ mail[v].kind # "dummy" /\ mail[v].thread = t}} \cup
  UNION {{<<k, w, d, i>> : i \in {j \in DOMAIN queue[k][w][d] : queue[k][w][d][j].thread = t}} :
           k \in {"primary", "migration"}, w \in Ranks, d \in Depths} \cup
  {<<"asleep", c>> : c \in {d \in DOMAIN prog.body : suspended[d] = t /\ flag[d] = 1 /\ next[t] <= Len(prog.body[t])
                                            /\ Statement(t) = [do |-> "join", child |-> d]
                                            /\ \A w \in Ranks : cur[w] # t}}

Forked(t) == t = Root \/ next[Parent(t)] > (CHOOSE i \in DOMAIN prog.body[Parent(t)] :
                              prog.body[Parent(t)][i].do = "fork" /\ prog.body[Parent(t)][i].child = t)

\* The ranks into whose mailbox the next step of w puts something.
PutsTo(w) ==
  IF Does(w, "fork") /\ Target(w) # w /\ IsCross(NewRange(w)) THEN {Target(w)}
  ELSE IF EndsTask(w) /\ IsCross(Drange(w)) THEN InnerRanks(w)
  ELSE IF GoesHome(w) THEN {BeginRank(Group(w).drange)} ELSE {}

\* put finds the one slot of the mailbox free, and nobody else is about to put:
\* a rank is sent the next cross-worker task only after it has read the last.
MailboxFree ==
  \A w \in Ranks : \A r \in PutsTo(w) :
    /\ ~InMail(r)
    /\ \A v \in Ranks \ {w} : r \notin PutsTo(v)

\* A thread is never run twice and never lost, whichever way it goes: through a
\* mailbox, which is free when something is put (MailboxFree), a queue of either
\* kind, a steal or a join that sleeps.
OnePlace ==
  /\ MailboxFree
  /\ \A t \in DOMAIN prog.body :
       /\ Cardinality(Homes(t)) <= 1
       /\ Forked(t) /\ ~ended[t] => Homes(t) # {}

\* on_die_workfirst pops the continuation that the child was forked from, and no
\* frame is left on the stack for the scheduler, which could not run it.
PoppedIsParent ==
  \A w \in Ranks :
    /\ EndsThread(w) /\ ~Fresh(cur[w]) /\ OnStackNext(w) => Last(OwnQueue(w)).thread = Parent(cur[w])
    /\ pc[w] \in {"sched", "mail", "copyDummy", "steal"} =>
         \A k \in {"primary", "migration"}, d \in Depths : \A i \in DOMAIN queue[k][w][d] :
           queue[k][w][d][i].kind # "stack"

\* Continuations are popped as they were pushed (PoppedIsParent), and a frame is
\* intact on the stack where it is run, popped or stolen.
FramesIntact ==
  /\ PoppedIsParent
  /\ \A w \in Ranks :
       /\ pc[w] \in {"run", "joined", "groupEnd"} => cur[w] \in frames[w]
       /\ \A k \in {"primary", "migration"}, d \in Depths : \A i \in DOMAIN queue[k][w][d] :
            queue[k][w][d][i].kind = "stack" => queue[k][w][d][i].thread \in frames[w]
       /\ pc[w] = "steal" => cur[w] \in frames[from[w].rank]

\* A thread with a cross-worker range runs on the owner of the range, with the
\* primary queues, and what that rank knows as the node of its group is the node
\* of its group: it makes its own group dominant, and leaves it for its parent.
CrossOnOwner ==
  \A w \in Ranks :
    /\ pc[w] \in {"run", "wait", "groupEnd"} /\ IsCross(Drange(w)) =>
         /\ BeginRank(Drange(w)) = w /\ usePrimary[w]
         /\ Ref(w).depth >= 0 => node[w][Ref(w).depth].version = Ref(w).version
    /\ pc[w] = "groupEnd" /\ Group(w).owns => Ref(w).owner = w

\* root_exec returns on every rank, whatever is stolen.
Terminates == <>(\A w \in Ranks : pc[w] = "exited")


\* ITYR_CHECK(owner_rank == n.drange.begin_rank()) of get_topmost_dominant holds
\* wherever a scan evaluates it, whichever path the rank has copied.  (A dummy task
\* is freed before it copies the path, so its sender may go on first.)
EveryScanChecksHold ==
  \A w \in Ranks : Idle(w) /\ ~arrived[w] =>
    \A d \in 0..bottom[w].depth :
      /\ \A e \in Dominants(w) : d <= e
      /\ OwnerAt(w, d) # w
      /\ dominant[w][d] # -node[w][d].version
      => OwnerAt(w, d) = BeginRank(node[w][d].drange)
=============================================================================
