--------------------------- MODULE CollExecProofs ---------------------------
(***************************************************************************)
(* The random work-stealing scheduler and the collective tasks that run in *)
(* it, for every number of workers and every program: no continuation is   *)
(* lost or run twice, frames and thread states are used only while they    *)
(* are there, a task reaches a rank once, while it is there to be copied,  *)
(* and the scheduler keeps its promises around it.                         *)
(***************************************************************************)
EXTENDS CollExec, FiniteSetTheorems, WellFoundedInduction, TLAPS

-----------------------------------------------------------------------------
(* The inductive invariant.                                                 *)

\* Places in the code, with those of CollExec.
Places == {"run", "sched", "steal", "exited", "die", "diePut", "dieFaa", "dieResume", "rootDie",
           "rootFlag", "joinFaa", "joinGet"}
CollPlaces == {"send", "sendArrived", "barrier1", "executed", "barrier2", "popRead", "fetch"}

\* The type of the state.
TypeOK ==
  /\ prog \in Programs
  /\ pc \in [Workers -> Places \cup CollPlaces]
  /\ cur \in [Workers -> Threads \cup {Nobody}]
  /\ victim \in [Workers -> Workers \cup {Nobody}]
  /\ queue \in [Workers -> Seq(Threads)]
  /\ lock \in [Workers -> Workers \cup {Nobody}]
  /\ next \in [Threads -> Nat \ {0}]
  /\ frames \in [Workers -> SUBSET Threads]
  /\ state \in [Threads -> {"none", "allocated", "freed"}]
  /\ flag \in [Threads -> Nat]
  /\ retval \in [Threads -> BOOLEAN]
  /\ suspended \in [Threads -> Threads \cup {Nobody}]
  /\ serialized \in [Threads -> BOOLEAN]
  /\ evacuated \in SUBSET Threads
  /\ entered \in [Workers -> BOOLEAN]

\* What a thread has done, and what it is about to join.
HasForked(t, c) == \E k \in DOMAIN Prog[t] : k < next[t] /\ Prog[t][k] = ForkOf(c)
HasJoined(t, c) == \E k \in DOMAIN Prog[t] : k < next[t] /\ Prog[t][k] = JoinOf(c)
Joins(t, c) == next[t] \in DOMAIN Prog[t] /\ Prog[t][next[t]] = JoinOf(c)

\* Where a thread is.
At(t, l) == \E w \in Workers : cur[w] = t /\ pc[w] = l
OnWorker(t) == \E w \in Workers : cur[w] = t
InQueue(t) == \E w \in Workers : \E k \in DOMAIN queue[w] : queue[w][k] = t

Dying == {"die", "diePut", "dieFaa", "dieResume"}
RootDying == {"rootDie", "rootFlag"}
Joining == {"joinFaa", "joinGet"}

\* Control: who has a thread, who has a lock, and when the worker's queue is empty.
ControlInv(w) ==
  /\ pc[w] \in {"sched", "exited"} => cur[w] = Nobody
  /\ pc[w] \in {"run", "steal"} \cup Dying \cup RootDying \cup Joining => cur[w] # Nobody
  /\ cur[w] = Nobody \/ pc[w] \in {"steal", "diePut", "dieFaa", "dieResume"} \cup RootDying \cup Joining =>
       queue[w] = <<>> /\ lock[w] = Nobody
  /\ pc[w] = "steal" => victim[w] # Nobody /\ lock[victim[w]] = w
  /\ lock[w] # Nobody => lock[w] # w /\ pc[lock[w]] = "steal" /\ victim[lock[w]] = w
  /\ pc[w] \in Dying => cur[w] # Root
  /\ pc[w] \in RootDying => cur[w] = Root
  /\ pc[w] \in Dying \cup RootDying => next[cur[w]] > Len(Prog[cur[w]])
  /\ pc[w] \in Joining => \E c \in Threads : Joins(cur[w], c)

\* A continuation is in one place.
PlaceInv ==
  /\ \A w, v \in Workers : cur[w] = cur[v] /\ cur[w] # Nobody => w = v
  /\ \A w, v \in Workers : \A k \in DOMAIN queue[w], m \in DOMAIN queue[v] :
       queue[w][k] = queue[v][m] => w = v /\ k = m
  /\ \A t \in Threads : InQueue(t) => ~OnWorker(t) /\ t \notin evacuated
  /\ \A w \in Workers : cur[w] \in evacuated => pc[w] = "joinFaa"
  /\ \A t \in evacuated : \E c \in Threads : Joins(t, c) /\ suspended[c] = t

\* The life of a thread.
LifeInv(t) ==
  /\ state[t] = "none" <=> t # Root /\ \A p \in Threads : ~HasForked(p, t)
  /\ ~HasForked(t, t)
  /\ state[t] = "none" => /\ next[t] = 1 /\ flag[t] = 0 /\ suspended[t] = Nobody
                          /\ retval[t] = FALSE /\ serialized[t] = FALSE
  /\ state[t] # "allocated" => ~OnWorker(t) /\ ~InQueue(t) /\ t \notin evacuated
  /\ state[t] = "freed" => \/ serialized[t] = TRUE \/ t = Root
                           \/ \E p \in Threads : HasJoined(p, t)
  /\ serialized[t] = TRUE => /\ state[t] = "freed" /\ flag[t] = 0 /\ suspended[t] = Nobody
                             /\ retval[t] = FALSE
  /\ state[t] = "allocated" /\ retval[t] = FALSE => OnWorker(t) \/ InQueue(t) \/ t \in evacuated
  /\ retval[t] = TRUE => ~InQueue(t) /\ next[t] > Len(Prog[t])
  /\ retval[t] = TRUE /\ OnWorker(t) => At(t, "dieFaa") \/ At(t, "dieResume") \/ At(t, "rootFlag")
  /\ At(t, "dieFaa") \/ At(t, "dieResume") \/ At(t, "rootFlag") => retval[t] = TRUE

\* c has not come to its side of the race, or has.
Early(c) == retval[c] = TRUE => At(c, "dieFaa")
Late(c) == retval[c] = TRUE /\ ~OnWorker(c)

\* The phases of the race between the end of c and the join of its parent.
NotJoined(c) == suspended[c] = Nobody /\ ((flag[c] = 0 /\ Early(c)) \/ (flag[c] = 1 /\ Late(c)))
AboutToSleep(c) ==
  LET p == suspended[c] IN
  /\ p \in evacuated /\ Joins(p, c) /\ At(p, "joinFaa")
  /\ (flag[c] = 0 /\ Early(c)) \/ (flag[c] = 1 /\ Late(c))
Asleep(c) ==
  LET p == suspended[c] IN
  /\ p \in evacuated /\ Joins(p, c) /\ ~OnWorker(p)
  /\ (flag[c] = 1 /\ Early(c)) \/ (flag[c] = 2 /\ At(c, "dieResume"))
Over(c) ==
  LET p == suspended[c] IN
  /\ p \in Threads /\ flag[c] = 2 /\ Late(c)
  /\ HasJoined(p, c) \/ (Joins(p, c) /\ At(p, "joinGet"))

RaceInv(c) ==
  /\ IF c = Root THEN suspended[c] = Nobody /\ (flag[c] # 0 => Late(c))
     ELSE NotJoined(c) \/ AboutToSleep(c) \/ Asleep(c) \/ Over(c)
  /\ At(c, "dieResume") => Asleep(c)

\* A worker that is joining.
JoiningInv(w) ==
  \A c \in Threads : pc[w] \in Joining /\ Joins(cur[w], c) =>
    /\ state[c] = "allocated"
    /\ pc[w] = "joinFaa" => suspended[c] = cur[w] /\ cur[w] \in evacuated
    /\ pc[w] = "joinGet" => Late(c)

\* The thread above position k of the queue of w; what is being stolen is at position 0.
Above(w, k) == IF k < Len(queue[w]) THEN queue[w][k + 1] ELSE cur[w]
Lowest(w) == IF lock[w] = Nobody THEN 1 ELSE 0
OnStack(w, k) == IF k = 0 THEN cur[lock[w]] ELSE queue[w][k]

\* The stack of a worker: what is being stolen from it, its queue, and its thread.
\* Each was forked by the one below, all other threads forked by those above the
\* lowest have been serialized, and their frames are intact.
StackInv(w) ==
  /\ \A k \in Lowest(w)..Len(queue[w]) :
       /\ HasForked(OnStack(w, k), Above(w, k))
       /\ \A c \in Threads : HasForked(Above(w, k), c) =>
            serialized[c] = TRUE \/ (k < Len(queue[w]) /\ c = Above(w, k + 1))
       /\ OnStack(w, k) \in frames[w] /\ OnStack(w, k) \in Ancestors(cur[w])
       /\ \A m \in 1..Len(queue[w]) : k < m => OnStack(w, k) \in Ancestors(queue[w][m])
  /\ cur[w] # Nobody /\ pc[w] # "steal" => cur[w] \in frames[w]

\* Rank 0 does not leave the scheduler loop before the root thread has ended.
ExitInv == entered[Rank0] = TRUE => flag[Root] # 0

SchedInv ==
  /\ TypeOK /\ PlaceInv
  /\ \A w \in Workers : ControlInv(w) /\ JoiningInv(w) /\ StackInv(w)
  /\ \A t \in Threads : LifeInv(t) /\ RaceInv(t)

-----------------------------------------------------------------------------
(* Facts about programs.                                                    *)

\* What is assumed of a program.
LEMMA ProgFacts ==
  ASSUME prog \in Programs
  PROVE  /\ Root \in Threads /\ Nobody \notin Threads /\ Nobody \notin Workers
         /\ Rank0 \in Workers /\ Workers \subseteq Int
         /\ Prog \in [Threads -> Seq(Operations)]
         /\ \A t, u, c \in Threads : \A k \in DOMAIN Prog[t], m \in DOMAIN Prog[u] :
              /\ Prog[t][k] = ForkOf(c) /\ Prog[u][m] = ForkOf(c) => t = u /\ k = m
              /\ Prog[t][k] = JoinOf(c) /\ Prog[u][m] = JoinOf(c) => t = u /\ k = m
         /\ \A t, c \in Threads : \A k \in DOMAIN Prog[t] :
              Prog[t][k] = JoinOf(c) => \E m \in 1..(k - 1) : Prog[t][m] = ForkOf(c)
<1>1. MaxRanks \in Nat /\ Root \in Threads /\ Nobody \notin Threads /\ Nobody \notin 0..MaxRanks
  BY ThreadAssumption
<1>2. prog.ranks \in 1..MaxRanks /\ prog.body \in [Threads -> Seq(Operations)]
  BY ThreadAssumption
<1>3. Nobody \notin Workers /\ Rank0 \in Workers /\ Workers \subseteq Int
  <2>1. \A x \in Workers : x \in 0..MaxRanks
    BY <1>1, <1>2 DEF Workers
  <2>2. QED
    BY <2>1, <1>1, <1>2 DEF Workers, Rank0
<1>4. \A t, u, c \in Threads : \A k \in DOMAIN Prog[t], m \in DOMAIN Prog[u] :
        /\ Prog[t][k] = ForkOf(c) /\ Prog[u][m] = ForkOf(c) => t = u /\ k = m
        /\ Prog[t][k] = JoinOf(c) /\ Prog[u][m] = JoinOf(c) => t = u /\ k = m
  BY ThreadAssumption DEF Prog
<1>5. \A t, c \in Threads : \A k \in DOMAIN Prog[t] :
        Prog[t][k] = JoinOf(c) => \E m \in 1..(k - 1) : Prog[t][m] = ForkOf(c)
  BY ThreadAssumption DEF Prog
<1>6. QED
  BY <1>1, <1>2, <1>3, <1>4, <1>5 DEF Prog

\* An operation is a fork or a join of a thread that is not the root, or a
\* collective task.
LEMMA OperationIs ==
  ASSUME NEW o \in Operations
  PROVE  /\ o.do = "fork" => o.child \in Threads \ {Root} /\ o = ForkOf(o.child)
         /\ o.do = "join" => o.child \in Threads \ {Root} /\ o = JoinOf(o.child)
BY DEF Operations, ForkOf, JoinOf

\* Forks, joins and their threads are told apart.
LEMMA OperationsDiffer ==
  ASSUME NEW c, NEW d
  PROVE  /\ ForkOf(c) # JoinOf(d)
         /\ ForkOf(c) = ForkOf(d) => c = d
         /\ JoinOf(c) = JoinOf(d) => c = d
         /\ ForkOf(c).do = "fork" /\ JoinOf(c).do = "join"
<1>1. ForkOf(c).do = "fork" /\ JoinOf(d).do = "join" /\ ForkOf(c).child = c /\ ForkOf(d).child = d
  BY DEF ForkOf, JoinOf
<1>2. JoinOf(c).child = c /\ JoinOf(d).child = d /\ JoinOf(c).do = "join"
  BY DEF JoinOf
<1>3. QED
  BY <1>1, <1>2

\* The next operation of the thread of w.
LEMMA DoesFork ==
  ASSUME TypeOK, NEW w \in Workers, cur[w] # Nobody, Does(w, "fork")
  PROVE  /\ cur[w] \in Threads /\ Child(w) \in Threads \ {Root}
         /\ next[cur[w]] \in DOMAIN Prog[cur[w]] /\ Prog[cur[w]][next[cur[w]]] = ForkOf(Child(w))
<1>1. cur[w] \in Threads /\ next[cur[w]] \in DOMAIN Prog[cur[w]]
  BY ProgFacts DEF TypeOK, Does
<1>2. Prog[cur[w]][next[cur[w]]] \in Operations
  BY <1>1, ProgFacts DEF TypeOK
<1>3. QED
  BY <1>1, <1>2, OperationIs DEF Does, Child

\* The same for a join.
LEMMA DoesJoin ==
  ASSUME TypeOK, NEW w \in Workers, cur[w] # Nobody, Does(w, "join")
  PROVE  cur[w] \in Threads /\ Child(w) \in Threads \ {Root} /\ Joins(cur[w], Child(w))
<1>1. cur[w] \in Threads /\ next[cur[w]] \in DOMAIN Prog[cur[w]]
  BY ProgFacts DEF TypeOK, Does
<1>2. Prog[cur[w]][next[cur[w]]] \in Operations
  BY <1>1, ProgFacts DEF TypeOK
<1>3. QED
  BY <1>1, <1>2, OperationIs DEF Does, Child, Joins

\* The thread that is joined.
LEMMA JoinsChild ==
  ASSUME TypeOK, NEW w \in Workers, cur[w] \in Threads, NEW c, Joins(cur[w], c)
  PROVE  c = Child(w) /\ c \in Threads \ {Root}
<1>1. Prog[cur[w]][next[cur[w]]] \in Operations /\ Prog[cur[w]][next[cur[w]]] = JoinOf(c)
  BY ProgFacts DEF TypeOK, Joins
<1>2. JoinOf(c).child = c /\ JoinOf(c).do = "join"
  BY DEF JoinOf
<1>3. QED
  BY <1>1, <1>2, OperationIs DEF Child

\* Who forks and joins a thread is one thread, which does so once.
LEMMA ForkOnce ==
  ASSUME TypeOK, NEW t \in Threads, NEW u \in Threads, NEW c \in Threads
  PROVE  /\ Forks(t, c) /\ Forks(u, c) => t = u
         /\ HasForked(t, c) => Forks(t, c)
         /\ HasForked(t, c) /\ next[u] \in DOMAIN Prog[u] => Prog[u][next[u]] # ForkOf(c)
<1>1. next[u] \in Nat
  BY DEF TypeOK
<1>2. QED
  BY <1>1, ProgFacts DEF TypeOK, Forks, HasForked

\* A thread is joined once, by the thread that has forked it.
LEMMA JoinOnce ==
  ASSUME TypeOK, NEW t \in Threads, NEW c \in Threads
  PROVE  /\ \A u \in Threads : (HasJoined(t, c) \/ Joins(t, c)) /\ (HasJoined(u, c) \/ Joins(u, c)) => t = u
         /\ HasJoined(t, c) => ~Joins(t, c)
         /\ \A d \in Threads : Joins(t, c) /\ Joins(t, d) => c = d
         /\ HasJoined(t, c) \/ Joins(t, c) => HasForked(t, c)
<1>0. next \in [Threads -> Nat \ {0}] /\ prog \in Programs
  BY DEF TypeOK
<1>1. ASSUME NEW u \in Threads, HasJoined(t, c) \/ Joins(t, c), HasJoined(u, c) \/ Joins(u, c)
      PROVE  t = u
  BY <1>1, <1>0, ProgFacts DEF HasJoined, Joins
<1>2. HasJoined(t, c) => ~Joins(t, c)
  BY <1>0, ProgFacts DEF HasJoined, Joins
<1>3. \A d \in Threads : Joins(t, c) /\ Joins(t, d) => c = d
  BY OperationsDiffer DEF Joins
<1>4. ASSUME HasJoined(t, c) \/ Joins(t, c)
      PROVE  HasForked(t, c)
  <2>1. PICK k \in DOMAIN Prog[t] : k <= next[t] /\ Prog[t][k] = JoinOf(c)
    <3>1. DOMAIN Prog[t] \subseteq Int
      BY <1>0, ProgFacts
    <3>2. QED
      BY <1>4, <1>0, <3>1 DEF HasJoined, Joins
  <2>2. PICK m \in 1..(k - 1) : Prog[t][m] = ForkOf(c)
    BY <2>1, <1>0, ProgFacts
  <2>3. m \in DOMAIN Prog[t] /\ m < next[t]
    BY <2>1, <2>2, <1>0, ProgFacts
  <2>4. QED
    BY <2>2, <2>3 DEF HasForked
<1>5. QED
  BY <1>1, <1>2, <1>3, <1>4

\* The parent of a thread.
LEMMA ParentIs ==
  ASSUME TypeOK, NEW t \in Threads, NEW c \in Threads \ {Root}, Forks(t, c)
  PROVE  Parent[c] = t
<1>1. \A u \in Threads : Forks(u, c) => u = t
  BY ForkOnce
<1>2. QED
  BY <1>1 DEF Parent

\* A thread descends from its parent, and from whom the parent descends from.
LEMMA AncestorsOf ==
  ASSUME TypeOK, NEW t \in Threads, NEW c \in Threads, Forks(t, c)
  PROVE  t \in Ancestors(c) /\ Ancestors(t) \subseteq Ancestors(c)
BY DEF Ancestors

-----------------------------------------------------------------------------
(* What a step does to the places of threads.                               *)

\* Worker w goes on at l, with thread t or none.
Moves(w, l, t) ==
  prog' = prog /\ pc' = [pc EXCEPT ![w] = l] /\ cur' = [cur EXCEPT ![w] = t]

\* The step moves the thread to or from none of the places that matter, or not at all.
Watched == {"dieFaa", "dieResume", "joinFaa", "joinGet", "rootFlag"}
SamePlace(x) ==
  (OnWorker(x)' <=> OnWorker(x)) /\ \A m \in Watched : At(x, m)' <=> At(x, m)
SameThread(x) ==
  SamePlace(x) /\ (x \in evacuated' <=> x \in evacuated) /\ next'[x] = next[x]
SameState(x) ==
  /\ state'[x] = state[x] /\ flag'[x] = flag[x] /\ retval'[x] = retval[x]
  /\ suspended'[x] = suspended[x] /\ serialized'[x] = serialized[x]

\* The program stays.
LEMMA SameProg ==
  ASSUME prog' = prog
  PROVE  /\ Workers' = Workers /\ Prog' = Prog
         /\ \A t, c : Forks(t, c)' <=> Forks(t, c)
         /\ \A t : Ancestors(t)' = Ancestors(t)
<1>1. Workers' = Workers /\ Prog' = Prog
  BY DEF Workers, Prog
<1>2. \A t, c : Forks(t, c)' <=> Forks(t, c)
  BY <1>1 DEF Forks
<1>3. ASSUME NEW t
      PROVE  Ancestors(t)' = Ancestors(t)
  BY <1>2 DEF Ancestors
<1>4. QED
  BY <1>1, <1>2, <1>3

\* A thread is at one place.
LEMMA AtOne ==
  ASSUME TypeOK, PlaceInv, NEW w \in Workers, cur[w] \in Threads
  PROVE  OnWorker(cur[w]) /\ \A m : At(cur[w], m) <=> m = pc[w]
<1>1. \A v \in Workers : cur[v] = cur[w] => v = w
  BY ProgFacts DEF TypeOK, PlaceInv
<1>2. QED
  BY <1>1 DEF OnWorker, At

\* The places after a step.
LEMMA MovesAt ==
  ASSUME TypeOK, PlaceInv, NEW w \in Workers, NEW l, NEW t \in Threads \cup {Nobody},
         Moves(w, l, t), t = cur[w] \/ t = Nobody \/ ~OnWorker(t)
  PROVE  /\ \A x \in Threads : x # cur[w] /\ x # t => SamePlace(x)
         /\ t \in Threads => OnWorker(t)' /\ \A m : At(t, m)' <=> m = l
         /\ \A x \in Threads : x = cur[w] /\ x # t => ~OnWorker(x)' /\ \A m : ~At(x, m)'
<1>0. Workers' = Workers /\ Nobody \notin Threads
  BY SameProg, ProgFacts DEF Moves, TypeOK
<1>1. /\ \A v \in Workers : v # w => cur'[v] = cur[v] /\ pc'[v] = pc[v]
      /\ cur'[w] = t /\ pc'[w] = l
  BY DEF TypeOK, Moves
<1>2. \A v \in Workers : cur[w] \in Threads /\ cur[v] = cur[w] => v = w
  BY <1>0 DEF PlaceInv
<1>3. ASSUME NEW x \in Threads, x # cur[w], x # t
      PROVE  SamePlace(x)
  BY <1>0, <1>1, <1>3 DEF SamePlace, OnWorker, At
<1>4. \A v \in Workers : t \in Threads /\ cur'[v] = t => v = w
  BY <1>0, <1>1, <1>2 DEF OnWorker
<1>5. ASSUME t \in Threads
      PROVE  OnWorker(t)' /\ \A m : At(t, m)' <=> m = l
  BY <1>0, <1>1, <1>4, <1>5 DEF OnWorker, At
<1>6. ASSUME NEW x \in Threads, x = cur[w], x # t
      PROVE  ~OnWorker(x)' /\ \A m : ~At(x, m)'
  BY <1>0, <1>1, <1>2, <1>6 DEF OnWorker, At
<1>7. QED
  BY <1>3, <1>5, <1>6

\* What a thread has done, when it does not go on, and when it does.
LEMMA SameNext ==
  ASSUME prog' = prog, NEW x, next'[x] = next[x]
  PROVE  \A c : /\ HasForked(x, c)' <=> HasForked(x, c)
                /\ HasJoined(x, c)' <=> HasJoined(x, c)
                /\ Joins(x, c)' <=> Joins(x, c)
<1>1. Prog' = Prog
  BY DEF Prog
<1>2. \A c : HasForked(x, c)' <=> HasForked(x, c)
  BY <1>1 DEF HasForked
<1>3. \A c : HasJoined(x, c)' <=> HasJoined(x, c)
  BY <1>1 DEF HasJoined
<1>4. \A c : Joins(x, c)' <=> Joins(x, c)
  BY <1>1 DEF Joins
<1>5. QED
  BY <1>2, <1>3, <1>4

\* Thread x has done its next operation.
LEMMA GoesOn ==
  ASSUME TypeOK, prog' = prog, NEW x \in Threads, next' = [next EXCEPT ![x] = @ + 1],
         next[x] \in DOMAIN Prog[x]
  PROVE  /\ next' \in [Threads -> Nat \ {0}]
         /\ \A u \in Threads : u # x => next'[u] = next[u]
         /\ \A c : /\ HasForked(x, c)' <=> HasForked(x, c) \/ Prog[x][next[x]] = ForkOf(c)
                   /\ HasJoined(x, c)' <=> HasJoined(x, c) \/ Prog[x][next[x]] = JoinOf(c)
<1>1. next[x] \in Nat \ {0} /\ next'[x] = next[x] + 1 /\ next' \in [Threads -> Nat \ {0}]
  BY DEF TypeOK
<1>2. DOMAIN Prog[x] \subseteq Int /\ Prog' = Prog
  <2>1. Prog \in [Threads -> Seq(Operations)]
    BY ProgFacts DEF TypeOK
  <2>2. QED
    BY <2>1 DEF Prog
<1>3. \A k \in DOMAIN Prog[x] : k < next'[x] <=> k < next[x] \/ k = next[x]
  BY <1>1, <1>2
<1>4. ASSUME NEW c
      PROVE  /\ HasForked(x, c)' <=> HasForked(x, c) \/ Prog[x][next[x]] = ForkOf(c)
             /\ HasJoined(x, c)' <=> HasJoined(x, c) \/ Prog[x][next[x]] = JoinOf(c)
  BY <1>2, <1>3 DEF HasForked, HasJoined
<1>5. QED
  BY <1>1, <1>4 DEF TypeOK

-----------------------------------------------------------------------------
(* What is said of a thread or a worker that a step does not concern.       *)

\* The race of c.
LEMMA RaceFrame ==
  ASSUME TypeOK, prog' = prog, NEW c \in Threads, RaceInv(c), SamePlace(c), SameState(c),
         \A p \in Threads : p = suspended[c] => SameThread(p)
  PROVE  RaceInv(c)'
<1>1. PICK p : p = suspended[c]
  OBVIOUS
<1>2. p = suspended'[c] /\ flag'[c] = flag[c] /\ retval'[c] = retval[c]
  BY <1>1 DEF SameState
<1>3. /\ Early(c)' <=> Early(c)
      /\ Late(c)' <=> Late(c)
      /\ At(c, "dieResume")' <=> At(c, "dieResume")
  BY <1>2 DEF Early, Late, SamePlace, Watched
<1>4. NotJoined(c) => NotJoined(c)'
  BY <1>2, <1>3, <1>1 DEF NotJoined
<1>5. p \in Threads \/ p = Nobody
  BY <1>1 DEF TypeOK
<1>6. ASSUME p \in Threads
      PROVE  /\ AboutToSleep(c) => AboutToSleep(c)'
             /\ Asleep(c) => Asleep(c)'
             /\ Over(c) => Over(c)'
  <2>1. SameThread(p)
    BY <1>1, <1>6
  <2>2. /\ Joins(p, c)' <=> Joins(p, c)
        /\ HasJoined(p, c)' <=> HasJoined(p, c)
    <3>1. next'[p] = next[p]
      BY <2>1 DEF SameThread
    <3>2. QED
      BY <3>1, SameNext
  <2>3. /\ At(p, "joinFaa")' <=> At(p, "joinFaa")
        /\ At(p, "joinGet")' <=> At(p, "joinGet")
        /\ OnWorker(p)' <=> OnWorker(p)
        /\ p \in evacuated' <=> p \in evacuated
    BY <2>1 DEF SameThread, SamePlace, Watched
  <2>4. AboutToSleep(c) => AboutToSleep(c)'
    BY <1>1, <1>2, <1>3, <2>2, <2>3 DEF AboutToSleep
  <2>5. Asleep(c) => Asleep(c)'
    BY <1>1, <1>2, <1>3, <2>2, <2>3 DEF Asleep
  <2>6. Over(c) => Over(c)'
    BY <1>1, <1>2, <1>3, <2>2, <2>3 DEF Over
  <2>7. QED
    BY <2>4, <2>5, <2>6
<1>7. (~AboutToSleep(c) /\ ~Asleep(c) /\ ~Over(c)) \/ p \in Threads
  BY <1>1, <1>5, ProgFacts DEF AboutToSleep, Asleep, Over, TypeOK
<1>8. QED
  BY <1>1, <1>2, <1>3, <1>4, <1>6, <1>7 DEF RaceInv

\* A thread that works and has been suspended by its join with c has joined c.
LEMMA HasBeenJoined ==
  ASSUME TypeOK, PlaceInv, NEW c \in Threads, RaceInv(c), NEW w \in Workers,
         cur[w] # Nobody, suspended[c] = cur[w], pc[w] \notin Joining \/ ~Joins(cur[w], c)
  PROVE  Over(c) /\ HasJoined(cur[w], c)
<1>1. cur[w] \in Threads /\ c # Root
  BY DEF TypeOK, RaceInv
<1>2. /\ OnWorker(cur[w])
      /\ pc[w] \notin Joining => ~At(cur[w], "joinFaa") /\ ~At(cur[w], "joinGet")
  BY <1>1, AtOne DEF Joining
<1>3. ~NotJoined(c) /\ ~AboutToSleep(c) /\ ~Asleep(c)
  BY <1>2 DEF NotJoined, AboutToSleep, Asleep
<1>4. QED
  BY <1>1, <1>2, <1>3 DEF RaceInv, Over

\* What is over stays so.
LEMMA OverFrame ==
  ASSUME NEW c \in Threads, NEW p \in Threads, c # Root, Over(c), suspended[c] = p, HasJoined(p, c)',
         SamePlace(c), SameState(c)
  PROVE  RaceInv(c)'
<1>1. Late(c)' /\ flag'[c] = 2 /\ suspended'[c] = p /\ ~OnWorker(c)'
  BY DEF Over, Late, SamePlace, SameState
<1>2. Over(c)'
  BY <1>1 DEF Over
<1>3. ~At(c, "dieResume")'
  BY <1>1 DEF OnWorker, At
<1>4. QED
  BY <1>2, <1>3 DEF RaceInv

\* The life of x.
LEMMA LifeFrame ==
  ASSUME prog' = prog, NEW x \in Threads, LifeInv(x), SameThread(x), SameState(x),
         InQueue(x)' <=> InQueue(x),
         \A p \in Threads : (HasForked(p, x)' <=> HasForked(p, x)) /\ (HasJoined(p, x) => HasJoined(p, x)')
  PROVE  LifeInv(x)'
<1>1. Prog' = Prog /\ next'[x] = next[x] /\ (x \in evacuated' <=> x \in evacuated)
  BY SameProg DEF SameThread
<1>2. /\ OnWorker(x)' <=> OnWorker(x)
      /\ At(x, "dieFaa")' <=> At(x, "dieFaa")
      /\ At(x, "dieResume")' <=> At(x, "dieResume")
      /\ At(x, "rootFlag")' <=> At(x, "rootFlag")
  BY DEF SameThread, SamePlace, Watched
<1>3. QED
  BY <1>1, <1>2 DEF LifeInv, SameState

\* The stack of v.
LEMMA StackFrame ==
  ASSUME TypeOK, prog' = prog, NEW v \in Workers, ControlInv(v), StackInv(v),
         queue'[v] = queue[v], lock'[v] = lock[v], cur'[v] = cur[v], frames'[v] = frames[v],
         lock[v] # Nobody => cur[lock[v]] \in Threads /\ cur'[lock[v]] = cur[lock[v]],
         pc'[v] = "steal" <=> pc[v] = "steal",
         \A t, c \in Threads : HasForked(t, c)' <=> HasForked(t, c),
         \A c \in Threads : serialized[c] = TRUE => serialized'[c] = TRUE
  PROVE  StackInv(v)'
<1>0. \A t : Ancestors(t)' = Ancestors(t)
  BY SameProg
<1>1. Lowest(v)' = Lowest(v) /\ (Lowest(v) = 0 => lock[v] # Nobody) /\ Lowest(v) \in Nat
  BY DEF Lowest
<1>2. ASSUME cur[v] = Nobody
      PROVE  queue[v] = <<>> /\ lock[v] = Nobody
  BY <1>2 DEF ControlInv
<1>3. ASSUME NEW k \in Lowest(v)..Len(queue[v])
      PROVE  /\ OnStack(v, k)' = OnStack(v, k) /\ OnStack(v, k) \in Threads
             /\ Above(v, k)' = Above(v, k) /\ Above(v, k) \in Threads
  <2>0. queue[v] \in Seq(Threads) /\ Len(queue[v]) \in Nat /\ k \in Nat /\ k <= Len(queue[v])
    BY <1>1 DEF TypeOK
  <2>1. cur[v] \in Threads
    <3>1. cur[v] # Nobody
      <4>1. SUFFICES ASSUME cur[v] = Nobody
            PROVE  FALSE
        OBVIOUS
      <4>2. Len(queue[v]) = 0 /\ Lowest(v) = 1
        BY <1>2, <4>1 DEF Lowest
      <4>3. QED
        BY <4>2, <2>0
    <3>2. QED
      BY <3>1 DEF TypeOK
  <2>2. k # 0 => queue[v][k] \in Threads
    BY <2>0
  <2>3. k < Len(queue[v]) => queue[v][k + 1] \in Threads
    BY <2>0
  <2>4. k = 0 => lock[v] # Nobody
    BY <1>1, <2>0 DEF Lowest
  <2>5. QED
    BY <2>1, <2>2, <2>3, <2>4 DEF OnStack, Above
<1>4. ASSUME NEW k \in Lowest(v)..Len(queue[v]), k < Len(queue[v])
      PROVE  Above(v, k + 1)' = Above(v, k + 1)
  BY DEF Above
<1>5. QED
  BY <1>0, <1>1, <1>3, <1>4 DEF StackInv

-----------------------------------------------------------------------------
(* Steps that leave queues and stacks alone.                                *)

\* Worker w goes on at l with its thread, or without one; it forks nothing.
Local(w, l, t) ==
  /\ Moves(w, l, t) /\ t \in {cur[w], Nobody} /\ pc[w] # "steal" /\ l # "steal"
  /\ t = Nobody => queue[w] = <<>> /\ lock[w] = Nobody
  /\ UNCHANGED <<victim, queue, lock, frames, serialized>>
  /\ next' \in [Threads -> Nat \ {0}]
  /\ \A x \in Threads : x # cur[w] => next'[x] = next[x] /\ (x \in evacuated' <=> x \in evacuated)
  /\ \A x, c \in Threads : /\ HasForked(x, c)' <=> HasForked(x, c)
                           /\ HasJoined(x, c) => HasJoined(x, c)'

\* The places after it.
LEMMA LocalPlaces ==
  ASSUME SchedInv, NEW w \in Workers, NEW l, NEW t, Local(w, l, t)
  PROVE  /\ Workers' = Workers /\ Prog' = Prog /\ cur'[w] = t /\ pc'[w] = l
         /\ \A v \in Workers : v # w => cur'[v] = cur[v] /\ pc'[v] = pc[v]
         /\ \A x \in Threads : x # cur[w] => SameThread(x)
         /\ \A x \in Threads : x = cur[w] =>
              /\ t = Nobody => ~OnWorker(x)' /\ \A m : ~At(x, m)'
              /\ t # Nobody => OnWorker(x)' /\ \A m : At(x, m)' <=> m = l
         /\ \A x : InQueue(x)' <=> InQueue(x)
         /\ \A v, u \in Workers : cur'[v] = cur'[u] /\ cur'[v] # Nobody => v = u
<1>0. TypeOK /\ PlaceInv /\ t \in Threads \cup {Nobody} /\ Moves(w, l, t) /\ (t = cur[w] \/ t = Nobody)
  BY DEF SchedInv, Local, TypeOK
<1>1. Nobody \notin Threads /\ Workers' = Workers /\ Prog' = Prog
  BY <1>0, ProgFacts, SameProg DEF TypeOK, Moves
<1>2. /\ cur'[w] = t /\ pc'[w] = l
      /\ \A v \in Workers : v # w => cur'[v] = cur[v] /\ pc'[v] = pc[v]
  BY <1>0 DEF TypeOK, Moves
<1>3. ASSUME NEW x \in Threads, x # cur[w]
      PROVE  SameThread(x)
  <2>1. SamePlace(x)
    BY <1>0, <1>1, <1>3, MovesAt
  <2>2. QED
    BY <2>1, <1>3 DEF SameThread, Local
<1>4. ASSUME NEW x \in Threads, x = cur[w]
      PROVE  /\ t = Nobody => ~OnWorker(x)' /\ \A m : ~At(x, m)'
             /\ t # Nobody => OnWorker(x)' /\ \A m : At(x, m)' <=> m = l
  <2>1. CASE t = Nobody
    <3>1. x # t
      BY <1>1, <2>1
    <3>2. QED
      BY <1>0, <3>1, <1>4, <2>1, MovesAt
  <2>2. CASE t # Nobody
    <3>1. x = t
      BY <1>0, <1>4, <2>2
    <3>2. OnWorker(t)' /\ \A m : At(t, m)' <=> m = l
      BY <1>0, <3>1, MovesAt
    <3>3. QED
      BY <2>2, <3>1, <3>2
  <2>3. QED
    BY <2>1, <2>2
<1>5. \A x : InQueue(x)' <=> InQueue(x)
  BY <1>1 DEF InQueue, Local
<1>6. \A v, u \in Workers : cur'[v] = cur'[u] /\ cur'[v] # Nobody => v = u
  BY <1>0, <1>2 DEF PlaceInv
<1>7. QED
  BY <1>1, <1>2, <1>3, <1>4, <1>5, <1>6

\* The stacks after it.
LEMMA LocalStacks ==
  ASSUME SchedInv, NEW w \in Workers, NEW l, NEW t, Local(w, l, t)
  PROVE  \A v \in Workers : StackInv(v)'
<1>0. TypeOK /\ PlaceInv /\ prog' = prog /\ \A v \in Workers : ControlInv(v) /\ StackInv(v)
  BY DEF SchedInv, Local, Moves
<1>1. /\ cur'[w] = t /\ pc'[w] = l
      /\ \A v \in Workers : v # w => cur'[v] = cur[v] /\ pc'[v] = pc[v]
  BY LocalPlaces
<1>2. /\ queue' = queue /\ lock' = lock /\ frames' = frames /\ serialized' = serialized
      /\ \A x, c \in Threads : HasForked(x, c)' <=> HasForked(x, c)
      /\ pc[w] # "steal" /\ l # "steal"
  BY DEF Local
<1>3. ASSUME NEW v \in Workers, lock[v] # Nobody
      PROVE  cur[lock[v]] \in Threads /\ cur'[lock[v]] = cur[lock[v]]
  <2>1. lock[v] \in Workers /\ pc[lock[v]] = "steal"
    BY <1>0, <1>3 DEF TypeOK, ControlInv
  <2>2. cur[lock[v]] # Nobody /\ lock[v] # w
    BY <1>0, <1>2, <2>1 DEF ControlInv
  <2>3. QED
    BY <1>0, <1>1, <2>1, <2>2 DEF TypeOK
<1>4. ASSUME NEW v \in Workers, v # w \/ t = cur[w]
      PROVE  StackInv(v)'
  <2>1. cur'[v] = cur[v] /\ (pc'[v] = "steal" <=> pc[v] = "steal")
    BY <1>1, <1>2, <1>4
  <2>2. QED
    BY <1>0, <1>2, <1>3, <2>1, StackFrame
<1>5. ASSUME t = Nobody
      PROVE  StackInv(w)'
  <2>1. queue'[w] = <<>> /\ lock'[w] = Nobody
    BY <1>2, <1>5 DEF Local
  <2>2. Lowest(w)' = 1 /\ Len(queue'[w]) = 0
    BY <2>1 DEF Lowest
  <2>3. QED
    BY <2>2, <1>1, <1>5 DEF StackInv
<1>6. t = cur[w] \/ t = Nobody
  BY DEF Local
<1>7. QED
  BY <1>4, <1>5, <1>6

\* The other workers after it.
LEMMA LocalControl ==
  ASSUME SchedInv, NEW w \in Workers, NEW l, NEW t, Local(w, l, t)
  PROVE  \A v \in Workers : v # w => ControlInv(v)'
<1> SUFFICES ASSUME NEW v \in Workers, v # w
    PROVE  ControlInv(v)'
  OBVIOUS
<1>0. TypeOK /\ PlaceInv /\ prog' = prog /\ ControlInv(v)
  BY DEF SchedInv, Local, Moves
<1>1. cur'[v] = cur[v] /\ pc'[v] = pc[v] /\ Prog' = Prog
  BY LocalPlaces
<1>2. queue' = queue /\ lock' = lock /\ victim' = victim
  BY DEF Local
<1>3. lock[v] # Nobody => lock[v] \in Workers /\ lock[v] # w /\ pc'[lock[v]] = pc[lock[v]]
  <2>1. ASSUME lock[v] # Nobody
        PROVE  lock[v] \in Workers /\ lock[v] # w
    BY <2>1, <1>0 DEF TypeOK, ControlInv, Local
  <2>2. QED
    BY <2>1, LocalPlaces
<1>4. ASSUME cur[v] # Nobody
      PROVE  /\ next'[cur[v]] = next[cur[v]]
             /\ \E u \in Threads : u = cur[v] /\ \A c : Joins(u, c)' <=> Joins(u, c)
  <2>1. cur[v] \in Threads /\ cur[v] # cur[w]
    BY <1>4, <1>0 DEF TypeOK, PlaceInv
  <2>2. next'[cur[v]] = next[cur[v]]
    BY <2>1 DEF Local
  <2>3. PICK u \in Threads : u = cur[v]
    BY <2>1
  <2>4. next'[u] = next[u]
    BY <2>2, <2>3
  <2>5. \A c : Joins(u, c)' <=> Joins(u, c)
    BY <1>0, <2>4, SameNext
  <2>6. QED
    BY <2>2, <2>3, <2>5
<1>5. pc[v] \in Joining \cup Dying \cup RootDying => cur[v] # Nobody
  BY <1>0 DEF ControlInv
<1>6. pc'[v] \in Joining => \E c \in Threads : Joins(cur[v], c)'
  <2> SUFFICES ASSUME pc[v] \in Joining
      PROVE  \E c \in Threads : Joins(cur[v], c)'
    BY <1>1
  <2>1. PICK c \in Threads : Joins(cur[v], c)
    BY <1>0 DEF ControlInv
  <2>2. PICK u \in Threads : u = cur[v] /\ \A d : Joins(u, d)' <=> Joins(u, d)
    BY <1>4, <1>5
  <2>3. Joins(u, c)'
    BY <2>1, <2>2
  <2>4. u = cur'[v]
    BY <2>2, <1>1
  <2>5. QED
    BY <2>3, <2>4
<1>7. pc'[v] \in Dying \cup RootDying => next'[cur'[v]] > Len(Prog'[cur'[v]])
  BY <1>0, <1>1, <1>4, <1>5 DEF ControlInv
<1>8. QED
  BY <1>0, <1>1, <1>2, <1>3, <1>6, <1>7 DEF ControlInv

\* Another worker that is joining, after it.
LEMMA LocalJoining ==
  ASSUME SchedInv, NEW w \in Workers, NEW l, NEW t, Local(w, l, t), NEW v \in Workers, v # w,
         \A c \in Threads : pc[v] \in Joining /\ Joins(cur[v], c) =>
           /\ state'[c] = state[c] /\ suspended'[c] = suspended[c]
           /\ Late(c) => Late(c)'
  PROVE  JoiningInv(v)'
<1>0. TypeOK /\ PlaceInv /\ prog' = prog /\ ControlInv(v) /\ JoiningInv(v)
  BY DEF SchedInv, Local, Moves
<1>1. cur'[v] = cur[v] /\ pc'[v] = pc[v]
  BY LocalPlaces
<1>2. SUFFICES ASSUME NEW c \in Threads, pc'[v] \in Joining, Joins(cur[v], c)'
      PROVE  /\ state'[c] = "allocated"
             /\ pc'[v] = "joinFaa" => suspended'[c] = cur'[v] /\ cur'[v] \in evacuated'
             /\ pc'[v] = "joinGet" => Late(c)'
  BY DEF JoiningInv
<1>3. cur[v] \in Threads /\ cur[v] # cur[w] /\ pc[v] \in Joining
  BY <1>0, <1>1, <1>2 DEF TypeOK, PlaceInv, ControlInv
<1>4. PICK u \in Threads : u = cur[v]
  BY <1>3
<1>5. Joins(u, c)'
  BY <1>1, <1>2, <1>4
<1>6. next'[u] = next[u] /\ (u \in evacuated' <=> u \in evacuated)
  BY <1>3, <1>4 DEF Local
<1>7. Joins(u, c)
  BY <1>0, <1>5, <1>6, SameNext
<1>8. Joins(cur[v], c)
  BY <1>4, <1>7
<1>9. QED
  BY <1>0, <1>1, <1>3, <1>4, <1>6, <1>8 DEF JoiningInv

\* The race and the life of another thread, after it.
LEMMA LocalRace ==
  ASSUME SchedInv, NEW w \in Workers, NEW l, NEW t, Local(w, l, t),
         NEW c \in Threads, c # cur[w], SameState(c),
         cur[w] # Nobody, pc[w] \notin Joining \/ ~Joins(cur[w], c)
  PROVE  RaceInv(c)'
<1>0. TypeOK /\ PlaceInv /\ prog' = prog /\ RaceInv(c) /\ cur[w] \in Threads
  BY DEF SchedInv, Local, Moves, TypeOK
<1>1. SamePlace(c)
  BY LocalPlaces DEF SameThread
<1>2. CASE suspended[c] # cur[w]
  <2>1. \A p \in Threads : p = suspended[c] => SameThread(p)
    BY <1>2, LocalPlaces
  <2>2. QED
    BY <1>0, <1>1, <2>1, RaceFrame
<1>3. CASE suspended[c] = cur[w]
  <2>1. Over(c) /\ HasJoined(cur[w], c)
    BY <1>0, <1>3, HasBeenJoined
  <2>2. PICK p \in Threads : p = cur[w]
    BY <1>0
  <2>3. HasJoined(p, c)
    BY <2>1, <2>2
  <2>4. HasJoined(p, c)'
    BY <2>3 DEF Local
  <2>5. c # Root
    BY <1>0, <1>3, ProgFacts DEF RaceInv, TypeOK
  <2>6. QED
    BY <1>1, <1>3, <2>1, <2>2, <2>4, <2>5, OverFrame
<1>4. QED
  BY <1>2, <1>3

\* The life of the other threads, in a local step.
LEMMA LocalLife ==
  ASSUME SchedInv, NEW w \in Workers, NEW l, NEW t, Local(w, l, t),
         NEW x \in Threads, x # cur[w], SameState(x)
  PROVE  LifeInv(x)'
<1>0. prog' = prog /\ LifeInv(x)
  BY DEF SchedInv, Local, Moves
<1>1. SameThread(x) /\ (InQueue(x)' <=> InQueue(x))
  BY LocalPlaces
<1>2. \A p \in Threads : (HasForked(p, x)' <=> HasForked(p, x)) /\ (HasJoined(p, x) => HasJoined(p, x)')
  BY DEF Local
<1>3. QED
  BY <1>0, <1>1, <1>2, LifeFrame

\* Continuations are in one place, after it.
LEMMA LocalPlaceInv ==
  ASSUME SchedInv, NEW w \in Workers, NEW l, NEW t, Local(w, l, t), cur[w] # Nobody,
         evacuated' \subseteq Threads,
         \A c \in Threads : suspended[c] \in Threads /\ suspended[c] # cur[w] => suspended'[c] = suspended[c],
         \A x \in evacuated' : x = cur[w] => /\ t # Nobody => l = "joinFaa"
                                            /\ \E c \in Threads : Joins(x, c)' /\ suspended'[c] = x
  PROVE  PlaceInv'
<1>0. TypeOK /\ PlaceInv /\ prog' = prog /\ cur[w] \in Threads /\ queue' = queue
  BY DEF SchedInv, Local, Moves, TypeOK
<1>1. /\ Workers' = Workers /\ cur'[w] = t /\ pc'[w] = l
      /\ \A v \in Workers : v # w => cur'[v] = cur[v] /\ pc'[v] = pc[v]
      /\ \A v, u \in Workers : cur'[v] = cur'[u] /\ cur'[v] # Nobody => v = u
  BY LocalPlaces
<1>2. \A v, u \in Workers : \A k \in DOMAIN queue'[v], m \in DOMAIN queue'[u] :
        queue'[v][k] = queue'[u][m] => v = u /\ k = m
  BY <1>0 DEF PlaceInv
<1>3. ASSUME NEW x \in Threads, InQueue(x)'
      PROVE  ~OnWorker(x)' /\ x \notin evacuated'
  <2>1. InQueue(x)
    BY <1>3, LocalPlaces
  <2>2. ~OnWorker(x) /\ x \notin evacuated
    BY <2>1, <1>0 DEF PlaceInv
  <2>3. x # cur[w]
    BY <2>2 DEF OnWorker
  <2>4. SameThread(x)
    BY <2>3, LocalPlaces
  <2>5. QED
    BY <2>2, <2>4 DEF SameThread, SamePlace
<1>4. ASSUME NEW v \in Workers, cur'[v] \in evacuated'
      PROVE  pc'[v] = "joinFaa"
  <2>0. Nobody \notin Threads
    BY <1>0, ProgFacts DEF TypeOK
  <2>1. CASE v # w
    <3>1. cur[v] \in Threads /\ cur[v] # cur[w]
      BY <1>0, <1>1, <1>4, <2>0, <2>1 DEF PlaceInv
    <3>2. cur[v] \in evacuated
      BY <3>1, <1>1, <1>4, <2>1 DEF Local
    <3>3. QED
      BY <3>2, <1>0, <1>1, <2>1 DEF PlaceInv
  <2>2. CASE v = w
    BY <1>1, <1>4, <2>0, <2>2 DEF Local
  <2>3. QED
    BY <2>1, <2>2
<1>5. ASSUME NEW x \in evacuated'
      PROVE  \E c \in Threads : Joins(x, c)' /\ suspended'[c] = x
  <2>1. CASE x = cur[w]
    BY <2>1
  <2>2. CASE x # cur[w]
    <3>1. x \in evacuated /\ next'[x] = next[x] /\ x \in Threads
      BY <2>2 DEF Local
    <3>2. PICK c \in Threads : Joins(x, c) /\ suspended[c] = x
      BY <3>1, <1>0 DEF PlaceInv
    <3>3. Joins(x, c)'
      BY <3>1, <3>2, <1>0, SameNext
    <3>4. suspended'[c] = x
      BY <3>1, <3>2, <2>2
    <3>5. QED
      BY <3>3, <3>4
  <2>3. QED
    BY <2>1, <2>2
<1>6. QED
  BY <1>1, <1>2, <1>3, <1>4, <1>5 DEF PlaceInv

\* All other workers that are joining, after a step that changes only the states
\* of the thread and of the one that it joins.
LEMMA LocalJoiningAll ==
  ASSUME SchedInv, NEW w \in Workers, NEW l, NEW t, Local(w, l, t), cur[w] # Nobody,
         \A c \in Threads : c # cur[w] /\ ~Joins(cur[w], c) => SameState(c),
         state'[cur[w]] = state[cur[w]], suspended'[cur[w]] = suspended[cur[w]]
  PROVE  \A v \in Workers : v # w => JoiningInv(v)'
<1> SUFFICES ASSUME NEW v \in Workers, v # w
    PROVE  JoiningInv(v)'
  OBVIOUS
<1>0. TypeOK /\ PlaceInv /\ ControlInv(v) /\ cur[w] \in Threads
  BY DEF SchedInv, TypeOK
<1>1. ASSUME NEW c \in Threads, pc[v] \in Joining, Joins(cur[v], c)
      PROVE  /\ state'[c] = state[c] /\ suspended'[c] = suspended[c]
             /\ Late(c) => Late(c)'
  <2>1. cur[v] \in Threads /\ cur[v] # cur[w]
    BY <1>0, <1>1 DEF TypeOK, PlaceInv, ControlInv
  <2>2. ~Joins(cur[w], c)
    BY <1>0, <1>1, <2>1, JoinOnce
  <2>3. CASE c # cur[w]
    <3>1. SameState(c)
      BY <2>2, <2>3
    <3>2. SameThread(c)
      BY <2>3, LocalPlaces
    <3>3. QED
      BY <3>1, <3>2 DEF SameState, SameThread, SamePlace, Late
  <2>4. CASE c = cur[w]
    <3>1. ~Late(c)
      BY <2>4 DEF Late, OnWorker
    <3>2. QED
      BY <2>4, <3>1
  <2>5. QED
    BY <2>3, <2>4
<1>2. QED
  BY <1>1, LocalJoining

\* What is left to show of such a step.
LEMMA LocalDone ==
  ASSUME SchedInv, NEW w \in Workers, NEW l, NEW t, Local(w, l, t), cur[w] # Nobody, TypeOK', PlaceInv',
         \A c \in Threads : c # cur[w] /\ ~Joins(cur[w], c) => SameState(c),
         state'[cur[w]] = state[cur[w]], suspended'[cur[w]] = suspended[cur[w]],
         ControlInv(w)', JoiningInv(w)',
         \A x \in Threads : x = cur[w] => LifeInv(x)' /\ RaceInv(x)',
         \A x \in Threads : Joins(cur[w], x) /\ ~SameState(x) => LifeInv(x)',
         \A x \in Threads : Joins(cur[w], x) /\ (~SameState(x) \/ pc[w] \in Joining) => RaceInv(x)'
  PROVE  SchedInv'
<1>1. Workers' = Workers
  BY LocalPlaces
<1>2. \A v \in Workers : StackInv(v)'
  BY LocalStacks
<1>3. \A v \in Workers : ControlInv(v)'
  BY LocalControl
<1>4. \A v \in Workers : JoiningInv(v)'
  BY LocalJoiningAll
<1>5. ASSUME NEW x \in Threads
      PROVE  LifeInv(x)'
  <2>1. CASE x # cur[w] /\ SameState(x)
    BY <2>1, LocalLife
  <2>2. CASE x = cur[w] \/ ~SameState(x)
    BY <2>2
  <2>3. QED
    BY <2>1, <2>2
<1>6. ASSUME NEW x \in Threads
      PROVE  RaceInv(x)'
  <2>1. CASE x # cur[w] /\ SameState(x) /\ (pc[w] \notin Joining \/ ~Joins(cur[w], x))
    BY <2>1, LocalRace
  <2>2. CASE x = cur[w] \/ ~SameState(x) \/ (pc[w] \in Joining /\ Joins(cur[w], x))
    BY <2>2
  <2>3. QED
    BY <2>1, <2>2
<1>7. QED
  BY <1>1, <1>2, <1>3, <1>4, <1>5, <1>6 DEF SchedInv

-----------------------------------------------------------------------------
(* The type after a step.                                                   *)

\* Types of the frames after PutFrame, and of parts of a queue.
LEMMA FrameType ==
  ASSUME TypeOK, prog' = prog, NEW w \in Workers, NEW t \in Threads, PutFrame(w, t)
  PROVE  frames' \in [Workers' -> SUBSET Threads]
BY SameProg DEF PutFrame, TypeOK

\* What is popped or stolen, and what is left.
LEMMA QueueType ==
  ASSUME NEW q \in Seq(Threads), q # <<>>
  PROVE  /\ Head(q) \in Threads /\ Tail(q) \in Seq(Threads)
         /\ SubSeq(q, 1, Len(q) - 1) \in Seq(Threads)
OBVIOUS

\* Every step keeps the types.
LEMMA TypeStep ==
  ASSUME SchedInv, Next
  PROVE  TypeOK'
<1>0. TypeOK /\ prog \in Programs /\ \A w \in Workers : ControlInv(w) /\ JoiningInv(w)
  BY DEF SchedInv, TypeOK
<1> USE DEF TypeOK, Places, Goto, ToSched, tsVars
<1>1. ASSUME NEW w \in Workers, \/ ThreadEnds(w) \/ DieDrifted(w) \/ EntersBarrier(w) \/ Exits(w)
      PROVE  TypeOK'
  <2>0. prog' = prog /\ Workers' = Workers
    BY <1>1 DEF ThreadEnds, DieDrifted, EntersBarrier, Exits, Workers
  <2>1. CASE ThreadEnds(w) \/ DieDrifted(w)
    BY <1>0, <2>0, <2>1 DEF ThreadEnds, DieDrifted
  <2>2. CASE EntersBarrier(w)
    BY <1>0, <2>0, <2>2 DEF EntersBarrier
  <2>3. CASE Exits(w)
    BY <1>0, <2>0, <2>3 DEF Exits
  <2>4. QED
    BY <1>1, <2>1, <2>2, <2>3
<1>2. ASSUME NEW w \in Workers, DiePut(w) \/ RootPut(w)
      PROVE  TypeOK'
  <2>0. prog' = prog /\ Workers' = Workers
    BY <1>2 DEF DiePut, RootPut, Workers
  <2>1. QED
    BY <1>0, <1>2, <2>0 DEF DiePut, RootPut
<1>3. ASSUME NEW w \in Workers, \/ DieWinsRace(w) \/ DieLosesRace(w) \/ RootFlag(w)
                               \/ JoinWinsRace(w) \/ JoinLosesRace(w)
      PROVE  TypeOK'
  <2>0. prog' = prog /\ Workers' = Workers
    BY <1>3 DEF DieWinsRace, DieLosesRace, RootFlag, JoinWinsRace, JoinLosesRace, Workers
  <2>1. \A x \in Threads : flag[x] + 1 \in Nat
    BY <1>0
  <2>2. CASE DieWinsRace(w)
    BY <1>0, <2>0, <2>1, <2>2 DEF DieWinsRace
  <2>3. CASE DieLosesRace(w)
    BY <1>0, <2>0, <2>1, <2>3 DEF DieLosesRace
  <2>4. CASE RootFlag(w)
    BY <1>0, <2>0, <2>4 DEF RootFlag
  <2>5. CASE JoinWinsRace(w)
    BY <1>0, <2>0, <2>1, <2>5 DEF JoinWinsRace
  <2>6. CASE JoinLosesRace(w)
    BY <1>0, <2>0, <2>1, <2>6 DEF JoinLosesRace
  <2>7. QED
    BY <1>3, <2>2, <2>3, <2>4, <2>5, <2>6
<1>4. ASSUME NEW w \in Workers, JoinSerialized(w) \/ JoinEnded(w) \/ JoinSuspends(w) \/ JoinGets(w)
      PROVE  TypeOK'
  <2>0. prog' = prog /\ Workers' = Workers
    BY <1>4 DEF JoinSerialized, JoinEnded, JoinSuspends, JoinGets, Workers
  <2>1. \A x \in Threads : next[x] + 1 \in Nat \ {0}
    BY <1>0
  <2>2. cur[w] \in Threads
    BY <1>0, <1>4 DEF JoinSerialized, JoinEnded, JoinSuspends, JoinGets, Does, ControlInv, Joining
  <2>3. CASE JoinSerialized(w)
    BY <1>0, <2>0, <2>1, <2>3 DEF JoinSerialized
  <2>4. CASE JoinEnded(w)
    BY <1>0, <2>0, <2>4 DEF JoinEnded
  <2>5. CASE JoinSuspends(w)
    BY <1>0, <2>0, <2>2, <2>5 DEF JoinSuspends
  <2>6. CASE JoinGets(w)
    BY <1>0, <2>0, <2>1, <2>6 DEF JoinGets
  <2>7. QED
    BY <1>4, <2>3, <2>4, <2>5, <2>6
<1>5. ASSUME NEW w \in Workers, Fork(w)
      PROVE  TypeOK'
  <2>0. prog' = prog /\ Workers' = Workers
    BY <1>5 DEF Fork, Workers
  <2>1. \A x \in Threads : next[x] + 1 \in Nat \ {0}
    BY <1>0
  <2>2. cur[w] \in Threads /\ Child(w) \in Threads
    <3>1. cur[w] # Nobody /\ Does(w, "fork")
      BY <1>0, <1>5 DEF Fork, Does, ControlInv
    <3>2. QED
      BY <1>0, <3>1, DoesFork
  <2>3. frames' \in [Workers' -> SUBSET Threads]
    BY <1>0, <1>5, <2>0, <2>2, FrameType DEF Fork
  <2>4. Append(queue[w], cur[w]) \in Seq(Threads)
    BY <1>0, <2>2
  <2>5. QED
    BY <1>0, <1>5, <2>0, <2>1, <2>2, <2>3, <2>4 DEF Fork
<1>6. ASSUME NEW w \in Workers, DieSerialized(w)
      PROVE  TypeOK'
  <2>0. prog' = prog /\ Workers' = Workers
    BY <1>6 DEF DieSerialized, Workers
  <2>1. SubSeq(queue[w], 1, Len(queue[w]) - 1) \in Seq(Threads)
    BY <1>0, <1>6, QueueType DEF DieSerialized
  <2>2. Parent[cur[w]] \in Threads
    <3>1. Len(queue[w]) \in Nat \ {0} /\ queue[w] \in Seq(Threads)
      BY <1>0, <1>6 DEF DieSerialized
    <3>2. Len(queue[w]) \in Lowest(w)..Len(queue[w])
      BY <3>1 DEF Lowest
    <3>3. HasForked(OnStack(w, Len(queue[w])), Above(w, Len(queue[w])))
      BY <3>2 DEF SchedInv, StackInv
    <3>4. PICK t \in Threads : t = queue[w][Len(queue[w])]
      BY <3>1
    <3>5. HasForked(t, cur[w])
      BY <3>1, <3>3, <3>4 DEF OnStack, Above
    <3>6. cur[w] \in Threads \ {Root}
      BY <1>0, <1>6 DEF DieSerialized, ControlInv, Dying
    <3>7. Parent[cur[w]] = t
      BY <1>0, <3>5, <3>6, ForkOnce, ParentIs
    <3>8. QED
      BY <3>7
  <2>3. QED
    BY <1>0, <1>6, <2>0, <2>1, <2>2 DEF DieSerialized
<1>7. ASSUME NEW w \in Workers, DieResumes(w)
      PROVE  TypeOK'
  <2>0. prog' = prog /\ Workers' = Workers
    BY <1>7 DEF DieResumes, Workers
  <2>1. cur[w] \in Threads /\ Asleep(cur[w])
    <3>1. cur[w] \in Threads
      BY <1>0, <1>7 DEF DieResumes, ControlInv, Dying
    <3>2. At(cur[w], "dieResume")
      BY <1>7 DEF DieResumes, At
    <3>3. QED
      BY <3>1, <3>2 DEF SchedInv, RaceInv
  <2>2. suspended[cur[w]] \in Threads
    BY <1>0, <2>1 DEF Asleep
  <2>3. frames' \in [Workers' -> SUBSET Threads]
    BY <1>0, <1>7, <2>0, <2>2, FrameType DEF DieResumes
  <2>4. QED
    BY <1>0, <1>7, <2>0, <2>2, <2>3 DEF DieResumes
<1>8. ASSUME NEW w \in Workers, NEW v \in Workers, Steal(w, v)
      PROVE  TypeOK'
  <2>0. prog' = prog /\ Workers' = Workers
    BY <1>8 DEF Steal, Workers
  <2>1. Head(queue[v]) \in Threads /\ Tail(queue[v]) \in Seq(Threads)
    BY <1>0, <1>8, QueueType DEF Steal
  <2>2. QED
    BY <1>0, <1>8, <2>0, <2>1 DEF Steal
<1>9. ASSUME NEW w \in Workers, StealCopies(w)
      PROVE  TypeOK'
  <2>0. prog' = prog /\ Workers' = Workers
    BY <1>9 DEF StealCopies, Workers
  <2>1. cur[w] \in Threads
    BY <1>0, <1>9 DEF StealCopies, ControlInv
  <2>2. frames' \in [Workers' -> SUBSET Threads]
    BY <1>0, <1>9, <2>0, <2>1, FrameType DEF StealCopies
  <2>3. QED
    BY <1>0, <1>9, <2>0, <2>2 DEF StealCopies
<1>10. ASSUME UNCHANGED vars
      PROVE  TypeOK'
  BY <1>0, <1>10 DEF vars, Workers
<1>11. QED
  BY <1>1, <1>2, <1>3, <1>4, <1>5, <1>6, <1>7, <1>8, <1>9, <1>10
     DEF Next, WorkerStep, StealFails, Done

-----------------------------------------------------------------------------
(* The stack.                                                               *)

\* The positions of a stack are threads.
LEMMA StackTypes ==
  ASSUME SchedInv, NEW w \in Workers, NEW k \in Lowest(w)..Len(queue[w])
  PROVE  OnStack(w, k) \in Threads /\ Above(w, k) \in Threads /\ cur[w] \in Threads
<1>0. TypeOK /\ ControlInv(w) /\ \A v \in Workers : ControlInv(v)
  BY DEF SchedInv
<1>1. queue[w] \in Seq(Threads) /\ Len(queue[w]) \in Nat /\ k \in Nat /\ k <= Len(queue[w])
  BY <1>0 DEF TypeOK, Lowest
<1>2. k = 0 => lock[w] # Nobody
  BY <1>1 DEF Lowest
<1>3. cur[w] \in Threads
  <2>1. SUFFICES ASSUME cur[w] = Nobody
        PROVE  FALSE
    BY <1>0 DEF TypeOK
  <2>2. Len(queue[w]) = 0 /\ Lowest(w) = 1
    BY <1>0, <2>1 DEF ControlInv, Lowest
  <2>3. QED
    BY <1>1, <2>2
<1>4. k = 0 => cur[lock[w]] \in Threads
  <2>1. ASSUME k = 0
        PROVE  cur[lock[w]] \in Threads
    <3>1. lock[w] \in Workers /\ pc[lock[w]] = "steal"
      BY <2>1, <1>0, <1>2 DEF TypeOK, ControlInv
    <3>2. cur[lock[w]] # Nobody
      BY <1>0, <3>1 DEF ControlInv
    <3>3. QED
      BY <1>0, <3>1, <3>2 DEF TypeOK
  <2>2. QED
    BY <2>1
<1>5. QED
  BY <1>1, <1>3, <1>4 DEF OnStack, Above

\* The thread above the top of the queue was forked by that, and those that it
\* has forked have been serialized.
LEMMA StackTop ==
  ASSUME SchedInv, NEW w \in Workers, queue[w] # <<>> \/ lock[w] # Nobody
  PROVE  /\ cur[w] \in Threads \ {Root}
         /\ OnStack(w, Len(queue[w])) \in Threads /\ HasForked(OnStack(w, Len(queue[w])), cur[w])
         /\ \A c \in Threads : HasForked(cur[w], c) => serialized[c] = TRUE
<1>0. TypeOK /\ StackInv(w) /\ queue[w] \in Seq(Threads)
  BY DEF SchedInv, TypeOK
<1>1. Len(queue[w]) \in Nat /\ (queue[w] # <<>> => Len(queue[w]) # 0)
  BY <1>0
<1>2. Len(queue[w]) \in Lowest(w)..Len(queue[w])
  BY <1>1 DEF Lowest
<1>3. Above(w, Len(queue[w])) = cur[w]
  BY <1>1 DEF Above
<1>4. PICK t \in Threads : t = OnStack(w, Len(queue[w]))
  BY <1>2, StackTypes
<1>5. cur[w] \in Threads
  BY <1>2, StackTypes
<1>6. HasForked(t, cur[w])
  BY <1>0, <1>2, <1>3, <1>4 DEF StackInv
<1>7. \A c \in Threads : HasForked(cur[w], c) => serialized[c] = TRUE
  BY <1>0, <1>1, <1>2, <1>3 DEF StackInv
<1>8. cur[w] # Root
  <2>1. PICK k \in DOMAIN Prog[t] : Prog[t][k] = ForkOf(cur[w])
    BY <1>6 DEF HasForked
  <2>2. ForkOf(cur[w]) \in Operations
    BY <1>0, <2>1, ProgFacts DEF TypeOK
  <2>3. QED
    BY <2>2, OperationIs DEF ForkOf
<1>9. QED
  BY <1>4, <1>5, <1>6, <1>7, <1>8

-----------------------------------------------------------------------------
(* The end of a thread.                                                     *)

\* A step that does not let the thread go on.
LEMMA IsLocal ==
  ASSUME TypeOK, NEW w \in Workers, NEW l, NEW t \in {cur[w], Nobody}, Moves(w, l, t),
         pc[w] # "steal", l # "steal", t = Nobody => queue[w] = <<>> /\ lock[w] = Nobody,
         UNCHANGED <<victim, queue, lock, frames, serialized, next>>,
         \A x \in Threads : x # cur[w] => (x \in evacuated' <=> x \in evacuated)
  PROVE  Local(w, l, t)
<1>1. next' \in [Threads -> Nat \ {0}] /\ \A x : next'[x] = next[x]
  BY DEF TypeOK
<1>2. \A x, c \in Threads : /\ HasForked(x, c)' <=> HasForked(x, c)
                            /\ HasJoined(x, c) => HasJoined(x, c)'
  BY <1>1, SameNext DEF Moves
<1>3. QED
  BY <1>1, <1>2 DEF Local

\* What SameThread says of the parent in a race.
LEMMA ParentKept ==
  ASSUME prog' = prog, NEW x, SameThread(x)
  PROVE  /\ \A c : (Joins(x, c)' <=> Joins(x, c)) /\ (HasJoined(x, c)' <=> HasJoined(x, c))
         /\ At(x, "joinFaa")' <=> At(x, "joinFaa")
         /\ At(x, "joinGet")' <=> At(x, "joinGet")
         /\ OnWorker(x)' <=> OnWorker(x)
         /\ x \in evacuated' <=> x \in evacuated
<1>1. next'[x] = next[x]
  BY DEF SameThread
<1>2. \A c : (Joins(x, c)' <=> Joins(x, c)) /\ (HasJoined(x, c)' <=> HasJoined(x, c))
  BY <1>1, SameNext
<1>3. QED
  BY <1>2 DEF SameThread, SamePlace, Watched

\* A thread ends, or finds the queue empty.
LEMMA EndStep ==
  ASSUME SchedInv, TypeOK', NEW w \in Workers, ThreadEnds(w) \/ DieDrifted(w)
  PROVE  SchedInv'
<1>0. TypeOK /\ PlaceInv /\ ControlInv(w) /\ StackInv(w) /\ prog \in Programs
  BY DEF SchedInv, TypeOK
<1>1. PICK u \in Threads : u = cur[w]
  BY <1>0 DEF ThreadEnds, DieDrifted, ControlInv, TypeOK, Dying
<1>2. PICK l : l = IF pc[w] = "die" THEN "diePut" ELSE IF u = Root THEN "rootDie" ELSE "die"
  OBVIOUS
<1>3. /\ Moves(w, l, u) /\ pc[w] \in {"run", "die"} /\ l \in {"diePut", "rootDie", "die"}
      /\ UNCHANGED <<victim, queue, lock, frames, serialized, next, evacuated, state, flag, retval, suspended>>
  BY <1>0, <1>1, <1>2 DEF ThreadEnds, DieDrifted, Moves, Goto, TypeOK, tsVars
<1>4. Local(w, l, u)
  BY <1>0, <1>1, <1>3, ProgFacts, IsLocal
<1>5. \A c \in Threads : SameState(c)
  BY <1>3 DEF SameState
<1>6. \A x \in Threads : SameThread(x)
  <2>1. \A x \in Threads : x # u => SameThread(x)
    BY <1>1, <1>4, LocalPlaces
  <2>2. SamePlace(u)
    <3>1. OnWorker(u)' /\ \A m : At(u, m)' <=> m = l
      <4>1. u # Nobody
        BY <1>0, ProgFacts
      <4>2. QED
        BY <4>1, <1>1, <1>4, LocalPlaces
    <3>2. OnWorker(u) /\ \A m : At(u, m) <=> m = pc[w]
      BY <1>0, <1>1, AtOne
    <3>3. QED
      BY <3>1, <3>2, <1>3 DEF SamePlace, Watched
  <2>3. QED
    BY <2>1, <2>2, <1>3 DEF SameThread
<1>7. PlaceInv'
  <2>1. u \notin evacuated
    BY <1>0, <1>1, <1>3 DEF PlaceInv
  <2>2. QED
    BY <2>1, <1>0, <1>1, <1>3, <1>4, LocalPlaceInv, ProgFacts DEF TypeOK
<1>8. ASSUME NEW x \in Threads
      PROVE  LifeInv(x)' /\ RaceInv(x)'
  <2>1. LifeInv(x) /\ RaceInv(x) /\ prog' = prog
    BY <1>3 DEF SchedInv, Moves
  <2>2. SamePlace(x) /\ SameThread(x) /\ SameState(x)
    BY <1>5, <1>6 DEF SameThread
  <2>3. InQueue(x)' <=> InQueue(x)
    BY <1>4, LocalPlaces
  <2>4. \A q \in Threads : (HasForked(q, x)' <=> HasForked(q, x)) /\ (HasJoined(q, x) => HasJoined(q, x)')
    BY <1>4 DEF Local
  <2>5. LifeInv(x)'
    BY <2>1, <2>2, <2>3, <2>4, LifeFrame
  <2>6. RaceInv(x)'
    BY <1>0, <1>6, <2>1, <2>2, RaceFrame
  <2>7. QED
    BY <2>5, <2>6
<1>9. JoiningInv(w)' /\ pc'[w] = l /\ cur'[w] = u
  <2>1. pc'[w] = l /\ cur'[w] = u
    BY <1>4, LocalPlaces
  <2>2. QED
    BY <2>1, <1>3 DEF JoiningInv, Joining
<1>10. ControlInv(w)'
  <2>1. Prog' = Prog
    BY <1>4, LocalPlaces
  <2>2. next[u] > Len(Prog[u])
    BY <1>0, <1>1 DEF ThreadEnds, DieDrifted, ControlInv, Dying
  <2>3. l = "rootDie" => u = Root /\ queue[w] = <<>> /\ lock[w] = Nobody
    BY <1>1, <1>2, StackTop
  <2>4. l = "diePut" => queue[w] = <<>> /\ lock[w] = Nobody
    BY <1>2, <1>3 DEF DieDrifted, ThreadEnds
  <2>5. l # "rootDie" => u # Root
    BY <1>0, <1>1, <1>2, <1>3 DEF ControlInv, Dying
  <2>6. lock[w] # Nobody => lock[w] # w /\ pc'[lock[w]] = "steal" /\ victim[lock[w]] = w
    <3>1. ASSUME lock[w] # Nobody
          PROVE  lock[w] \in Workers /\ lock[w] # w /\ pc[lock[w]] = "steal" /\ victim[lock[w]] = w
      BY <3>1, <1>0 DEF ControlInv, TypeOK
    <3>2. QED
      BY <3>1, <1>4, LocalPlaces
  <2>7. u # Nobody
    BY <1>0, ProgFacts
  <2>8. QED
    BY <1>0, <1>3, <1>9, <2>1, <2>2, <2>3, <2>4, <2>5, <2>6, <2>7
       DEF ControlInv, Dying, RootDying, Joining
<1>11. QED
  BY <1>0, <1>1, <1>3, <1>4, <1>5, <1>7, <1>8, <1>9, <1>10, LocalDone, ProgFacts

\* The steps of a thread that ends with its queue empty, but for what they do to its
\* own state.
LEMMA DieLocal ==
  ASSUME SchedInv, TypeOK', NEW w \in Workers, NEW u \in Threads, u = cur[w], NEW l, NEW t \in {u, Nobody},
         Moves(w, l, t), pc[w] \in {"diePut", "dieFaa", "rootDie", "rootFlag"},
         \/ l = "sched" /\ t = Nobody
         \/ l \in {"dieFaa", "dieResume"} /\ t = u /\ u # Root
         \/ l = "rootFlag" /\ t = u /\ u = Root,
         UNCHANGED <<victim, queue, lock, frames, serialized, next, evacuated, state, suspended>>,
         \A x \in Threads : x # u => flag'[x] = flag[x] /\ retval'[x] = retval[x],
         LifeInv(u)', RaceInv(u)'
  PROVE  SchedInv'
<1>0. TypeOK /\ PlaceInv /\ ControlInv(w) /\ prog \in Programs
  BY DEF SchedInv, TypeOK
<1>1. u # Nobody /\ Nobody \notin Threads
  BY <1>0, ProgFacts
<1>2. queue[w] = <<>> /\ lock[w] = Nobody /\ next[u] > Len(Prog[u]) /\ u \notin evacuated
  BY <1>0 DEF ControlInv, PlaceInv, Dying, RootDying
<1>3. Local(w, l, t)
  BY <1>0, <1>2, IsLocal
<1>4. \A c \in Threads : c # u => SameState(c)
  BY DEF SameState
<1>5. PlaceInv'
  BY <1>0, <1>1, <1>2, <1>3, LocalPlaceInv DEF TypeOK
<1>6. pc'[w] = l /\ cur'[w] = t /\ Prog' = Prog
  BY <1>3, LocalPlaces
<1>7. JoiningInv(w)'
  BY <1>6 DEF JoiningInv, Joining
<1>8. ControlInv(w)'
  BY <1>1, <1>2, <1>6 DEF ControlInv, Dying, RootDying, Joining
<1>9. \A x \in Threads : Joins(u, x) => SameState(x)
  <2>1. SUFFICES ASSUME Joins(u, u)
        PROVE  FALSE
    BY <1>4
  <2>2. next[u] \in DOMAIN Prog[u]
    BY <2>1 DEF Joins
  <2>3. next[u] <= Len(Prog[u])
    BY <2>2, <1>0, ProgFacts
  <2>4. Len(Prog[u]) \in Nat /\ next[u] \in Nat
    BY <1>0, ProgFacts DEF TypeOK
  <2>5. QED
    BY <1>2, <2>3, <2>4
<1>10. pc[w] \notin Joining
  BY DEF Joining
<1>11. QED
  BY <1>1, <1>3, <1>4, <1>5, <1>7, <1>8, <1>9, <1>10, LocalDone

\* The parent of an ended thread stays where it is, if it waits or goes to sleep.
LEMMA ParentWaits ==
  ASSUME SchedInv, NEW w \in Workers, NEW l, NEW t, Local(w, l, t), NEW u \in Threads, u = cur[w],
         pc[w] # "joinFaa", AboutToSleep(u) \/ Asleep(u)
  PROVE  \E q \in Threads : q = suspended[u] /\ q # u /\ SameThread(q)
<1>0. TypeOK /\ PlaceInv
  BY DEF SchedInv
<1>1. PICK q \in Threads : q = suspended[u]
  BY <1>0 DEF AboutToSleep, Asleep, TypeOK
<1>2. q # u
  BY <1>0, <1>1, AtOne DEF AboutToSleep, Asleep
<1>3. QED
  BY <1>1, <1>2, LocalPlaces

\* A thread that a worker has.
LEMMA Working ==
  ASSUME SchedInv, NEW w \in Workers, NEW u \in Threads, u = cur[w]
  PROVE  /\ u # Nobody /\ OnWorker(u) /\ (\A m : At(u, m) <=> m = pc[w]) /\ ~InQueue(u)
         /\ u \in evacuated => pc[w] = "joinFaa"
         /\ state[u] = "allocated" /\ serialized[u] = FALSE
         /\ retval[u] = IF pc[w] \in {"dieFaa", "dieResume", "rootFlag"} THEN TRUE ELSE FALSE
<1>0. TypeOK /\ PlaceInv /\ LifeInv(u) /\ prog \in Programs
  BY DEF SchedInv, TypeOK
<1>1. OnWorker(u) /\ (\A m : At(u, m) <=> m = pc[w])
  BY <1>0, AtOne
<1>2. ~InQueue(u) /\ (u \in evacuated => pc[w] = "joinFaa")
  BY <1>0, <1>1 DEF PlaceInv
<1>3. state[u] = "allocated"
  BY <1>0, <1>1 DEF LifeInv, TypeOK
<1>4. serialized[u] = FALSE
  BY <1>0, <1>3 DEF LifeInv, TypeOK
<1>5. retval[u] = IF pc[w] \in {"dieFaa", "dieResume", "rootFlag"} THEN TRUE ELSE FALSE
  BY <1>0, <1>1 DEF LifeInv, TypeOK
<1>6. QED
  BY <1>0, <1>1, <1>2, <1>3, <1>4, <1>5, ProgFacts

\* on_die puts the return value.
LEMMA DiePutStep ==
  ASSUME SchedInv, TypeOK', NEW w \in Workers, DiePut(w)
  PROVE  SchedInv'
<1>0. TypeOK /\ PlaceInv /\ ControlInv(w) /\ prog \in Programs
  BY DEF SchedInv, TypeOK
<1>1. PICK u \in Threads : u = cur[w]
  BY <1>0 DEF DiePut, ControlInv, TypeOK, Dying
<1>2. /\ Moves(w, "dieFaa", u) /\ pc[w] = "diePut" /\ u # Root
      /\ UNCHANGED <<victim, queue, lock, frames, serialized, next, evacuated, state, suspended>>
      /\ flag' = flag /\ retval'[u] = TRUE /\ \A x \in Threads : x # u => retval'[x] = retval[x]
  BY <1>0, <1>1 DEF DiePut, Moves, Goto, TypeOK, tsVars, ControlInv, Dying
<1>3. Local(w, "dieFaa", u) /\ u # Nobody
  BY <1>0, <1>1, <1>2, IsLocal, ProgFacts
<1>4. /\ OnWorker(u)' /\ (\A m : At(u, m)' <=> m = "dieFaa")
      /\ InQueue(u)' <=> InQueue(u)
      /\ Prog' = Prog
  BY <1>1, <1>3, LocalPlaces
<1>5. OnWorker(u) /\ (\A m : At(u, m) <=> m = pc[w]) /\ ~InQueue(u)
  BY <1>1, <1>2, Working
<1>6. LifeInv(u) /\ RaceInv(u) /\ next[u] > Len(Prog[u])
  BY <1>0, <1>1, <1>2 DEF SchedInv, ControlInv, Dying
<1>7. state[u] = "allocated" /\ retval[u] = FALSE /\ serialized[u] = FALSE
  BY <1>1, <1>2, Working
<1>8. LifeInv(u)'
  <2>1. \A q \in Threads : HasForked(q, u)' <=> HasForked(q, u)
    BY <1>3 DEF Local
  <2>2. QED
    BY <2>1, <1>2, <1>4, <1>5, <1>6, <1>7 DEF LifeInv
<1>9. Early(u)' /\ ~At(u, "dieResume")' /\ ~Late(u) /\ ~At(u, "dieResume")
  BY <1>2, <1>4, <1>5, <1>7 DEF Early, Late
<1>10. RaceInv(u)'
  <2>1. CASE NotJoined(u)
    <3>1. NotJoined(u)'
      BY <2>1, <1>2, <1>9 DEF NotJoined
    <3>2. QED
      BY <3>1, <1>2, <1>9 DEF RaceInv
  <2>2. CASE AboutToSleep(u) \/ Asleep(u)
    <3>1. PICK q \in Threads : q = suspended[u] /\ q # u /\ SameThread(q)
      BY <2>2, <1>1, <1>2, <1>3, ParentWaits
    <3>2. /\ Joins(q, u)' <=> Joins(q, u)
          /\ At(q, "joinFaa")' <=> At(q, "joinFaa")
          /\ OnWorker(q)' <=> OnWorker(q)
          /\ q \in evacuated' <=> q \in evacuated
      BY <3>1, <1>2, ParentKept DEF Moves
    <3>3. AboutToSleep(u) => AboutToSleep(u)'
      BY <3>1, <3>2, <1>2, <1>9 DEF AboutToSleep
    <3>4. Asleep(u) => Asleep(u)'
      BY <3>1, <3>2, <1>2, <1>9 DEF Asleep
    <3>5. QED
      BY <2>2, <3>3, <3>4, <1>2, <1>9 DEF RaceInv
  <2>3. CASE Over(u)
    BY <2>3, <1>9 DEF Over
  <2>4. QED
    BY <1>2, <1>6, <2>1, <2>2, <2>3 DEF RaceInv
<1>11. QED
  BY <1>1, <1>2, <1>8, <1>10, DieLocal

\* The ended thread comes first, or last, at its side of the race.
LEMMA DieRaceStep ==
  ASSUME SchedInv, TypeOK', NEW w \in Workers, DieWinsRace(w) \/ DieLosesRace(w)
  PROVE  SchedInv'
<1>0. TypeOK /\ PlaceInv /\ ControlInv(w) /\ prog \in Programs
  BY DEF SchedInv, TypeOK
<1>1. PICK u \in Threads : u = cur[w]
  BY <1>0 DEF DieWinsRace, DieLosesRace, ControlInv, TypeOK, Dying
<1>2. PICK l, t : /\ flag[u] = 0 => l = "sched" /\ t = Nobody
                  /\ flag[u] # 0 => l = "dieResume" /\ t = u
  <2>1. CASE flag[u] = 0
    BY <2>1
  <2>2. CASE flag[u] # 0
    BY <2>2
  <2>3. QED
    BY <2>1, <2>2
<1>3. /\ Moves(w, l, t) /\ pc[w] = "dieFaa" /\ u # Root
      /\ UNCHANGED <<victim, queue, lock, frames, serialized, next, evacuated, state, suspended, retval>>
      /\ flag'[u] = flag[u] + 1 /\ \A x \in Threads : x # u => flag'[x] = flag[x]
  <2>1. CASE flag[u] = 0
    BY <1>0, <1>1, <1>2, <2>1
       DEF DieWinsRace, DieLosesRace, Moves, Goto, ToSched, TypeOK, ControlInv, Dying
  <2>2. CASE flag[u] # 0
    BY <1>0, <1>1, <1>2, <2>2
       DEF DieWinsRace, DieLosesRace, Moves, Goto, ToSched, TypeOK, ControlInv, Dying
  <2>3. QED
    BY <2>1, <2>2
<1>4. Local(w, l, t) /\ t \in {u, Nobody}
  <2>1. queue[w] = <<>> /\ lock[w] = Nobody
    BY <1>0, <1>3 DEF ControlInv
  <2>2. QED
    BY <2>1, <1>0, <1>1, <1>2, <1>3, IsLocal
<1>5. /\ u # Nobody /\ OnWorker(u) /\ (\A m : At(u, m) <=> m = pc[w]) /\ ~InQueue(u)
      /\ state[u] = "allocated" /\ serialized[u] = FALSE /\ retval[u] = TRUE /\ u \notin evacuated
  BY <1>1, <1>3, Working
<1>6. /\ flag[u] = 0 => ~OnWorker(u)' /\ \A m : ~At(u, m)'
      /\ flag[u] # 0 => OnWorker(u)' /\ \A m : At(u, m)' <=> m = l
      /\ InQueue(u)' <=> InQueue(u)
      /\ Prog' = Prog
  <2>1. /\ t = Nobody => ~OnWorker(u)' /\ \A m : ~At(u, m)'
        /\ t # Nobody => OnWorker(u)' /\ \A m : At(u, m)' <=> m = l
    BY <1>1, <1>4, LocalPlaces
  <2>2. (InQueue(u)' <=> InQueue(u)) /\ Prog' = Prog
    BY <1>4, LocalPlaces
  <2>3. QED
    BY <1>2, <1>5, <2>1, <2>2
<1>7. LifeInv(u) /\ RaceInv(u) /\ flag[u] \in Nat
  BY <1>0 DEF SchedInv, TypeOK
<1>8. LifeInv(u)'
  <2>1. \A q \in Threads : HasForked(q, u)' <=> HasForked(q, u)
    BY <1>4 DEF Local
  <2>2. QED
    BY <2>1, <1>2, <1>3, <1>5, <1>6, <1>7 DEF LifeInv
<1>9. ~Late(u) /\ ~At(u, "dieResume") /\ Early(u) /\ (flag[u] = 0 => Late(u)')
  BY <1>2, <1>3, <1>5, <1>6 DEF Late, Early
<1>10. RaceInv(u)'
  <2>1. CASE NotJoined(u)
    <3>1. flag[u] = 0 /\ NotJoined(u)'
      BY <2>1, <1>3, <1>9 DEF NotJoined
    <3>2. QED
      BY <3>1, <1>3, <1>6 DEF RaceInv
  <2>2. CASE AboutToSleep(u) \/ Asleep(u)
    <3>1. PICK q \in Threads : q = suspended[u] /\ q # u /\ SameThread(q)
      BY <2>2, <1>1, <1>3, <1>4, ParentWaits
    <3>2. /\ Joins(q, u)' <=> Joins(q, u)
          /\ At(q, "joinFaa")' <=> At(q, "joinFaa")
          /\ OnWorker(q)' <=> OnWorker(q)
          /\ q \in evacuated' <=> q \in evacuated
      BY <3>1, <1>3, ParentKept DEF Moves
    <3>3. AboutToSleep(u) => AboutToSleep(u)' /\ flag[u] = 0
      BY <3>1, <3>2, <1>3, <1>9 DEF AboutToSleep
    <3>4. Asleep(u) => flag[u] = 1 /\ Asleep(u)'
      BY <3>1, <3>2, <1>2, <1>3, <1>6, <1>9 DEF Asleep
    <3>5. QED
      BY <2>2, <3>3, <3>4, <1>2, <1>3, <1>6 DEF RaceInv
  <2>3. CASE Over(u)
    BY <2>3, <1>9 DEF Over
  <2>4. QED
    BY <1>3, <1>7, <2>1, <2>2, <2>3 DEF RaceInv
<1>11. (l = "sched" /\ t = Nobody) \/ (l \in {"dieFaa", "dieResume"} /\ t = u /\ u # Root)
  BY <1>2, <1>3
<1>12. QED
  BY <1>1, <1>3, <1>4, <1>8, <1>10, <1>11, DieLocal

\* The root thread puts its return value, and then its flag.
LEMMA RootDieStep ==
  ASSUME SchedInv, TypeOK', NEW w \in Workers, RootPut(w) \/ RootFlag(w)
  PROVE  SchedInv'
<1>0. TypeOK /\ PlaceInv /\ ControlInv(w) /\ prog \in Programs
  BY DEF SchedInv, TypeOK
<1>1. PICK u \in Threads : u = cur[w] /\ u = Root
  BY <1>0, ProgFacts DEF RootPut, RootFlag, ControlInv, RootDying
<1>2. PICK l, t : /\ RootPut(w) => l = "rootFlag" /\ t = u
                  /\ ~RootPut(w) => l = "sched" /\ t = Nobody
  <2>1. CASE RootPut(w)
    BY <2>1
  <2>2. CASE ~RootPut(w)
    BY <2>2
  <2>3. QED
    BY <2>1, <2>2
<1>3. /\ Moves(w, l, t) /\ pc[w] = (IF RootPut(w) THEN "rootDie" ELSE "rootFlag")
      /\ UNCHANGED <<victim, queue, lock, frames, serialized, next, evacuated, state, suspended>>
      /\ RootPut(w) => retval'[u] = TRUE
      /\ ~RootPut(w) => retval' = retval
      /\ \A x \in Threads : x # u => flag'[x] = flag[x] /\ retval'[x] = retval[x]
  <2>1. CASE RootPut(w)
    <3>1. l = "rootFlag" /\ t = cur[w] /\ cur' = cur /\ cur \in [Workers -> Threads \cup {Nobody}]
      BY <1>0, <1>1, <1>2, <2>1 DEF RootPut, TypeOK
    <3>2. Moves(w, l, t) /\ pc[w] = "rootDie"
      BY <2>1, <3>1 DEF RootPut, Moves, Goto
    <3>3. UNCHANGED <<victim, queue, lock, frames, serialized, next, evacuated, state, suspended, flag>>
      BY <2>1 DEF RootPut
    <3>4. retval'[u] = TRUE /\ \A x \in Threads : x # u => retval'[x] = retval[x]
      BY <1>0, <1>1, <2>1 DEF RootPut, TypeOK
    <3>5. QED
      BY <2>1, <3>2, <3>3, <3>4
  <2>2. CASE ~RootPut(w)
    BY <1>0, <1>1, <1>2, <2>2 DEF RootFlag, Moves, Goto, ToSched, TypeOK, tsVars
  <2>3. QED
    BY <2>1, <2>2
<1>4. Local(w, l, t) /\ t \in {u, Nobody}
  <2>1. queue[w] = <<>> /\ lock[w] = Nobody
    BY <1>0, <1>3 DEF ControlInv, RootDying
  <2>2. QED
    BY <2>1, <1>0, <1>1, <1>2, <1>3, IsLocal
<1>5. /\ u # Nobody /\ OnWorker(u) /\ (\A m : At(u, m) <=> m = pc[w]) /\ ~InQueue(u)
      /\ state[u] = "allocated" /\ serialized[u] = FALSE /\ u \notin evacuated
      /\ ~RootPut(w) => retval[u] = TRUE
  BY <1>1, <1>3, Working
<1>6. /\ ~RootPut(w) => ~OnWorker(u)' /\ \A m : ~At(u, m)'
      /\ RootPut(w) => OnWorker(u)' /\ \A m : At(u, m)' <=> m = l
      /\ InQueue(u)' <=> InQueue(u)
      /\ Prog' = Prog
  <2>1. /\ t = Nobody => ~OnWorker(u)' /\ \A m : ~At(u, m)'
        /\ t # Nobody => OnWorker(u)' /\ \A m : At(u, m)' <=> m = l
    BY <1>1, <1>4, LocalPlaces
  <2>2. (InQueue(u)' <=> InQueue(u)) /\ Prog' = Prog
    BY <1>4, LocalPlaces
  <2>3. QED
    BY <1>2, <1>5, <2>1, <2>2
<1>7. LifeInv(u) /\ RaceInv(u) /\ next[u] > Len(Prog[u])
  BY <1>0, <1>1, <1>3 DEF SchedInv, ControlInv, RootDying
<1>8. LifeInv(u)'
  <2>1. \A q \in Threads : HasForked(q, u)' <=> HasForked(q, u)
    BY <1>4 DEF Local
  <2>2. QED
    BY <2>1, <1>2, <1>3, <1>5, <1>6, <1>7 DEF LifeInv
<1>9. RaceInv(u)'
  <2>1. suspended'[u] = Nobody /\ ~At(u, "dieResume")'
    BY <1>1, <1>2, <1>3, <1>6, <1>7 DEF RaceInv
  <2>2. CASE RootPut(w)
    <3>1. flag[u] = 0 /\ flag' = flag
      BY <1>1, <1>5, <1>7, <2>2 DEF RaceInv, Late, RootPut
    <3>2. QED
      BY <1>1, <2>1, <3>1 DEF RaceInv
  <2>3. CASE ~RootPut(w)
    <3>1. Late(u)'
      BY <1>3, <1>5, <1>6, <2>3 DEF Late
    <3>2. QED
      BY <1>1, <2>1, <3>1 DEF RaceInv
  <2>4. QED
    BY <2>2, <2>3
<1>10. (l = "sched" /\ t = Nobody) \/ (l = "rootFlag" /\ t = u /\ u = Root)
  BY <1>1, <1>2
<1>11. QED
  BY <1>1, <1>3, <1>4, <1>8, <1>9, <1>10, DieLocal

-----------------------------------------------------------------------------
(* join.                                                                    *)

\* What u finds when it joins c.
Joinable(w, u, c) ==
  /\ c # u /\ c # Root /\ HasForked(u, c) /\ ~HasJoined(u, c)
  /\ suspended[c] \in {u, Nobody}
  /\ serialized[c] = FALSE => state[c] = "allocated" /\ queue[w] = <<>> /\ lock[w] = Nobody

\* The thread that is about to be joined.
LEMMA JoinFacts ==
  ASSUME SchedInv, NEW w \in Workers, NEW u \in Threads, u = cur[w], NEW c \in Threads, Joins(u, c)
  PROVE  Joinable(w, u, c)
<1>0. TypeOK /\ LifeInv(c) /\ LifeInv(u) /\ RaceInv(c)
  BY DEF SchedInv
<1>1. HasForked(u, c) /\ ~HasJoined(u, c) /\ \A q \in Threads : HasJoined(q, c) \/ Joins(q, c) => q = u
  BY <1>0, JoinOnce
<1>2. c # u
  BY <1>0, <1>1 DEF LifeInv
<1>3. c # Root
  <2>1. JoinOf(c) \in Operations
    BY <1>0, ProgFacts DEF TypeOK, Joins
  <2>2. QED
    BY <2>1, OperationIs DEF JoinOf
<1>4. suspended[c] \in {u, Nobody}
  BY <1>0, <1>1, <1>3 DEF RaceInv, NotJoined, AboutToSleep, Asleep, Over, TypeOK
<1>5. ASSUME serialized[c] = FALSE
      PROVE  state[c] = "allocated"
  BY <1>0, <1>1, <1>3, <1>5 DEF LifeInv, TypeOK
<1>6. ASSUME serialized[c] = FALSE
      PROVE  queue[w] = <<>> /\ lock[w] = Nobody
  BY <1>1, <1>6, StackTop
<1>7. QED
  BY <1>1, <1>2, <1>3, <1>4, <1>5, <1>6 DEF Joinable

\* The race of a thread that works, which has not ended.
LEMMA SelfRace ==
  ASSUME TypeOK, prog' = prog, NEW u \in Threads, RaceInv(u), SameState(u), retval[u] = FALSE,
         ~At(u, "dieResume"), ~At(u, "dieResume")',
         \A q \in Threads : q = suspended[u] => SameThread(q)
  PROVE  RaceInv(u)'
<1>1. Early(u) /\ ~Late(u) /\ Early(u)'
  BY DEF Early, Late, SameState
<1>2. CASE u = Root
  <2>1. flag[u] = 0 /\ suspended[u] = Nobody
    BY <1>1, <1>2 DEF RaceInv
  <2>2. QED
    BY <1>2, <2>1 DEF RaceInv, SameState
<1>3. CASE NotJoined(u)
  <2>1. NotJoined(u)'
    BY <1>3, <1>1 DEF NotJoined, SameState
  <2>2. QED
    BY <2>1 DEF RaceInv, NotJoined
<1>4. CASE u # Root /\ (AboutToSleep(u) \/ Asleep(u))
  <2>1. PICK q \in Threads : q = suspended[u]
    BY <1>4, ProgFacts DEF AboutToSleep, Asleep, TypeOK
  <2>2. q = suspended'[u] /\ flag'[u] = flag[u]
    BY <2>1 DEF SameState
  <2>3. /\ Joins(q, u)' <=> Joins(q, u)
        /\ At(q, "joinFaa")' <=> At(q, "joinFaa")
        /\ OnWorker(q)' <=> OnWorker(q)
        /\ q \in evacuated' <=> q \in evacuated
    BY <2>1, ParentKept
  <2>4. AboutToSleep(u) => AboutToSleep(u)'
    BY <1>1, <2>1, <2>2, <2>3 DEF AboutToSleep
  <2>5. Asleep(u) => Asleep(u)'
    BY <1>1, <2>1, <2>2, <2>3 DEF Asleep
  <2>6. QED
    BY <1>4, <2>4, <2>5 DEF RaceInv
<1>5. ~Over(u)
  BY <1>1 DEF Over
<1>6. QED
  BY <1>2, <1>3, <1>4, <1>5 DEF RaceInv

\* The steps of join, but for what they do to the thread that is joined.
LEMMA JoinLocal ==
  ASSUME SchedInv, TypeOK', NEW w \in Workers, NEW u \in Threads, u = cur[w], NEW c \in Threads,
         Joins(u, c), NEW l, NEW t, Local(w, l, t), PlaceInv', pc[w] \in {"run"} \cup Joining,
         \/ l = "run" /\ t = u
         \/ l \in Joining /\ t = u /\ next' = next
         \/ l = "sched" /\ t = Nobody /\ u \in evacuated',
         (queue[w] = <<>> /\ lock[w] = Nobody) \/ l = "run",
         \A x \in Threads : x # c => SameState(x),
         JoiningInv(w)', LifeInv(c)', RaceInv(c)'
  PROVE  SchedInv'
<1>0. TypeOK /\ PlaceInv /\ ControlInv(w) /\ LifeInv(u) /\ RaceInv(u) /\ prog' = prog
  BY DEF SchedInv, Local, Moves
<1>1. c # u /\ u # Nobody
  <2>1. c # u
    <3>1. Joinable(w, u, c)
      BY JoinFacts
    <3>2. QED
      BY <3>1 DEF Joinable
  <2>2. u # Nobody
    BY Working
  <2>3. QED
    BY <2>1, <2>2
<1>2. SameState(u) /\ state[u] = "allocated" /\ retval[u] = FALSE /\ serialized[u] = FALSE
  BY <1>1, Working DEF Joining
<1>3. /\ pc'[w] = l /\ cur'[w] = t /\ Prog' = Prog
      /\ \A v \in Workers : v # w => pc'[v] = pc[v]
  BY LocalPlaces
<1>4. /\ t = Nobody => ~OnWorker(u)' /\ \A m : ~At(u, m)'
      /\ t # Nobody => OnWorker(u)' /\ \A m : At(u, m)' <=> m = l
  BY LocalPlaces, ZenonT(40)
<1>5. ~At(u, "dieResume")' /\ ~At(u, "dieFaa")' /\ ~At(u, "rootFlag")'
  BY <1>1, <1>4 DEF Joining
<1>6. LifeInv(u)'
  <2>1. \A q \in Threads : HasForked(q, u)' <=> HasForked(q, u)
    BY DEF Local
  <2>2. OnWorker(u)' \/ u \in evacuated'
    BY <1>1, <1>4
  <2>3. QED
    BY <2>1, <2>2, <1>0, <1>2, <1>5 DEF LifeInv, SameState
<1>7. RaceInv(u)'
  <2>1. ~At(u, "dieResume") /\ OnWorker(u)
    BY Working DEF Joining
  <2>2. suspended[u] # u
    <3>1. SUFFICES ASSUME suspended[u] = u
          PROVE  FALSE
      OBVIOUS
    <3>2. ~Joins(u, u)
      BY <1>0, <1>1, JoinOnce
    <3>3. Over(u)
      BY <1>0, <1>1, <3>1, <3>2, HasBeenJoined
    <3>4. QED
      BY <2>1, <3>3 DEF Over, Late
  <2>3. \A q \in Threads : q = suspended[u] => SameThread(q)
    BY <2>2, LocalPlaces
  <2>4. QED
    BY <1>0, <1>2, <1>5, <2>1, <2>3, SelfRace
<1>8. ControlInv(w)'
  <2>1. ASSUME l \in Joining
        PROVE  \E x \in Threads : Joins(t, x)'
    <3>1. next'[u] = next[u] /\ t = u
      BY <2>1 DEF Joining
    <3>2. Joins(u, c)'
      BY <3>1, <1>0, SameNext
    <3>3. cur'[w] = u
      BY <3>1, <1>3
    <3>4. QED
      BY <3>1, <3>2
  <2>2. l \in Joining => \E x \in Threads : Joins(cur[w], x)'
    <3>1. ASSUME l \in Joining
          PROVE  \E x \in Threads : Joins(cur[w], x)'
      <4>1. PICK x \in Threads : Joins(t, x)'
        BY <2>1, <3>1
      <4>2. t = cur'[w]
        BY <1>3
      <4>3. QED
        BY <4>1, <4>2
    <3>2. QED
      BY <3>1
  <2>3. queue' = queue /\ lock' = lock /\ victim' = victim
    BY DEF Local
  <2>4. lock[w] # Nobody => lock[w] # w /\ pc'[lock[w]] = "steal" /\ victim[lock[w]] = w
    <3>1. ASSUME lock[w] # Nobody
          PROVE  lock[w] \in Workers /\ lock[w] # w /\ pc[lock[w]] = "steal" /\ victim[lock[w]] = w
      BY <3>1, <1>0 DEF ControlInv, TypeOK
    <3>2. QED
      BY <3>1, <1>3
  <2>5. CASE l = "run" /\ t = u
    BY <1>1, <1>3, <2>3, <2>4, <2>5 DEF ControlInv, Dying, RootDying, Joining
  <2>6. CASE l \in Joining /\ t = u
    BY <1>1, <1>3, <2>2, <2>3, <2>6 DEF ControlInv, Dying, RootDying, Joining
  <2>7. CASE l = "sched" /\ t = Nobody
    BY <1>3, <2>3, <2>7 DEF ControlInv, Dying, RootDying, Joining
  <2>8. QED
    BY <2>5, <2>6, <2>7
<1>9. \A x \in Threads : Joins(u, x) => x = c
  BY <1>0, JoinOnce
<1>10. state'[u] = state[u] /\ suspended'[u] = suspended[u]
  BY <1>2 DEF SameState
<1>11. QED
  BY <1>1, <1>6, <1>7, <1>8, <1>9, <1>10, LocalDone

\* The thread that is joined was serialized.
LEMMA JoinSerializedStep ==
  ASSUME SchedInv, TypeOK', NEW w \in Workers, JoinSerialized(w)
  PROVE  SchedInv'
<1>0. TypeOK /\ PlaceInv /\ ControlInv(w) /\ prog \in Programs /\ cur[w] # Nobody /\ Does(w, "join")
  BY DEF SchedInv, TypeOK, JoinSerialized, Does, ControlInv
<1>1. PICK u \in Threads, c \in Threads : u = cur[w] /\ c = Child(w) /\ Joins(u, c)
  BY <1>0, DoesJoin
<1>2. /\ Moves(w, "run", u) /\ pc[w] = "run" /\ next' = [next EXCEPT ![u] = @ + 1]
      /\ UNCHANGED <<victim, queue, lock, frames, serialized, evacuated, state, flag, retval, suspended>>
  BY <1>0, <1>1 DEF JoinSerialized, Moves, TypeOK, tsVars, Does
<1>3. Local(w, "run", u)
  <2>1. next[u] \in DOMAIN Prog[u] /\ Prog[u][next[u]] = JoinOf(c) /\ prog' = prog
    BY <1>1, <1>2 DEF Joins, Moves
  <2>2. /\ next' \in [Threads -> Nat \ {0}]
        /\ \A x \in Threads : x # u => next'[x] = next[x]
        /\ \A d : /\ HasForked(u, d)' <=> HasForked(u, d) \/ Prog[u][next[u]] = ForkOf(d)
                  /\ HasJoined(u, d)' <=> HasJoined(u, d) \/ Prog[u][next[u]] = JoinOf(d)
    BY <1>0, <1>2, <2>1, GoesOn
  <2>3. \A d : (HasForked(u, d)' <=> HasForked(u, d)) /\ (HasJoined(u, d) => HasJoined(u, d)')
    BY <2>1, <2>2, OperationsDiffer
  <2>4. \A x \in Threads : x # u => \A d : /\ HasForked(x, d)' <=> HasForked(x, d)
                                           /\ HasJoined(x, d)' <=> HasJoined(x, d)
    BY <2>1, <2>2, SameNext
  <2>5. u # Nobody
    BY <1>0, ProgFacts
  <2>6. QED
    BY <1>1, <1>2, <2>2, <2>3, <2>4, <2>5 DEF Local
<1>4. \A x \in Threads : SameState(x)
  BY <1>2 DEF SameState
<1>5. c # u /\ u # Nobody
  <2>1. c # u
    <3>1. Joinable(w, u, c)
      BY <1>1, JoinFacts
    <3>2. QED
      BY <3>1 DEF Joinable
  <2>2. QED
    BY <2>1, <1>0, ProgFacts
<1>6. u \notin evacuated
  BY <1>1, <1>2, Working
<1>7. PlaceInv'
  BY <1>0, <1>1, <1>2, <1>3, <1>5, <1>6, LocalPlaceInv DEF TypeOK
<1>8. LifeInv(c)'
  BY <1>1, <1>3, <1>4, <1>5, LocalLife
<1>9. RaceInv(c)'
  <2>1. pc[w] \notin Joining
    BY <1>2 DEF Joining
  <2>2. QED
    BY <2>1, <1>1, <1>3, <1>4, <1>5, LocalRace
<1>10. JoiningInv(w)'
  <2>1. pc'[w] = "run"
    BY <1>3, LocalPlaces
  <2>2. QED
    BY <2>1 DEF JoiningInv, Joining
<1>11. QED
  BY <1>1, <1>2, <1>3, <1>4, <1>7, <1>8, <1>9, <1>10, JoinLocal

\* The thread that is joined has ended.
LEMMA JoinEndedStep ==
  ASSUME SchedInv, TypeOK', NEW w \in Workers, JoinEnded(w)
  PROVE  SchedInv'
<1>0. TypeOK /\ PlaceInv /\ ControlInv(w) /\ prog \in Programs /\ cur[w] # Nobody /\ Does(w, "join")
  BY DEF SchedInv, TypeOK, JoinEnded, Does, ControlInv
<1>1. PICK u \in Threads, c \in Threads : u = cur[w] /\ c = Child(w) /\ Joins(u, c)
  BY <1>0, DoesJoin
<1>2. /\ Moves(w, "joinGet", u) /\ pc[w] = "run" /\ serialized[c] = FALSE /\ flag[c] # 0
      /\ UNCHANGED <<victim, queue, lock, frames, serialized, next, evacuated, state, flag, retval, suspended>>
  BY <1>0, <1>1 DEF JoinEnded, Moves, TypeOK, tsVars, Does, Goto
<1>3. /\ c # u /\ c # Root /\ ~HasJoined(u, c) /\ suspended[c] \in {u, Nobody}
      /\ state[c] = "allocated" /\ queue[w] = <<>> /\ lock[w] = Nobody
  <2>1. Joinable(w, u, c)
    BY <1>1, JoinFacts
  <2>2. QED
    BY <1>2, <2>1 DEF Joinable
<1>4. Local(w, "joinGet", u)
  BY <1>0, <1>1, <1>2, <1>3, IsLocal
<1>5. \A x \in Threads : SameState(x)
  BY <1>2 DEF SameState
<1>6. u # Nobody /\ u \notin evacuated /\ OnWorker(u) /\ (\A m : At(u, m) <=> m = pc[w])
  BY <1>1, <1>2, Working
<1>7. PlaceInv'
  BY <1>0, <1>1, <1>2, <1>4, <1>6, LocalPlaceInv DEF TypeOK
<1>8. LifeInv(c)'
  BY <1>1, <1>3, <1>4, <1>5, LocalLife
<1>9. RaceInv(c)'
  <2>1. pc[w] \notin Joining
    BY <1>2 DEF Joining
  <2>2. QED
    BY <2>1, <1>1, <1>3, <1>4, <1>5, <1>6, LocalRace
<1>10. Late(c)
  <2>1. RaceInv(c)
    BY DEF SchedInv
  <2>2. Nobody \notin Threads /\ Nobody \notin evacuated
    BY <1>0, ProgFacts DEF TypeOK
  <2>3. suspended[c] \notin evacuated
    BY <1>3, <1>6, <2>2
  <2>4. ~AboutToSleep(c) /\ ~Asleep(c)
    BY <2>3 DEF AboutToSleep, Asleep
  <2>5. ~At(u, "joinGet")
    BY <1>2, <1>6
  <2>6. ~Over(c)
    BY <1>3, <2>2, <2>5 DEF Over
  <2>7. QED
    BY <1>2, <1>3, <2>1, <2>4, <2>6 DEF RaceInv, NotJoined
<1>11. Late(c)'
  <2>1. SameThread(c)
    BY <1>1, <1>3, <1>4, LocalPlaces
  <2>2. QED
    BY <2>1, <1>2, <1>10 DEF Late, SameThread, SamePlace
<1>12. JoiningInv(w)'
  <2>1. pc'[w] = "joinGet" /\ cur'[w] = u
    BY <1>4, LocalPlaces
  <2>2. \A x \in Threads : Joins(u, x)' => x = c
    <3>1. \A x : Joins(u, x)' <=> Joins(u, x)
      BY <1>2, SameNext DEF Moves
    <3>2. QED
      BY <3>1, <1>0, <1>1, JoinOnce
  <2>3. \A x \in Threads : Joins(cur[w], x)' => x = c
    BY <2>1, <2>2
  <2>4. QED
    BY <2>1, <2>3, <1>2, <1>3, <1>11 DEF JoiningInv
<1>13. QED
  <2>1. "joinGet" \in Joining
    BY DEF Joining
  <2>2. QED
    BY <2>1, <1>1, <1>2, <1>3, <1>4, <1>5, <1>7, <1>8, <1>9, <1>12, JoinLocal

\* After a step that keeps the operation, the worker joins what it joined.
LEMMA StillJoins ==
  ASSUME TypeOK, prog' = prog, NEW w \in Workers, NEW u \in Threads, cur'[w] = u, next'[u] = next[u],
         NEW c \in Threads, Joins(u, c)
  PROVE  \A x \in Threads : Joins(cur[w], x)' => x = c
<1>1. \A x : Joins(u, x)' <=> Joins(u, x)
  BY SameNext
<1>2. \A x \in Threads : Joins(u, x)' => x = c
  BY <1>1, JoinOnce
<1>3. QED
  BY <1>2

\* The thread that is joined has not ended: the parent is evacuated.
LEMMA JoinSuspendsStep ==
  ASSUME SchedInv, TypeOK', NEW w \in Workers, JoinSuspends(w)
  PROVE  SchedInv'
<1>0. TypeOK /\ PlaceInv /\ ControlInv(w) /\ prog \in Programs /\ cur[w] # Nobody /\ Does(w, "join")
  BY DEF SchedInv, TypeOK, JoinSuspends, Does, ControlInv
<1>1. PICK u \in Threads, c \in Threads : u = cur[w] /\ c = Child(w) /\ Joins(u, c)
  BY <1>0, DoesJoin
<1>2. /\ Moves(w, "joinFaa", u) /\ pc[w] = "run" /\ serialized[c] = FALSE /\ flag[c] = 0
      /\ UNCHANGED <<victim, queue, lock, frames, serialized, next, state, flag, retval>>
      /\ evacuated' = evacuated \cup {u} /\ suspended'[c] = u
      /\ \A x \in Threads : x # c => suspended'[x] = suspended[x]
  BY <1>0, <1>1 DEF JoinSuspends, Moves, TypeOK, tsVars, Does, Goto
<1>3. /\ c # u /\ c # Root /\ ~HasJoined(u, c) /\ suspended[c] \in {u, Nobody}
      /\ state[c] = "allocated" /\ queue[w] = <<>> /\ lock[w] = Nobody
  <2>1. Joinable(w, u, c)
    BY <1>1, JoinFacts
  <2>2. QED
    BY <1>2, <2>1 DEF Joinable
<1>4. Local(w, "joinFaa", u)
  BY <1>0, <1>1, <1>2, <1>3, IsLocal
<1>5. \A x \in Threads : x # c => SameState(x)
  BY <1>2 DEF SameState
<1>6. u # Nobody /\ u \notin evacuated /\ OnWorker(u) /\ (\A m : At(u, m) <=> m = pc[w])
  BY <1>1, <1>2, Working
<1>7. NotJoined(c) /\ Early(c) /\ suspended[c] = Nobody
  <2>1. RaceInv(c)
    BY DEF SchedInv
  <2>2. ~AboutToSleep(c) /\ ~Asleep(c) /\ ~Over(c)
    BY <1>2, <1>3, <1>6, <1>0, ProgFacts DEF AboutToSleep, Asleep, Over, TypeOK
  <2>3. QED
    BY <1>2, <1>3, <2>1, <2>2 DEF RaceInv, NotJoined
<1>8. Joins(u, c)'
  <2>1. next'[u] = next[u] /\ prog' = prog
    BY <1>2 DEF Moves
  <2>2. QED
    BY <2>1, <1>1, SameNext
<1>9. PlaceInv'
  <2>1. evacuated' \subseteq Threads
    BY <1>0, <1>2 DEF TypeOK
  <2>2. \A x \in Threads : suspended[x] \in Threads => suspended'[x] = suspended[x]
    BY <1>0, <1>2, <1>7, ProgFacts
  <2>3. QED
    BY <1>0, <1>1, <1>2, <1>4, <1>6, <1>8, <2>1, <2>2, LocalPlaceInv
<1>10. SameThread(c) /\ OnWorker(u)' /\ (\A m : At(u, m)' <=> m = "joinFaa") /\ InQueue(c)' = InQueue(c)
       /\ Prog' = Prog
  <2>1. SameThread(c)
    BY <1>1, <1>3, <1>4, LocalPlaces
  <2>2. OnWorker(u)' /\ (\A m : At(u, m)' <=> m = "joinFaa")
    BY <1>1, <1>4, <1>6, LocalPlaces
  <2>3. InQueue(c)' = InQueue(c) /\ Prog' = Prog
    BY <1>4, LocalPlaces DEF InQueue
  <2>4. QED
    BY <2>1, <2>2, <2>3
<1>11. LifeInv(c)'
  <2>1. LifeInv(c)
    BY DEF SchedInv
  <2>2. \A q \in Threads : (HasForked(q, c)' <=> HasForked(q, c))
    BY <1>4 DEF Local
  <2>3. /\ OnWorker(c)' <=> OnWorker(c)
        /\ At(c, "dieFaa")' <=> At(c, "dieFaa")
        /\ At(c, "dieResume")' <=> At(c, "dieResume")
        /\ At(c, "rootFlag")' <=> At(c, "rootFlag")
        /\ (c \in evacuated' <=> c \in evacuated) /\ next'[c] = next[c]
    BY <1>10 DEF SameThread, SamePlace, Watched
  <2>4. QED
    BY <1>2, <1>3, <1>10, <2>1, <2>2, <2>3 DEF LifeInv
<1>12. RaceInv(c)'
  <2>1. Early(c)' /\ ~At(c, "dieResume")'
    <3>1. ~At(c, "dieResume")
      BY <1>2, <1>7 DEF SchedInv, RaceInv, Asleep
    <3>2. QED
      BY <3>1, <1>2, <1>7, <1>10 DEF Early, SameThread, SamePlace, Watched
  <2>2. AboutToSleep(c)'
    BY <1>2, <1>8, <1>10, <2>1 DEF AboutToSleep
  <2>3. QED
    BY <1>3, <2>1, <2>2 DEF RaceInv
<1>13. JoiningInv(w)'
  <2>1. pc'[w] = "joinFaa" /\ cur'[w] = u
    BY <1>4, LocalPlaces
  <2>2. \A x \in Threads : Joins(cur[w], x)' => x = c
    BY <1>0, <1>1, <1>2, <2>1, StillJoins DEF Moves
  <2>3. QED
    BY <2>1, <2>2, <1>2, <1>3 DEF JoiningInv
<1>14. QED
  <2>1. "joinFaa" \in Joining
    BY DEF Joining
  <2>2. QED
    BY <2>1, <1>1, <1>2, <1>3, <1>4, <1>5, <1>9, <1>11, <1>12, <1>13, JoinLocal

\* The parent's side of the race.
LEMMA JoinRaceFacts ==
  ASSUME SchedInv, NEW w \in Workers, pc[w] \in Joining
  PROVE  \E u, c \in Threads :
           /\ u = cur[w] /\ c = Child(w) /\ Joins(u, c) /\ c # u /\ c # Root
           /\ state[c] = "allocated" /\ serialized[c] = FALSE /\ queue[w] = <<>> /\ lock[w] = Nobody
           /\ pc[w] = "joinFaa" => suspended[c] = u /\ u \in evacuated /\ AboutToSleep(c)
           /\ pc[w] = "joinGet" => Late(c) /\ u \notin evacuated /\ (NotJoined(c) \/ Over(c))
<1>0. TypeOK /\ PlaceInv /\ ControlInv(w) /\ JoiningInv(w) /\ prog \in Programs
  BY DEF SchedInv, TypeOK
<1>1. PICK u \in Threads : u = cur[w]
  BY <1>0 DEF ControlInv, TypeOK
<1>2. PICK c \in Threads : Joins(u, c)
  BY <1>0, <1>1 DEF ControlInv
<1>3. c = Child(w)
  BY <1>0, <1>1, <1>2, JoinsChild
<1>4. /\ state[c] = "allocated" /\ queue[w] = <<>> /\ lock[w] = Nobody
      /\ pc[w] = "joinFaa" => suspended[c] = u /\ u \in evacuated
      /\ pc[w] = "joinGet" => Late(c)
  BY <1>0, <1>1, <1>2 DEF JoiningInv, ControlInv
<1>5. c # u /\ c # Root /\ ~HasJoined(u, c) /\ suspended[c] \in {u, Nobody}
  <2>1. Joinable(w, u, c)
    BY <1>1, <1>2, JoinFacts
  <2>2. QED
    BY <2>1 DEF Joinable
<1>6. serialized[c] = FALSE /\ RaceInv(c)
  BY <1>0, <1>4 DEF SchedInv, LifeInv, TypeOK
<1>7. u # Nobody /\ OnWorker(u) /\ (\A m : At(u, m) <=> m = pc[w]) /\ (u \in evacuated => pc[w] = "joinFaa")
  BY <1>1, Working
<1>8. ASSUME pc[w] = "joinFaa"
      PROVE  AboutToSleep(c)
  BY <1>4, <1>5, <1>6, <1>7, <1>8 DEF RaceInv, NotJoined, Asleep, Over
<1>9. ASSUME pc[w] = "joinGet"
      PROVE  NotJoined(c) \/ Over(c)
  <2>1. Nobody \notin Threads /\ evacuated \subseteq Threads
    BY <1>0, ProgFacts DEF TypeOK
  <2>2. ~AboutToSleep(c) /\ ~Asleep(c)
    BY <1>5, <1>7, <1>9, <2>1 DEF AboutToSleep, Asleep
  <2>3. QED
    BY <1>5, <1>6, <2>2 DEF RaceInv
<1>10. QED
  BY <1>1, <1>2, <1>3, <1>4, <1>5, <1>6, <1>7, <1>8, <1>9

\* The life of the thread that is joined, which only its flag tells of.
LEMMA JoinedLife ==
  ASSUME SchedInv, NEW w \in Workers, NEW u \in Threads, u = cur[w], NEW l, NEW t, Local(w, l, t),
         NEW c \in Threads, c # u, state[c] = "allocated", serialized[c] = FALSE,
         UNCHANGED <<state, retval, suspended>>
  PROVE  LifeInv(c)'
<1>1. LifeInv(c)
  BY DEF SchedInv
<1>2. SameThread(c) /\ (InQueue(c)' <=> InQueue(c)) /\ Prog' = Prog
  BY LocalPlaces
<1>3. (\A q \in Threads : HasForked(q, c)' <=> HasForked(q, c)) /\ serialized' = serialized
  BY DEF Local
<1>4. /\ OnWorker(c)' <=> OnWorker(c)
      /\ At(c, "dieFaa")' <=> At(c, "dieFaa")
      /\ At(c, "dieResume")' <=> At(c, "dieResume")
      /\ At(c, "rootFlag")' <=> At(c, "rootFlag")
      /\ (c \in evacuated' <=> c \in evacuated) /\ next'[c] = next[c]
  BY <1>2 DEF SameThread, SamePlace, Watched
<1>5. QED
  BY <1>1, <1>2, <1>3, <1>4 DEF LifeInv

\* The join comes to its side of the race, first or last.
LEMMA JoinRaceStep ==
  ASSUME SchedInv, TypeOK', NEW w \in Workers, JoinWinsRace(w) \/ JoinLosesRace(w)
  PROVE  SchedInv'
<1>0. TypeOK /\ PlaceInv /\ ControlInv(w) /\ prog \in Programs /\ pc[w] = "joinFaa" /\ pc[w] \in Joining
  BY DEF SchedInv, TypeOK, JoinWinsRace, JoinLosesRace, Joining
<1>1. PICK u \in Threads, c \in Threads :
        /\ u = cur[w] /\ c = Child(w) /\ Joins(u, c) /\ c # u /\ c # Root
        /\ state[c] = "allocated" /\ serialized[c] = FALSE /\ queue[w] = <<>> /\ lock[w] = Nobody
        /\ suspended[c] = u /\ u \in evacuated /\ AboutToSleep(c)
  BY <1>0, JoinRaceFacts
<1>2. PICK l, t : /\ flag[c] = 0 => l = "sched" /\ t = Nobody
                  /\ flag[c] # 0 => l = "joinGet" /\ t = u
  <2>1. CASE flag[c] = 0
    BY <2>1
  <2>2. CASE flag[c] # 0
    BY <2>2
  <2>3. QED
    BY <2>1, <2>2
<1>3. /\ Moves(w, l, t) /\ flag'[c] = flag[c] + 1 /\ \A x \in Threads : x # c => flag'[x] = flag[x]
      /\ UNCHANGED <<victim, queue, lock, frames, serialized, next, state, retval, suspended>>
      /\ flag[c] = 0 => evacuated' = evacuated
      /\ flag[c] # 0 => evacuated' = evacuated \ {u}
  <2>1. CASE flag[c] = 0
    BY <1>0, <1>1, <1>2, <2>1 DEF JoinWinsRace, JoinLosesRace, Moves, TypeOK, tsVars, ToSched, Goto
  <2>2. CASE flag[c] # 0
    BY <1>0, <1>1, <1>2, <2>2 DEF JoinWinsRace, JoinLosesRace, Moves, TypeOK, tsVars, ToSched, Goto
  <2>3. QED
    BY <2>1, <2>2
<1>4. Local(w, l, t)
  <2>1. t \in {cur[w], Nobody} /\ l # "steal"
    BY <1>1, <1>2
  <2>2. \A x \in Threads : x # cur[w] => (x \in evacuated' <=> x \in evacuated)
    BY <1>1, <1>3
  <2>3. QED
    BY <1>0, <1>1, <1>3, <2>1, <2>2, IsLocal
<1>5. \A x \in Threads : x # c => SameState(x)
  BY <1>3 DEF SameState
<1>6. Joins(u, c)'
  <2>1. next'[u] = next[u] /\ prog' = prog
    BY <1>3 DEF Moves
  <2>2. QED
    BY <2>1, <1>1, SameNext
<1>7. u # Nobody
  BY <1>0, ProgFacts
<1>8. PlaceInv'
  <2>1. evacuated' \subseteq Threads
    BY <1>0, <1>3 DEF TypeOK
  <2>2. \A x \in Threads : suspended'[x] = suspended[x]
    BY <1>3
  <2>3. \A x \in evacuated' : x = cur[w] => t = Nobody
    BY <1>1, <1>2, <1>3
  <2>4. \A x \in evacuated' : x = cur[w] => /\ t # Nobody => l = "joinFaa"
                                            /\ \E d \in Threads : Joins(x, d)' /\ suspended'[d] = x
    BY <1>1, <1>6, <2>2, <2>3
  <2>5. QED
    BY <1>1, <1>4, <1>7, <2>1, <2>2, <2>4, LocalPlaceInv
<1>9. LifeInv(c)'
  BY <1>1, <1>3, <1>4, JoinedLife
<1>10. /\ SameThread(c) /\ pc'[w] = l /\ cur'[w] = t
       /\ flag[c] = 0 => ~OnWorker(u)'
       /\ flag[c] # 0 => OnWorker(u)' /\ \A m : At(u, m)' <=> m = l
  <2>1. SameThread(c) /\ pc'[w] = l /\ cur'[w] = t
    BY <1>1, <1>4, LocalPlaces
  <2>2. /\ t = Nobody => ~OnWorker(u)' /\ \A m : ~At(u, m)'
        /\ t # Nobody => OnWorker(u)' /\ \A m : At(u, m)' <=> m = l
    BY <1>1, <1>4, LocalPlaces
  <2>3. QED
    BY <2>1, <2>2, <1>2, <1>7
<1>11. /\ Early(c)' <=> Early(c)
       /\ Late(c)' <=> Late(c)
       /\ At(c, "dieResume")' <=> At(c, "dieResume")
  BY <1>3, <1>10 DEF Early, Late, SameThread, SamePlace, Watched
<1>12. ~At(c, "dieResume")
  <2>1. ~Asleep(c)
    <3>1. OnWorker(u)
      BY <1>1, Working
    <3>2. QED
      BY <3>1, <1>1 DEF Asleep
  <2>2. QED
    BY <2>1 DEF SchedInv, RaceInv
<1>13. CASE flag[c] = 0
  <2>1. Early(c)
    BY <1>1, <1>13 DEF AboutToSleep
  <2>2. Asleep(c)'
    BY <2>1, <1>1, <1>3, <1>6, <1>10, <1>11, <1>13 DEF Asleep
  <2>3. RaceInv(c)'
    BY <2>2, <1>1, <1>11, <1>12 DEF RaceInv
  <2>4. JoiningInv(w)'
    BY <1>2, <1>10, <1>13 DEF JoiningInv, Joining
  <2>5. u \in evacuated'
    BY <1>1, <1>3, <1>13
  <2>6. QED
    BY <1>0, <1>1, <1>2, <1>4, <1>5, <1>8, <1>9, <1>13, <2>3, <2>4, <2>5, JoinLocal
<1>14. CASE flag[c] # 0
  <2>1. Late(c) /\ flag[c] = 1
    BY <1>1, <1>14 DEF AboutToSleep
  <2>2. At(u, "joinGet")'
    BY <1>2, <1>10, <1>14
  <2>3. Over(c)'
    BY <2>1, <2>2, <1>1, <1>3, <1>6, <1>11 DEF Over
  <2>4. RaceInv(c)'
    BY <2>3, <1>1, <1>11, <1>12 DEF RaceInv
  <2>5. JoiningInv(w)'
    <3>1. \A x \in Threads : Joins(cur[w], x)' => x = c
      BY <1>0, <1>1, <1>2, <1>3, <1>10, <1>14, StillJoins DEF Moves
    <3>2. pc'[w] = "joinGet" /\ Late(c)' /\ state'[c] = "allocated"
      BY <1>1, <1>2, <1>3, <1>10, <1>11, <1>14, <2>1
    <3>3. QED
      BY <3>1, <3>2 DEF JoiningInv
  <2>6. l \in Joining /\ t = u /\ next' = next
    BY <1>2, <1>3, <1>14 DEF Joining
  <2>7. QED
    BY <1>0, <1>1, <1>4, <1>5, <1>8, <1>9, <2>4, <2>5, <2>6, JoinLocal
<1>15. QED
  BY <1>13, <1>14

\* The return value is taken and the thread state freed.
LEMMA JoinGetsStep ==
  ASSUME SchedInv, TypeOK', NEW w \in Workers, JoinGets(w)
  PROVE  SchedInv'
<1>0. TypeOK /\ PlaceInv /\ ControlInv(w) /\ prog \in Programs /\ pc[w] = "joinGet" /\ pc[w] \in Joining
  BY DEF SchedInv, TypeOK, JoinGets, Joining
<1>1. PICK u \in Threads, c \in Threads :
        /\ u = cur[w] /\ c = Child(w) /\ Joins(u, c) /\ c # u /\ c # Root
        /\ state[c] = "allocated" /\ serialized[c] = FALSE
        /\ Late(c) /\ u \notin evacuated /\ (NotJoined(c) \/ Over(c))
  BY <1>0, JoinRaceFacts
<1>2. /\ Moves(w, "run", u) /\ next' = [next EXCEPT ![u] = @ + 1]
      /\ UNCHANGED <<victim, queue, lock, frames, serialized, evacuated, flag, retval, suspended>>
      /\ state'[c] = "freed" /\ \A x \in Threads : x # c => state'[x] = state[x]
  BY <1>0, <1>1 DEF JoinGets, Moves, TypeOK, tsVars, Goto
<1>3. Local(w, "run", u) /\ HasJoined(u, c)'
  <2>1. next[u] \in DOMAIN Prog[u] /\ Prog[u][next[u]] = JoinOf(c) /\ prog' = prog
    BY <1>1, <1>2 DEF Joins, Moves
  <2>2. /\ next' \in [Threads -> Nat \ {0}]
        /\ \A x \in Threads : x # u => next'[x] = next[x]
        /\ \A d : /\ HasForked(u, d)' <=> HasForked(u, d) \/ Prog[u][next[u]] = ForkOf(d)
                  /\ HasJoined(u, d)' <=> HasJoined(u, d) \/ Prog[u][next[u]] = JoinOf(d)
    BY <1>0, <1>2, <2>1, GoesOn
  <2>3. \A d : (HasForked(u, d)' <=> HasForked(u, d)) /\ (HasJoined(u, d) => HasJoined(u, d)')
    BY <2>1, <2>2, OperationsDiffer
  <2>4. \A x \in Threads : x # u => \A d : /\ HasForked(x, d)' <=> HasForked(x, d)
                                           /\ HasJoined(x, d)' <=> HasJoined(x, d)
    BY <2>1, <2>2, SameNext
  <2>5. u # Nobody
    BY <1>0, ProgFacts
  <2>6. Local(w, "run", u)
    BY <1>0, <1>1, <1>2, <2>2, <2>3, <2>4, <2>5 DEF Local
  <2>7. QED
    BY <2>1, <2>2, <2>6
<1>4. \A x \in Threads : x # c => SameState(x)
  BY <1>2 DEF SameState
<1>5. u # Nobody
  BY <1>0, ProgFacts
<1>6. PlaceInv'
  BY <1>0, <1>1, <1>2, <1>3, <1>5, LocalPlaceInv DEF TypeOK
<1>7. SameThread(c) /\ (InQueue(c)' <=> InQueue(c)) /\ Prog' = Prog /\ pc'[w] = "run"
  BY <1>1, <1>3, LocalPlaces
<1>8. /\ OnWorker(c)' <=> OnWorker(c)
      /\ At(c, "dieFaa")' <=> At(c, "dieFaa")
      /\ At(c, "dieResume")' <=> At(c, "dieResume")
      /\ At(c, "rootFlag")' <=> At(c, "rootFlag")
      /\ (c \in evacuated' <=> c \in evacuated) /\ next'[c] = next[c]
  BY <1>7 DEF SameThread, SamePlace, Watched
<1>9. LifeInv(c) /\ retval[c] = TRUE /\ ~OnWorker(c) /\ c \notin evacuated /\ ~At(c, "dieResume")
  <2>1. LifeInv(c) /\ retval[c] = TRUE /\ ~OnWorker(c)
    BY <1>1 DEF SchedInv, Late
  <2>2. next[c] > Len(Prog[c])
    BY <2>1 DEF LifeInv
  <2>3. c \notin evacuated
    <3>1. SUFFICES ASSUME c \in evacuated
          PROVE  FALSE
      OBVIOUS
    <3>2. next[c] \in DOMAIN Prog[c]
      BY <3>1, <1>0 DEF PlaceInv, Joins
    <3>3. next[c] <= Len(Prog[c]) /\ Len(Prog[c]) \in Nat /\ next[c] \in Nat
      <4>1. Prog \in [Threads -> Seq(Operations)]
        BY <1>0, ProgFacts DEF TypeOK
      <4>2. Prog[c] \in Seq(Operations)
        BY <4>1
      <4>3. next[c] \in Nat
        BY <1>0 DEF TypeOK
      <4>4. QED
        BY <3>2, <4>2, <4>3
    <3>4. QED
      BY <2>2, <3>3
  <2>4. ~At(c, "dieResume")
    BY <2>1 DEF OnWorker, At
  <2>5. QED
    BY <2>1, <2>3, <2>4
<1>10. LifeInv(c)'
  <2>1. \A q \in Threads : HasForked(q, c)' <=> HasForked(q, c)
    BY <1>3 DEF Local
  <2>2. ~InQueue(c)
    BY <1>9 DEF LifeInv
  <2>3. QED
    BY <1>1, <1>2, <1>3, <1>7, <1>8, <1>9, <2>1, <2>2 DEF LifeInv
<1>11. RaceInv(c)'
  <2>1. Late(c)' /\ ~At(c, "dieResume")'
    BY <1>1, <1>2, <1>8, <1>9 DEF Late
  <2>2. NotJoined(c) => NotJoined(c)'
    <3>1. ASSUME NotJoined(c)
          PROVE  flag[c] = 1
      BY <3>1, <1>1, <1>9 DEF NotJoined, Early, At, OnWorker
    <3>2. QED
      BY <3>1, <2>1, <1>2 DEF NotJoined
  <2>3. Over(c) => Over(c)'
    <3>1. ASSUME Over(c)
          PROVE  suspended[c] = u
      <4>1. suspended[c] \in {u, Nobody}
        <5>1. Joinable(w, u, c)
          BY <1>1, JoinFacts
        <5>2. QED
          BY <5>1 DEF Joinable
      <4>2. QED
        BY <4>1, <3>1, <1>0, ProgFacts DEF Over
    <3>2. QED
      BY <3>1, <2>1, <1>2, <1>3 DEF Over
  <2>4. QED
    BY <1>1, <2>1, <2>2, <2>3 DEF RaceInv
<1>12. JoiningInv(w)'
  BY <1>7 DEF JoiningInv, Joining
<1>13. QED
  BY <1>0, <1>1, <1>3, <1>4, <1>6, <1>10, <1>11, <1>12, JoinLocal

-----------------------------------------------------------------------------
(* The scheduler loop.                                                      *)

\* A worker without a thread goes on; the state of the root thread may be freed.
LEMMA IdleStep ==
  ASSUME SchedInv, TypeOK', NEW w \in Workers, cur[w] = Nobody, NEW l \in {"sched", "exited"} \cup CollPlaces,
         pc' = [pc EXCEPT ![w] = l],
         UNCHANGED <<prog, cur, victim, queue, lock, next, frames, flag, retval, suspended, serialized, evacuated>>,
         \A x \in Threads : state'[x] = state[x] \/ (x = Root /\ state'[x] = "freed" /\ flag[x] # 0)
  PROVE  SchedInv'
<1>0. /\ TypeOK /\ PlaceInv /\ prog \in Programs
      /\ \A v \in Workers : ControlInv(v) /\ JoiningInv(v) /\ StackInv(v)
      /\ \A x \in Threads : LifeInv(x) /\ RaceInv(x)
  BY DEF SchedInv, TypeOK
<1>1. Workers' = Workers /\ Prog' = Prog /\ Nobody \notin Threads
  BY <1>0, SameProg, ProgFacts
<1>2. pc'[w] = l /\ \A v \in Workers : v # w => pc'[v] = pc[v]
  BY <1>0 DEF TypeOK
<1>3. pc[w] # "steal" /\ l # "steal" /\ l # "joinFaa" /\ l \notin {"run"} \cup Dying \cup RootDying \cup Joining
  BY <1>0 DEF ControlInv, CollPlaces, Dying, RootDying, Joining
<1>4. /\ \A x \in Threads : SameThread(x)
      /\ \A x : InQueue(x)' <=> InQueue(x)
  <2>1. ASSUME NEW x \in Threads
        PROVE  SameThread(x)
    <3>1. OnWorker(x)' <=> OnWorker(x)
      BY <1>1 DEF OnWorker
    <3>2. \A m : At(x, m)' <=> At(x, m)
      BY <1>1, <1>2 DEF At
    <3>3. QED
      BY <3>1, <3>2 DEF SameThread, SamePlace
  <2>2. \A x : InQueue(x)' <=> InQueue(x)
    BY <1>1 DEF InQueue
  <2>3. QED
    BY <2>1, <2>2
<1>5. \A x, c \in Threads : /\ HasForked(x, c)' <=> HasForked(x, c)
                            /\ HasJoined(x, c)' <=> HasJoined(x, c)
                            /\ Joins(x, c)' <=> Joins(x, c)
  BY SameNext
<1>6. ASSUME NEW v \in Workers
      PROVE  ControlInv(v)' /\ StackInv(v)'
  <2>0. ControlInv(v) /\ StackInv(v)
    BY <1>0
  <2>1. ASSUME lock[v] # Nobody
        PROVE  lock[v] \in Workers /\ pc'[lock[v]] = pc[lock[v]] /\ pc[lock[v]] = "steal" /\ cur[lock[v]] \in Threads
    <3>1. lock[v] \in Workers /\ pc[lock[v]] = "steal"
      BY <2>1, <1>0, <2>0 DEF TypeOK, ControlInv
    <3>2. lock[v] # w /\ cur[lock[v]] # Nobody
      BY <3>1, <1>0, <1>3 DEF ControlInv
    <3>3. QED
      BY <3>1, <3>2, <1>0, <1>2 DEF TypeOK
  <2>2. StackInv(v)'
    <3>1. pc'[v] = "steal" <=> pc[v] = "steal"
      BY <1>2, <1>3
    <3>2. QED
      BY <1>0, <1>5, <2>0, <2>1, <3>1, StackFrame
  <2>3. ControlInv(v)'
    <3>1. CASE v = w
      BY <2>0, <2>1, <3>1, <1>2, <1>3 DEF ControlInv
    <3>2. CASE v # w
      <4>1. pc'[v] = pc[v] /\ cur'[v] = cur[v] /\ next' = next
        BY <3>2, <1>2
      <4>2. ASSUME pc[v] \in Joining
            PROVE  \E c \in Threads : Joins(cur[v], c)'
        <5>1. PICK c \in Threads : Joins(cur[v], c)
          BY <4>2, <2>0 DEF ControlInv
        <5>2. cur[v] \in Threads
          BY <4>2, <2>0, <1>0 DEF ControlInv, TypeOK
        <5>3. PICK u \in Threads : u = cur[v]
          BY <5>2
        <5>4. Joins(u, c)' /\ u = cur'[v]
          BY <5>1, <5>3, <4>1, <1>5
        <5>5. QED
          BY <5>4
      <4>3. QED
        BY <2>0, <2>1, <4>1, <4>2, <1>1 DEF ControlInv
    <3>3. QED
      BY <3>1, <3>2
  <2>4. QED
    BY <2>2, <2>3
<1>7. ASSUME NEW v \in Workers
      PROVE  JoiningInv(v)'
  <2>1. SUFFICES ASSUME NEW c \in Threads, pc'[v] \in Joining, Joins(cur[v], c)'
        PROVE  /\ state'[c] = "allocated"
               /\ pc'[v] = "joinFaa" => suspended'[c] = cur'[v] /\ cur'[v] \in evacuated'
               /\ pc'[v] = "joinGet" => Late(c)'
    BY DEF JoiningInv
  <2>2. v # w /\ pc'[v] = pc[v]
    BY <2>1, <1>2, <1>3
  <2>3. PICK u \in Threads : u = cur[v] /\ u = cur'[v]
    BY <2>1, <2>2, <1>0 DEF ControlInv, TypeOK
  <2>4. Joins(u, c)'
    BY <2>1, <2>3
  <2>5. Joins(cur[v], c)
    BY <2>3, <2>4, <1>5
  <2>6. /\ state[c] = "allocated"
        /\ pc[v] = "joinFaa" => suspended[c] = cur[v] /\ cur[v] \in evacuated
        /\ pc[v] = "joinGet" => Late(c)
    BY <2>1, <2>2, <2>5, <1>0 DEF JoiningInv
  <2>7. Late(c)' <=> Late(c)
    BY <1>4 DEF Late, SameThread, SamePlace
  <2>8. c # Root
    BY <2>3, <2>5, <1>0, JoinsChild
  <2>9. QED
    BY <2>2, <2>6, <2>7, <2>8
<1>8. ASSUME NEW x \in Threads
      PROVE  RaceInv(x)'
  <2>1. /\ Early(x)' <=> Early(x)
        /\ Late(x)' <=> Late(x)
        /\ At(x, "dieResume")' <=> At(x, "dieResume")
    BY <1>4 DEF Early, Late, SameThread, SamePlace, Watched
  <2>2. CASE x = Root
    <3>1. ~At(x, "dieResume")
      BY <2>2, <1>0 DEF At, ControlInv, Dying
    <3>2. QED
      BY <2>1, <2>2, <3>1, <1>0 DEF RaceInv
  <2>3. CASE x # Root
    <3>1. SameState(x) /\ SamePlace(x)
      BY <2>3, <1>4 DEF SameState, SameThread
    <3>2. QED
      BY <3>1, <1>0, <1>4, RaceFrame
  <2>4. QED
    BY <2>2, <2>3
<1>9. ASSUME NEW x \in Threads
      PROVE  LifeInv(x)'
  <2>1. CASE state'[x] = state[x]
    <3>1. SameState(x) /\ LifeInv(x) /\ SameThread(x) /\ (InQueue(x)' <=> InQueue(x))
      BY <2>1, <1>0, <1>4 DEF SameState
    <3>2. QED
      BY <3>1, <1>5, LifeFrame
  <2>2. CASE state'[x] # state[x]
    <3>1. x = Root /\ state'[x] = "freed" /\ Late(x) /\ LifeInv(x)
      BY <2>2, <1>0 DEF RaceInv
    <3>2. ~OnWorker(x) /\ ~InQueue(x) /\ retval[x] = TRUE /\ next[x] > Len(Prog[x])
      BY <3>1 DEF Late, LifeInv
    <3>3. x \notin evacuated
      <4>1. SUFFICES ASSUME x \in evacuated
            PROVE  FALSE
        OBVIOUS
      <4>2. next[x] \in DOMAIN Prog[x]
        BY <4>1, <1>0 DEF PlaceInv, Joins
      <4>3. next[x] <= Len(Prog[x]) /\ Len(Prog[x]) \in Nat /\ next[x] \in Nat
        BY <4>2, <1>0, ProgFacts DEF TypeOK
      <4>4. QED
        BY <3>2, <4>3
    <3>4. serialized[x] = FALSE /\ state[x] # "none"
      BY <3>1, <3>2, <1>0 DEF LifeInv, TypeOK
    <3>5. /\ OnWorker(x)' <=> OnWorker(x)
          /\ At(x, "dieFaa")' <=> At(x, "dieFaa")
          /\ At(x, "dieResume")' <=> At(x, "dieResume")
          /\ At(x, "rootFlag")' <=> At(x, "rootFlag")
          /\ InQueue(x)' <=> InQueue(x)
      BY <1>4 DEF SameThread, SamePlace, Watched
    <3>6. QED
      BY <3>1, <3>2, <3>3, <3>4, <3>5, <1>1, <1>5 DEF LifeInv
  <2>3. QED
    BY <2>1, <2>2
<1>10. PlaceInv'
  <2>1. \A v \in Workers : cur[v] \in evacuated => pc'[v] = pc[v]
    BY <1>0, <1>1, <1>2 DEF TypeOK
  <2>2. \A x \in Threads : OnWorker(x)' <=> OnWorker(x)
    BY <1>4 DEF SameThread, SamePlace
  <2>3. \A x \in evacuated : \E c \in Threads : Joins(x, c)' /\ suspended[c] = x
    BY <1>0, <1>5 DEF PlaceInv, TypeOK
  <2>4. QED
    BY <1>0, <1>1, <1>4, <2>1, <2>2, <2>3 DEF PlaceInv
<1>11. QED
  BY <1>1, <1>6, <1>7, <1>8, <1>9, <1>10 DEF SchedInv

\* A worker enters the barrier, and leaves the loop.
LEMMA ExitStep ==
  ASSUME SchedInv, ExitInv, TypeOK', NEW w \in Workers, EntersBarrier(w) \/ Exits(w)
  PROVE  SchedInv'
<1>0. TypeOK /\ ControlInv(w) /\ prog \in Programs /\ pc[w] = "sched"
  BY DEF SchedInv, TypeOK, EntersBarrier, Exits
<1>1. cur[w] = Nobody
  BY <1>0 DEF ControlInv
<1>2. CASE EntersBarrier(w)
  <2>1. pc' = [pc EXCEPT ![w] = "sched"]
    BY <1>0, <1>2 DEF EntersBarrier, TypeOK
  <2>2. UNCHANGED <<prog, cur, victim, queue, lock, next, frames, flag, retval, suspended, serialized, evacuated, state>>
    BY <1>2 DEF EntersBarrier, tsVars
  <2>3. QED
    BY <2>1, <2>2, <1>1, IdleStep
<1>3. CASE Exits(w)
  <2>1. pc' = [pc EXCEPT ![w] = "exited"]
    BY <1>3 DEF Exits, Goto
  <2>2. UNCHANGED <<prog, cur, victim, queue, lock, next, frames, flag, retval, suspended, serialized, evacuated>>
    BY <1>3 DEF Exits, tsVars
  <2>3. flag[Root] # 0
    <3>1. entered[Rank0] = TRUE
      BY <1>0, <1>3, ProgFacts DEF Exits, TypeOK
    <3>2. QED
      BY <3>1 DEF ExitInv
  <2>4. \A x \in Threads : state'[x] = state[x] \/ (x = Root /\ state'[x] = "freed" /\ flag[x] # 0)
    BY <1>0, <1>3, <2>3 DEF Exits, TypeOK
  <2>5. QED
    BY <2>1, <2>2, <2>4, <1>1, IdleStep
<1>4. QED
  BY <1>2, <1>3

-----------------------------------------------------------------------------
(* Steps that move threads between workers, queues and the evacuated ones.  *)

\* A thread that has been suspended by its join with c, and is not joining it, has
\* joined it.
LEMMA JoinedBy ==
  ASSUME TypeOK, NEW c \in Threads, RaceInv(c), NEW p \in Threads, suspended[c] = p,
         ~At(p, "joinGet"), p \notin evacuated \/ ~Joins(p, c)
  PROVE  Over(c) /\ HasJoined(p, c) /\ c # Root
<1>1. p # Nobody
  BY ProgFacts DEF TypeOK
<1>2. ~NotJoined(c) /\ ~AboutToSleep(c) /\ ~Asleep(c) /\ c # Root
  BY <1>1 DEF NotJoined, AboutToSleep, Asleep, RaceInv
<1>3. QED
  BY <1>2 DEF RaceInv, Over

\* The step moves the threads of M, none of which is joining c.
Moved(M, c) ==
  /\ prog' = prog
  /\ \A x \in Threads : x \notin M => SameThread(x)
  /\ \A p \in M : /\ p \in Threads /\ ~At(p, "joinGet") /\ (p \notin evacuated \/ ~Joins(p, c))
                  /\ HasJoined(p, c) => HasJoined(p, c)'

\* The race of a thread that is not moved.
LEMMA MovedRace ==
  ASSUME SchedInv, NEW M, NEW c \in Threads, Moved(M, c), c \notin M, SameState(c)
  PROVE  RaceInv(c)'
<1>0. TypeOK /\ RaceInv(c) /\ prog' = prog
  BY DEF SchedInv, Moved
<1>1. SamePlace(c)
  BY DEF Moved, SameThread
<1>2. CASE suspended[c] \notin M
  <2>1. \A p \in Threads : p = suspended[c] => SameThread(p)
    BY <1>2 DEF Moved
  <2>2. QED
    BY <1>0, <1>1, <2>1, RaceFrame
<1>3. CASE suspended[c] \in M
  <2>1. PICK p \in M : p = suspended[c]
    BY <1>3
  <2>2. p \in Threads /\ ~At(p, "joinGet") /\ (p \notin evacuated \/ ~Joins(p, c))
    BY <2>1 DEF Moved
  <2>3. Over(c) /\ HasJoined(p, c) /\ c # Root
    BY <1>0, <2>1, <2>2, JoinedBy
  <2>4. HasJoined(p, c)'
    BY <2>1, <2>3 DEF Moved
  <2>5. QED
    BY <1>1, <2>1, <2>2, <2>3, <2>4, OverFrame
<1>4. QED
  BY <1>2, <1>3

\* The race of a thread that has not ended.
LEMMA MovedSelf ==
  ASSUME SchedInv, NEW M, NEW u \in Threads, Moved(M, u), SameState(u), retval[u] = FALSE,
         ~At(u, "dieResume"), ~At(u, "dieResume")'
  PROVE  RaceInv(u)'
<1>0. TypeOK /\ RaceInv(u) /\ prog' = prog
  BY DEF SchedInv, Moved
<1>1. suspended[u] \notin M
  <2>1. SUFFICES ASSUME suspended[u] \in M
        PROVE  FALSE
    OBVIOUS
  <2>2. PICK p \in M : p = suspended[u]
    BY <2>1
  <2>3. p \in Threads /\ ~At(p, "joinGet") /\ (p \notin evacuated \/ ~Joins(p, u))
    BY <2>2 DEF Moved
  <2>4. Over(u)
    BY <1>0, <2>2, <2>3, JoinedBy
  <2>5. QED
    BY <2>4 DEF Over, Late
<1>2. \A q \in Threads : q = suspended[u] => SameThread(q)
  BY <1>1 DEF Moved
<1>3. QED
  BY <1>0, <1>2, SelfRace

\* The stack of a worker that keeps its thread and its queue; a thief may be done
\* with it, and the frame of a thread that is not on it be put elsewhere.
LEMMA StackKept ==
  ASSUME SchedInv, prog' = prog, NEW v \in Workers, NEW t,
         queue'[v] = queue[v], cur'[v] = cur[v], pc'[v] = pc[v], frames[v] \ {t} \subseteq frames'[v],
         lock'[v] = lock[v] \/ lock'[v] = Nobody,
         lock'[v] # Nobody => cur'[lock[v]] = cur[lock[v]] /\ t # cur[lock[v]],
         t # cur[v], ~InQueue(t),
         \A x, d \in Threads : /\ HasForked(x, d) => HasForked(x, d)'
                               /\ HasForked(x, d)' => HasForked(x, d) \/ (x # cur[v] /\ ~InQueue(x)),
         \A c \in Threads : serialized[c] = TRUE => serialized'[c] = TRUE
  PROVE  StackInv(v)'
<1>0. TypeOK /\ StackInv(v) /\ ControlInv(v) /\ \A x : Ancestors(x)' = Ancestors(x)
  BY SameProg DEF SchedInv
<1>1. queue[v] \in Seq(Threads) /\ Len(queue[v]) \in Nat /\ Lowest(v) \in {0, 1} /\ Lowest(v)' \in {0, 1}
  BY <1>0 DEF TypeOK, Lowest
<1>2. (lock'[v] # Nobody => Lowest(v)' = Lowest(v)) /\ (lock'[v] = Nobody => Lowest(v)' = 1)
  BY DEF Lowest
<1>3. ASSUME NEW k \in Lowest(v)'..Len(queue[v])
      PROVE  /\ k \in Lowest(v)..Len(queue[v])
             /\ OnStack(v, k)' = OnStack(v, k) /\ OnStack(v, k) \in Threads /\ OnStack(v, k) # t
             /\ Above(v, k)' = Above(v, k) /\ Above(v, k) \in Threads
             /\ Above(v, k) = cur[v] \/ InQueue(Above(v, k))
  <2>1. k \in Lowest(v)..Len(queue[v])
    BY <1>1, <1>2
  <2>2. OnStack(v, k) \in Threads /\ Above(v, k) \in Threads
    BY <2>1, StackTypes
  <2>3. k # 0 => k \in DOMAIN queue[v]
    BY <1>1
  <2>4. k = 0 => lock'[v] # Nobody
    BY <1>1, <1>2
  <2>5. OnStack(v, k)' = OnStack(v, k) /\ OnStack(v, k) # t
    BY <2>3, <2>4 DEF OnStack, InQueue
  <2>6. k < Len(queue[v]) => k + 1 \in DOMAIN queue[v]
    BY <1>1
  <2>7. Above(v, k)' = Above(v, k) /\ (Above(v, k) = cur[v] \/ InQueue(Above(v, k)))
    BY <2>6 DEF Above, InQueue
  <2>8. QED
    BY <2>1, <2>2, <2>5, <2>7
<1>4. ASSUME NEW k \in Lowest(v)'..Len(queue[v])
      PROVE  /\ HasForked(OnStack(v, k), Above(v, k))'
             /\ \A c \in Threads : HasForked(Above(v, k), c)' =>
                  serialized'[c] = TRUE \/ (k < Len(queue'[v]) /\ c = Above(v, k + 1)')
             /\ OnStack(v, k)' \in frames'[v] /\ OnStack(v, k)' \in Ancestors(cur[v])'
             /\ \A m \in 1..Len(queue'[v]) : k < m => OnStack(v, k)' \in Ancestors(queue[v][m])'
  <2>0. k \in Lowest(v)..Len(queue[v])
    BY <1>3
  <2>1. PICK a \in Threads, b \in Threads : a = OnStack(v, k) /\ b = Above(v, k) /\ a = OnStack(v, k)' /\ b = Above(v, k)'
    BY <1>3
  <2>2. /\ HasForked(a, b)
        /\ \A c \in Threads : HasForked(b, c) => serialized[c] = TRUE \/ (k < Len(queue[v]) /\ c = Above(v, k + 1))
        /\ a \in frames[v] /\ a \in Ancestors(cur[v])
        /\ \A m \in 1..Len(queue[v]) : k < m => a \in Ancestors(queue[v][m])
    <3>1. /\ HasForked(OnStack(v, k), Above(v, k))
          /\ \A c \in Threads : HasForked(Above(v, k), c) =>
               serialized[c] = TRUE \/ (k < Len(queue[v]) /\ c = Above(v, k + 1))
          /\ OnStack(v, k) \in frames[v] /\ OnStack(v, k) \in Ancestors(cur[v])
          /\ \A m \in 1..Len(queue[v]) : k < m => OnStack(v, k) \in Ancestors(queue[v][m])
      BY <2>0, <1>0 DEF StackInv
    <3>2. QED
      BY <2>1, <3>1
  <2>3. HasForked(a, b)'
    BY <2>2
  <2>4. ASSUME NEW c \in Threads, HasForked(b, c)'
        PROVE  serialized'[c] = TRUE \/ (k < Len(queue'[v]) /\ c = Above(v, k + 1)')
    <3>1. HasForked(b, c)
      BY <2>1, <2>4, <1>3
    <3>2. Above(v, k + 1)' = Above(v, k + 1)
      BY DEF Above
    <3>3. QED
      BY <2>2, <3>1, <3>2
  <2>5. a \in frames'[v]
    BY <2>1, <2>2, <1>3
  <2>6. a \in Ancestors(cur[v])'
    <3>1. PICK z : z = cur[v] /\ z = cur'[v]
      OBVIOUS
    <3>2. a \in Ancestors(z)'
      BY <3>1, <2>2, <1>0
    <3>3. QED
      BY <3>1, <3>2
  <2>7. ASSUME NEW m \in 1..Len(queue'[v]), k < m
        PROVE  a \in Ancestors(queue[v][m])'
    <3>1. PICK z : z = queue[v][m] /\ z = queue'[v][m]
      OBVIOUS
    <3>2. a \in Ancestors(z)'
      BY <3>1, <2>2, <2>7, <1>0
    <3>3. QED
      BY <3>1, <3>2
  <2>8. QED
    BY <2>1, <2>3, <2>4, <2>5, <2>6, <2>7
<1>5. cur'[v] # Nobody /\ pc'[v] # "steal" => cur'[v] \in frames'[v]
  BY <1>0 DEF StackInv
<1>6. QED
  BY <1>4, <1>5 DEF StackInv

\* The control of a worker that stays where it is.
LEMMA ControlKept ==
  ASSUME SchedInv, prog' = prog, NEW v \in Workers,
         pc'[v] = pc[v], cur'[v] = cur[v], victim'[v] = victim[v], lock'[v] = lock[v], queue'[v] = queue[v],
         \A x \in Threads : x = cur[v] => next'[x] = next[x],
         pc[v] = "steal" => lock'[victim[v]] = lock[victim[v]],
         lock[v] # Nobody => pc'[lock[v]] = pc[lock[v]] /\ victim'[lock[v]] = victim[lock[v]]
  PROVE  ControlInv(v)'
<1>0. TypeOK /\ ControlInv(v) /\ Prog' = Prog
  BY SameProg DEF SchedInv
<1>1. pc[v] \in Joining \cup Dying \cup RootDying => cur[v] \in Threads
  BY <1>0 DEF ControlInv, TypeOK
<1>2. ASSUME pc[v] \in Joining
      PROVE  \E c \in Threads : Joins(cur[v], c)'
  <2>1. PICK u \in Threads, c \in Threads : u = cur[v] /\ Joins(u, c)
    BY <1>0, <1>1, <1>2 DEF ControlInv
  <2>2. next'[u] = next[u] /\ u = cur'[v]
    BY <2>1
  <2>3. Joins(u, c)'
    BY <2>1, <2>2, SameNext
  <2>4. QED
    BY <2>2, <2>3
<1>3. pc[v] \in Dying \cup RootDying => next'[cur[v]] = next[cur[v]]
  BY <1>1
<1>4. QED
  BY <1>0, <1>2, <1>3 DEF ControlInv

\* A worker that is joining and stays where it is.
LEMMA JoiningKept ==
  ASSUME SchedInv, prog' = prog, NEW v \in Workers, pc'[v] = pc[v], cur'[v] = cur[v],
         \A x \in Threads : x = cur[v] => next'[x] = next[x] /\ (x \in evacuated' <=> x \in evacuated),
         \A c \in Threads : pc[v] \in Joining /\ Joins(cur[v], c) =>
           /\ state'[c] = state[c] /\ suspended'[c] = suspended[c]
           /\ Late(c) => Late(c)'
  PROVE  JoiningInv(v)'
<1>0. TypeOK /\ ControlInv(v) /\ JoiningInv(v)
  BY DEF SchedInv
<1>1. SUFFICES ASSUME NEW c \in Threads, pc'[v] \in Joining, Joins(cur[v], c)'
      PROVE  /\ state'[c] = "allocated"
             /\ pc'[v] = "joinFaa" => suspended'[c] = cur'[v] /\ cur'[v] \in evacuated'
             /\ pc'[v] = "joinGet" => Late(c)'
  BY DEF JoiningInv
<1>2. PICK u \in Threads : u = cur[v] /\ u = cur'[v]
  BY <1>0, <1>1 DEF ControlInv, TypeOK
<1>3. Joins(u, c)' /\ next'[u] = next[u]
  BY <1>1, <1>2
<1>4. Joins(u, c)
  BY <1>3, SameNext
<1>5. Joins(cur[v], c)
  BY <1>2, <1>4
<1>6. QED
  BY <1>0, <1>1, <1>2, <1>5 DEF JoiningInv

\* The thief goes on with the thread that it has stolen.
LEMMA StealCopiesStep ==
  ASSUME SchedInv, TypeOK', NEW w \in Workers, StealCopies(w)
  PROVE  SchedInv'
<1>0. /\ TypeOK /\ PlaceInv /\ prog \in Programs
      /\ \A v \in Workers : ControlInv(v) /\ JoiningInv(v) /\ StackInv(v)
      /\ \A x \in Threads : LifeInv(x) /\ RaceInv(x)
  BY DEF SchedInv, TypeOK
<1>1. PICK t \in Threads, y \in Workers :
        t = cur[w] /\ y = victim[w] /\ pc[w] = "steal" /\ lock[y] = w /\ w # y /\ t # Nobody
  <2>1. pc[w] = "steal" /\ cur[w] \in Threads
    BY <1>0 DEF StealCopies, ControlInv, TypeOK
  <2>2. victim[w] \in Workers /\ lock[victim[w]] = w
    BY <2>1, <1>0 DEF ControlInv, TypeOK
  <2>3. w # Nobody /\ cur[w] # Nobody
    BY <2>1, <1>0, ProgFacts
  <2>4. lock[victim[w]] # victim[w]
    BY <2>2, <2>3, <1>0 DEF ControlInv
  <2>5. QED
    BY <2>1, <2>2, <2>3, <2>4
<1>2. /\ Moves(w, "run", t) /\ victim'[w] = Nobody /\ lock'[y] = Nobody
      /\ \A v \in Workers : v # w => victim'[v] = victim[v]
      /\ \A v \in Workers : v # y => lock'[v] = lock[v]
      /\ UNCHANGED <<queue, next, evacuated, state, flag, retval, suspended, serialized>>
  BY <1>0, <1>1 DEF StealCopies, Moves, Goto, TypeOK, tsVars
<1>3. t \in frames'[w] /\ \A v \in Workers : v # w => frames[v] \ {t} \subseteq frames'[v]
  BY <1>1 DEF StealCopies, PutFrame
<1>4. Workers' = Workers /\ Prog' = Prog /\ prog' = prog
  BY <1>2, SameProg DEF Moves
<1>5. /\ pc'[w] = "run" /\ cur' = cur
      /\ \A v \in Workers : v # w => pc'[v] = pc[v]
  BY <1>0, <1>1, <1>2 DEF TypeOK, Moves
<1>6. OnWorker(t) /\ (\A m : At(t, m) <=> m = pc[w]) /\ ~InQueue(t) /\ t \notin evacuated
  BY <1>1, Working
<1>7. \A x \in Threads : SameThread(x)
  <2>1. \A x \in Threads : x # t => SamePlace(x)
    BY <1>0, <1>1, <1>2, MovesAt
  <2>2. SamePlace(t)
    <3>1. OnWorker(t)' /\ \A m : At(t, m)' <=> m = "run"
      BY <1>0, <1>1, <1>2, MovesAt
    <3>2. QED
      BY <1>1, <1>6, <3>1 DEF SamePlace, Watched
  <2>3. QED
    BY <2>1, <2>2, <1>2 DEF SameThread
<1>8. (\A x \in Threads : SameState(x)) /\ \A x : InQueue(x)' <=> InQueue(x)
  BY <1>2, <1>4 DEF SameState, InQueue
<1>9. \A x, c \in Threads : /\ HasForked(x, c)' <=> HasForked(x, c)
                            /\ HasJoined(x, c)' <=> HasJoined(x, c)
                            /\ Joins(x, c)' <=> Joins(x, c)
  BY <1>2, <1>4, SameNext
<1>10. ASSUME NEW x \in Threads
       PROVE  LifeInv(x)' /\ RaceInv(x)'
  <2>1. LifeInv(x)'
    BY <1>0, <1>4, <1>7, <1>8, <1>9, LifeFrame
  <2>2. SamePlace(x)
    BY <1>7 DEF SameThread
  <2>3. RaceInv(x)'
    BY <1>0, <1>4, <1>7, <1>8, <2>2, RaceFrame
  <2>4. QED
    BY <2>1, <2>3
<1>11. PlaceInv'
  <2>1. \A x \in Threads : OnWorker(x)' <=> OnWorker(x)
    BY <1>7 DEF SameThread, SamePlace
  <2>2. \A x \in evacuated : \E c \in Threads : Joins(x, c)' /\ suspended[c] = x
    BY <1>0, <1>9 DEF PlaceInv, TypeOK
  <2>3. \A v \in Workers : cur[v] \in evacuated => pc'[v] = "joinFaa"
    BY <1>0, <1>1, <1>5, <1>6 DEF PlaceInv
  <2>4. QED
    BY <1>0, <1>2, <1>4, <1>5, <1>8, <2>1, <2>2, <2>3 DEF PlaceInv
<1>12. ASSUME NEW v \in Workers
       PROVE  JoiningInv(v)'
  <2>1. CASE v = w
    BY <2>1, <1>5 DEF JoiningInv, Joining
  <2>2. CASE v # w
    <3>1. pc'[v] = pc[v] /\ cur'[v] = cur[v]
      BY <2>2, <1>5
    <3>2. \A c \in Threads : Late(c) => Late(c)'
      BY <1>7, <1>2 DEF Late, SameThread, SamePlace
    <3>3. QED
      BY <3>1, <3>2, <1>2, <1>4, JoiningKept
  <2>3. QED
    BY <2>1, <2>2
<1>13. \A v \in Workers : v # y => lock[v] # w
  BY <1>0, <1>1, ProgFacts DEF ControlInv
<1>14. ASSUME NEW v \in Workers
       PROVE  ControlInv(v)'
  <2>1. CASE v = w
    <3>1. queue[w] = <<>> /\ lock[w] = Nobody
      BY <1>0, <1>1 DEF ControlInv
    <3>2. QED
      BY <2>1, <3>1, <1>1, <1>2, <1>5 DEF ControlInv, Dying, RootDying, Joining
  <2>2. CASE v = y
    <3>0. pc[v] # "steal" /\ pc'[v] = pc[v] /\ cur'[v] = cur[v] /\ lock'[v] = Nobody /\ lock[v] # Nobody
      BY <2>2, <1>0, <1>1, <1>2, <1>5, ProgFacts DEF ControlInv
    <3>1. ASSUME pc[v] \in Joining
          PROVE  FALSE
      BY <3>0, <3>1, <1>0 DEF ControlInv
    <3>2. QED
      BY <3>0, <3>1, <1>0, <1>2, <1>4 DEF ControlInv
  <2>3. CASE v # w /\ v # y
    <3>1. pc'[v] = pc[v] /\ cur'[v] = cur[v] /\ victim'[v] = victim[v] /\ lock'[v] = lock[v] /\ queue'[v] = queue[v]
      BY <2>3, <1>2, <1>5
    <3>2. pc[v] = "steal" => lock'[victim[v]] = lock[victim[v]]
      BY <2>3, <1>0, <1>1, <1>2 DEF ControlInv, TypeOK
    <3>3. lock[v] # Nobody => pc'[lock[v]] = pc[lock[v]] /\ victim'[lock[v]] = victim[lock[v]]
      BY <2>3, <1>0, <1>2, <1>5, <1>13 DEF TypeOK
    <3>4. QED
      BY <3>1, <3>2, <3>3, <1>2, <1>4, ControlKept
  <2>4. QED
    BY <2>1, <2>2, <2>3
<1>15. ASSUME NEW v \in Workers
       PROVE  StackInv(v)'
  <2>1. CASE v = w
    <3>1. queue'[w] = <<>> /\ lock'[w] = Nobody
      BY <1>0, <1>1, <1>2 DEF ControlInv
    <3>2. Lowest(w)' = 1 /\ Len(queue'[w]) = 0
      BY <3>1 DEF Lowest
    <3>3. cur'[w] \in frames'[w]
      BY <1>1, <1>3, <1>5
    <3>4. QED
      BY <2>1, <3>2, <3>3 DEF StackInv
  <2>2. CASE v # w
    <3>1. pc'[v] = pc[v] /\ cur'[v] = cur[v] /\ queue'[v] = queue[v] /\ frames[v] \ {t} \subseteq frames'[v]
      BY <2>2, <1>2, <1>3, <1>5
    <3>2. t # cur[v]
      BY <2>2, <1>0, <1>1 DEF PlaceInv
    <3>3. lock'[v] = lock[v] \/ lock'[v] = Nobody
      BY <1>2
    <3>4. ASSUME lock'[v] # Nobody
          PROVE  cur'[lock[v]] = cur[lock[v]] /\ t # cur[lock[v]]
      <4>1. v # y /\ lock[v] # Nobody
        BY <3>4, <1>2
      <4>2. lock[v] \in Workers /\ lock[v] # w
        BY <4>1, <1>0, <1>13 DEF TypeOK
      <4>3. QED
        BY <4>2, <1>0, <1>1, <1>5 DEF PlaceInv
    <3>5. QED
      BY <3>1, <3>2, <3>3, <3>4, <1>2, <1>4, <1>6, <1>9, StackKept
  <2>3. QED
    BY <2>1, <2>2
<1>16. QED
  BY <1>4, <1>10, <1>11, <1>12, <1>14, <1>15 DEF SchedInv

\* A thread in a queue.
LEMMA Queued ==
  ASSUME SchedInv, NEW t \in Threads, InQueue(t)
  PROVE  /\ ~OnWorker(t) /\ (\A m : ~At(t, m)) /\ t \notin evacuated
         /\ state[t] = "allocated" /\ serialized[t] = FALSE /\ retval[t] = FALSE
<1>0. TypeOK /\ PlaceInv /\ LifeInv(t)
  BY DEF SchedInv
<1>1. ~OnWorker(t) /\ (\A m : ~At(t, m)) /\ t \notin evacuated
  BY <1>0 DEF PlaceInv, OnWorker, At
<1>2. state[t] = "allocated" /\ retval[t] = FALSE
  BY <1>0 DEF LifeInv, TypeOK
<1>3. serialized[t] = FALSE
  BY <1>0, <1>2 DEF LifeInv, TypeOK
<1>4. QED
  BY <1>1, <1>2, <1>3

\* The oldest continuation is taken out of the queue of y.
LEMMA StealStep ==
  ASSUME SchedInv, TypeOK', NEW w \in Workers, NEW y \in Workers, Steal(w, y)
  PROVE  SchedInv'
<1>0. /\ TypeOK /\ PlaceInv /\ prog \in Programs
      /\ \A v \in Workers : ControlInv(v) /\ JoiningInv(v) /\ StackInv(v)
      /\ \A x \in Threads : LifeInv(x) /\ RaceInv(x)
  BY DEF SchedInv, TypeOK
<1>1. /\ pc[w] = "sched" /\ cur[w] = Nobody /\ w # y /\ queue[w] = <<>> /\ lock[w] = Nobody
      /\ lock[y] = Nobody /\ queue[y] \in Seq(Threads) /\ queue[y] # <<>> /\ w # Nobody /\ y # Nobody
      /\ Nobody \notin Threads
  <2>1. pc[w] = "sched" /\ w # y /\ lock[y] = Nobody /\ queue[y] # <<>>
    BY DEF Steal
  <2>2. cur[w] = Nobody
    BY <2>1, <1>0 DEF ControlInv
  <2>3. queue[w] = <<>> /\ lock[w] = Nobody
    BY <2>2, <1>0 DEF ControlInv
  <2>4. w # Nobody /\ y # Nobody /\ Nobody \notin Threads
    BY <1>0, ProgFacts
  <2>5. QED
    BY <2>1, <2>2, <2>3, <2>4, <1>0 DEF TypeOK
<1>2. PICK L \in Nat : L = Len(queue[y]) /\ L # 0
  BY <1>1
<1>3. PICK t \in Threads : t = Head(queue[y]) /\ t = queue[y][1] /\ 1 \in DOMAIN queue[y]
  BY <1>1, <1>2
<1>4. /\ queue'[y] = Tail(queue[y]) /\ Len(queue'[y]) = L - 1
      /\ \A k \in 1..(L - 1) : queue'[y][k] = queue[y][k + 1]
      /\ DOMAIN queue'[y] = 1..(L - 1) /\ DOMAIN queue[y] = 1..L
  <2>1. queue'[y] = Tail(queue[y])
    BY <1>0 DEF Steal, TypeOK
  <2>2. QED
    BY <1>1, <1>2, <2>1
<1>5. /\ Moves(w, "steal", t) /\ victim'[w] = y /\ lock'[y] = w
      /\ \A v \in Workers : v # w => victim'[v] = victim[v]
      /\ \A v \in Workers : v # y => lock'[v] = lock[v] /\ queue'[v] = queue[v]
      /\ UNCHANGED <<next, frames, evacuated, state, flag, retval, suspended, serialized>>
  BY <1>0, <1>3 DEF Steal, Moves, Goto, TypeOK, tsVars
<1>6. Workers' = Workers /\ Prog' = Prog /\ prog' = prog
  BY <1>5, SameProg DEF Moves
<1>7. /\ pc'[w] = "steal" /\ cur'[w] = t
      /\ \A v \in Workers : v # w => pc'[v] = pc[v] /\ cur'[v] = cur[v]
  BY <1>0, <1>5 DEF TypeOK, Moves
<1>8. InQueue(t)
  BY <1>3 DEF InQueue
<1>9. /\ ~OnWorker(t) /\ (\A m : ~At(t, m)) /\ t \notin evacuated
      /\ state[t] = "allocated" /\ serialized[t] = FALSE /\ retval[t] = FALSE
  BY <1>8, Queued
<1>10. /\ \A x \in Threads : x # t => SameThread(x)
       /\ OnWorker(t)' /\ \A m : At(t, m)' <=> m = "steal"
  <2>1. /\ \A x \in Threads : x # cur[w] /\ x # t => SamePlace(x)
        /\ OnWorker(t)' /\ \A m : At(t, m)' <=> m = "steal"
    BY <1>0, <1>5, <1>9, MovesAt
  <2>2. QED
    BY <2>1, <1>1, <1>5 DEF SameThread
<1>11. \A x, c \in Threads : /\ HasForked(x, c)' <=> HasForked(x, c)
                             /\ HasJoined(x, c)' <=> HasJoined(x, c)
                             /\ Joins(x, c)' <=> Joins(x, c)
  BY <1>5, <1>6, SameNext
<1>12. /\ \A v \in Workers : \A k \in DOMAIN queue'[v] :
            queue'[v][k] = queue[v][IF v = y THEN k + 1 ELSE k] /\ (IF v = y THEN k + 1 ELSE k) \in DOMAIN queue[v]
       /\ \A x : InQueue(x)' <=> InQueue(x) /\ x # t
  <2>1. \A v \in Workers : \A k \in DOMAIN queue'[v] :
          queue'[v][k] = queue[v][IF v = y THEN k + 1 ELSE k] /\ (IF v = y THEN k + 1 ELSE k) \in DOMAIN queue[v]
    <3>1. \A k \in DOMAIN queue'[y] : queue'[y][k] = queue[y][k + 1] /\ k + 1 \in DOMAIN queue[y]
      BY <1>2, <1>4
    <3>2. \A v \in Workers : v # y => queue'[v] = queue[v]
      BY <1>5
    <3>3. QED
      BY <3>1, <3>2
  <2>2. ASSUME NEW x, InQueue(x)'
        PROVE  InQueue(x) /\ x # t
    <3>0. PICK v \in Workers : \E k \in DOMAIN queue'[v] : queue'[v][k] = x
      BY <2>2, <1>6 DEF InQueue
    <3>1. PICK k \in DOMAIN queue'[v] : queue'[v][k] = x
      BY <3>0
    <3>2. PICK m \in DOMAIN queue[v] : m = (IF v = y THEN k + 1 ELSE k) /\ queue[v][m] = x
      BY <2>1, <3>1
    <3>3. v = y => m # 1
      <4>1. v = y => k \in 1..(L - 1) /\ m = k + 1
        BY <3>1, <3>2, <1>4
      <4>2. QED
        BY <4>1, <1>2
    <3>4. x # t
      BY <3>2, <3>3, <1>0, <1>3 DEF PlaceInv
    <3>5. QED
      BY <3>2, <3>4 DEF InQueue
  <2>3. ASSUME NEW x, InQueue(x), x # t
        PROVE  InQueue(x)'
    <3>0. PICK v \in Workers : \E m \in DOMAIN queue[v] : queue[v][m] = x
      BY <2>3 DEF InQueue
    <3>1. PICK m \in DOMAIN queue[v] : queue[v][m] = x
      BY <3>0
    <3>2. CASE v = y
      <4>1. m # 1 /\ m \in 1..L
        BY <3>1, <3>2, <2>3, <1>3, <1>4
      <4>2. m - 1 \in 1..(L - 1) /\ (m - 1) + 1 = m
        BY <4>1, <1>2
      <4>3. queue'[y][m - 1] = x /\ m - 1 \in DOMAIN queue'[y]
        BY <3>1, <3>2, <4>2, <1>4
      <4>4. QED
        BY <4>3, <1>6 DEF InQueue
    <3>3. CASE v # y
      BY <3>1, <3>3, <1>5, <1>6 DEF InQueue
    <3>4. QED
      BY <3>2, <3>3
  <2>4. QED
    BY <2>1, <2>2, <2>3
<1>13. PlaceInv'
  <2>1. \A v, u \in Workers : cur'[v] = cur'[u] /\ cur'[v] # Nobody => v = u
    BY <1>0, <1>7, <1>9 DEF PlaceInv, OnWorker
  <2>2. \A v, u \in Workers : \A k \in DOMAIN queue'[v], m \in DOMAIN queue'[u] :
          queue'[v][k] = queue'[u][m] => v = u /\ k = m
    <3> SUFFICES ASSUME NEW v \in Workers, NEW u \in Workers, NEW k \in DOMAIN queue'[v],
                        NEW m \in DOMAIN queue'[u], queue'[v][k] = queue'[u][m]
        PROVE  v = u /\ k = m
      OBVIOUS
    <3>1. PICK a \in DOMAIN queue[v] : a = (IF v = y THEN k + 1 ELSE k) /\ queue'[v][k] = queue[v][a]
      BY <1>12
    <3>2. PICK b \in DOMAIN queue[u] : b = (IF u = y THEN m + 1 ELSE m) /\ queue'[u][m] = queue[u][b]
      BY <1>12
    <3>3. queue[v][a] = queue[u][b]
      BY <3>1, <3>2
    <3>4. v = u /\ a = b
      BY <3>3, <1>0 DEF PlaceInv
    <3>5. CASE v = y
      <4>1. k \in 1..(L - 1) /\ m \in 1..(L - 1) /\ k + 1 = m + 1
        BY <3>1, <3>2, <3>4, <3>5, <1>4
      <4>2. QED
        BY <4>1, <3>4, <1>2
    <3>6. CASE v # y
      BY <3>1, <3>2, <3>4, <3>6
    <3>7. QED
      BY <3>5, <3>6
  <2>3. ASSUME NEW x \in Threads, InQueue(x)'
        PROVE  ~OnWorker(x)' /\ x \notin evacuated'
    <3>1. InQueue(x) /\ x # t
      BY <2>3, <1>12
    <3>2. SameThread(x) /\ ~OnWorker(x) /\ x \notin evacuated
      BY <3>1, <1>0, <1>10 DEF PlaceInv
    <3>3. QED
      BY <3>2 DEF SameThread, SamePlace
  <2>4. \A v \in Workers : cur'[v] \in evacuated' => pc'[v] = "joinFaa"
    BY <1>0, <1>5, <1>7, <1>9 DEF PlaceInv
  <2>5. \A x \in evacuated' : \E c \in Threads : Joins(x, c)' /\ suspended'[c] = x
    BY <1>0, <1>5, <1>11 DEF PlaceInv, TypeOK
  <2>6. QED
    BY <1>6, <2>1, <2>2, <2>3, <2>4, <2>5 DEF PlaceInv
<1>14. ASSUME NEW x \in Threads
       PROVE  LifeInv(x)' /\ RaceInv(x)'
  <2>0. SameState(x) /\ LifeInv(x) /\ Moved({t}, x)
    <3>1. SameState(x)
      BY <1>5 DEF SameState
    <3>2. Moved({t}, x)
      BY <1>6, <1>9, <1>10, <1>11 DEF Moved
    <3>3. QED
      BY <3>1, <3>2, <1>0
  <2>1. CASE x # t
    <3>1. LifeInv(x)'
      BY <2>0, <2>1, <1>6, <1>10, <1>11, <1>12, LifeFrame
    <3>2. RaceInv(x)'
      BY <2>0, <2>1, MovedRace
    <3>3. QED
      BY <3>1, <3>2
  <2>2. CASE x = t
    <3>1. RaceInv(x)'
      BY <2>0, <2>2, <1>9, <1>10, MovedSelf
    <3>2. ~InQueue(x)' /\ OnWorker(x)' /\ ~At(x, "dieFaa")' /\ ~At(x, "dieResume")' /\ ~At(x, "rootFlag")'
      BY <2>2, <1>10, <1>12
    <3>3. LifeInv(x)'
      BY <2>0, <2>2, <3>2, <1>5, <1>6, <1>9, <1>11 DEF LifeInv
    <3>4. QED
      BY <3>1, <3>3
  <2>3. QED
    BY <2>1, <2>2
<1>15. ASSUME NEW v \in Workers
       PROVE  JoiningInv(v)'
  <2>1. CASE v = w
    BY <2>1, <1>7 DEF JoiningInv, Joining
  <2>2. CASE v # w
    <3>1. \A c \in Threads : Late(c) => Late(c)'
      BY <1>5, <1>9, <1>10 DEF Late, SameThread, SamePlace
    <3>2. QED
      BY <2>2, <3>1, <1>5, <1>6, <1>7, JoiningKept
  <2>3. QED
    BY <2>1, <2>2
<1>16. \A v \in Workers : lock[v] # w
  BY <1>0, <1>1 DEF ControlInv
<1>17. ASSUME NEW v \in Workers
       PROVE  ControlInv(v)'
  <2>1. CASE v = w
    BY <2>1, <1>1, <1>5, <1>7 DEF ControlInv, Dying, RootDying, Joining
  <2>2. CASE v = y
    <3>1. cur[v] # Nobody /\ pc[v] \notin {"steal", "diePut", "dieFaa", "dieResume"} \cup RootDying \cup Joining
      BY <2>2, <1>0, <1>1 DEF ControlInv
    <3>2. pc'[v] = pc[v] /\ cur'[v] = cur[v] /\ lock'[v] = w /\ w # v /\ pc'[w] = "steal" /\ victim'[w] = v
      BY <2>2, <1>1, <1>5, <1>7
    <3>3. QED
      BY <3>1, <3>2, <1>0, <1>5, <1>6 DEF ControlInv
  <2>3. CASE v # w /\ v # y
    <3>1. pc[v] = "steal" => lock'[victim[v]] = lock[victim[v]]
      BY <2>3, <1>0, <1>1, <1>5, ProgFacts DEF ControlInv, TypeOK
    <3>2. lock[v] # Nobody => pc'[lock[v]] = pc[lock[v]] /\ victim'[lock[v]] = victim[lock[v]]
      BY <2>3, <1>0, <1>5, <1>7, <1>16 DEF TypeOK
    <3>3. QED
      BY <2>3, <3>1, <3>2, <1>5, <1>6, <1>7, ControlKept
  <2>4. QED
    BY <2>1, <2>2, <2>3
<1>18. StackInv(y)'
  <2>0. cur'[y] = cur[y] /\ pc'[y] = pc[y] /\ StackInv(y) /\ Lowest(y) = 1 /\ Lowest(y)' = 0
    BY <1>0, <1>1, <1>5, <1>7 DEF Lowest
  <2>1. ASSUME NEW k \in 0..(L - 1)
        PROVE  /\ OnStack(y, k)' = OnStack(y, k + 1) /\ Above(y, k)' = Above(y, k + 1)
               /\ k + 1 \in 1..L
    <3>1. k = 0 => OnStack(y, k)' = t
      BY <1>5, <1>7 DEF OnStack
    <3>2. k # 0 => OnStack(y, k)' = queue[y][k + 1]
      BY <1>4 DEF OnStack
    <3>3. k + 1 # 0 /\ k + 1 \in 1..L
      BY <1>2
    <3>4. OnStack(y, k + 1) = queue[y][k + 1]
      BY <3>3 DEF OnStack
    <3>5. OnStack(y, k)' = OnStack(y, k + 1)
      <4>1. CASE k = 0
        BY <4>1, <3>1, <3>4, <1>3
      <4>2. CASE k # 0
        BY <4>2, <3>2, <3>4
      <4>3. QED
        BY <4>1, <4>2
    <3>6. Above(y, k)' = Above(y, k + 1)
      <4>1. CASE k < L - 1
        <5>1. k + 1 \in 1..(L - 1) /\ k + 1 < L
          BY <4>1, <1>2
        <5>2. QED
          BY <4>1, <5>1, <1>2, <1>4 DEF Above
      <4>2. CASE ~(k < L - 1)
        <5>1. ~(k + 1 < L)
          BY <4>2, <1>2
        <5>2. QED
          BY <4>2, <5>1, <2>0, <1>2, <1>4 DEF Above
      <4>3. QED
        BY <4>1, <4>2
    <3>7. QED
      BY <3>3, <3>5, <3>6
  <2>2. ASSUME NEW k \in 0..(L - 1)
        PROVE  /\ HasForked(OnStack(y, k), Above(y, k))'
               /\ \A c \in Threads : HasForked(Above(y, k), c)' =>
                    serialized'[c] = TRUE \/ (k < L - 1 /\ c = Above(y, k + 1)')
               /\ OnStack(y, k)' \in frames'[y] /\ OnStack(y, k)' \in Ancestors(cur[y])'
               /\ \A m \in 1..(L - 1) : k < m => OnStack(y, k)' \in Ancestors(queue[y][m])'
    <3>1. k + 1 \in 1..L /\ k + 1 \in Lowest(y)..Len(queue[y])
      BY <2>0, <2>1, <1>2
    <3>2. PICK a \in Threads, b \in Threads :
            a = OnStack(y, k + 1) /\ b = Above(y, k + 1) /\ a = OnStack(y, k)' /\ b = Above(y, k)'
      BY <3>1, <2>1, StackTypes
    <3>3. /\ HasForked(a, b)
          /\ \A c \in Threads : HasForked(b, c) =>
               serialized[c] = TRUE \/ (k + 1 < L /\ c = Above(y, (k + 1) + 1))
          /\ a \in frames[y] /\ a \in Ancestors(cur[y])
          /\ \A m \in 1..L : k + 1 < m => a \in Ancestors(queue[y][m])
      BY <3>1, <3>2, <2>0, <1>2 DEF StackInv
    <3>4. HasForked(a, b)'
      BY <3>3, <1>11
    <3>5. ASSUME NEW c \in Threads, HasForked(b, c)'
          PROVE  serialized'[c] = TRUE \/ (k < L - 1 /\ c = Above(y, k + 1)')
      <4>1. serialized[c] = TRUE \/ (k + 1 < L /\ c = Above(y, (k + 1) + 1))
        BY <3>2, <3>3, <3>5, <1>11
      <4>2. ASSUME k + 1 < L
            PROVE  k < L - 1 /\ Above(y, k + 1)' = Above(y, (k + 1) + 1)
        <5>1. k < L - 1 /\ k + 1 \in 0..(L - 1)
          BY <4>2, <1>2
        <5>2. QED
          BY <5>1, <2>1
      <4>3. QED
        BY <4>1, <4>2, <1>5
    <3>6. a \in frames'[y]
      BY <3>3, <1>5
    <3>7. \A x : Ancestors(x)' = Ancestors(x)
      BY <1>6, SameProg
    <3>8. a \in Ancestors(cur[y])'
      <4>1. PICK z : z = cur[y] /\ z = cur'[y]
        BY <2>0
      <4>2. a \in Ancestors(z)'
        BY <4>1, <3>3, <3>7
      <4>3. QED
        BY <4>1, <4>2
    <3>9. ASSUME NEW m \in 1..(L - 1), k < m
          PROVE  a \in Ancestors(queue[y][m])'
      <4>1. m + 1 \in 1..L /\ k + 1 < m + 1
        BY <3>9, <1>2
      <4>2. PICK z : z = queue[y][m + 1] /\ z = queue'[y][m]
        BY <1>4
      <4>3. a \in Ancestors(z)'
        BY <4>1, <4>2, <3>3, <3>7
      <4>4. QED
        BY <4>2, <4>3
    <3>10. QED
      BY <3>2, <3>4, <3>5, <3>6, <3>8, <3>9
  <2>3. cur'[y] # Nobody /\ pc'[y] # "steal" => cur'[y] \in frames'[y]
    BY <2>0, <1>5 DEF StackInv
  <2>4. QED
    BY <2>0, <2>2, <2>3, <1>4 DEF StackInv
<1>19. ASSUME NEW v \in Workers
       PROVE  StackInv(v)'
  <2>1. CASE v = w
    <3>1. Lowest(w)' = 1 /\ Len(queue'[w]) = 0
      BY <1>1, <1>5 DEF Lowest
    <3>2. QED
      BY <2>1, <3>1, <1>7 DEF StackInv
  <2>2. CASE v # w /\ v # y
    <3>1. ControlInv(v) /\ StackInv(v)
      BY <1>0
    <3>2. ASSUME lock[v] # Nobody
          PROVE  cur[lock[v]] \in Threads /\ cur'[lock[v]] = cur[lock[v]]
      <4>1. lock[v] \in Workers /\ lock[v] # w /\ pc[lock[v]] = "steal"
        BY <3>1, <3>2, <1>0, <1>16 DEF TypeOK, ControlInv
      <4>2. cur[lock[v]] # Nobody
        BY <4>1, <1>0 DEF ControlInv
      <4>3. QED
        BY <4>1, <4>2, <1>0, <1>7 DEF TypeOK
    <3>3. QED
      BY <2>2, <3>1, <3>2, <1>0, <1>5, <1>6, <1>7, <1>11, StackFrame
  <2>3. QED
    BY <2>1, <2>2, <1>18
<1>20. QED
  BY <1>6, <1>13, <1>14, <1>15, <1>17, <1>19 DEF SchedInv

\* A thread that joins has not ended.
LEMMA JoinsNotEnded ==
  ASSUME TypeOK, NEW t \in Threads, LifeInv(t), NEW c, Joins(t, c)
  PROVE  retval[t] = FALSE
<1>1. next[t] \in DOMAIN Prog[t] /\ Prog[t] \in Seq(Operations) /\ next[t] \in Nat
  BY ProgFacts DEF TypeOK, Joins
<1>2. ~(next[t] > Len(Prog[t]))
  BY <1>1
<1>3. retval[t] # TRUE
  BY <1>2 DEF LifeInv
<1>4. QED
  BY <1>3 DEF TypeOK

\* The ended thread d gives its worker to the thread that it has woken up.
LEMMA DieResumesStep ==
  ASSUME SchedInv, TypeOK', NEW w \in Workers, DieResumes(w)
  PROVE  SchedInv'
<1>0. /\ TypeOK /\ PlaceInv /\ prog \in Programs
      /\ \A v \in Workers : ControlInv(v) /\ JoiningInv(v) /\ StackInv(v)
      /\ \A x \in Threads : LifeInv(x) /\ RaceInv(x)
  BY DEF SchedInv, TypeOK
<1>1. pc[w] = "dieResume" /\ queue[w] = <<>> /\ lock[w] = Nobody /\ cur[w] \in Threads \ {Root} /\ Nobody \notin Threads
  <2>1. pc[w] = "dieResume"
    BY DEF DieResumes
  <2>2. QED
    BY <2>1, <1>0, ProgFacts DEF ControlInv, TypeOK, Dying
<1>2. PICK d \in Threads : d = cur[w] /\ d # Root
  BY <1>1
<1>3. /\ OnWorker(d) /\ (\A m : At(d, m) <=> m = pc[w]) /\ ~InQueue(d) /\ d \notin evacuated
      /\ state[d] = "allocated" /\ serialized[d] = FALSE /\ retval[d] = TRUE
  BY <1>1, <1>2, Working
<1>4. Asleep(d) /\ ~Early(d)
  BY <1>0, <1>1, <1>3 DEF RaceInv, Early
<1>5. PICK j \in Threads : /\ j = suspended[d] /\ j \in evacuated /\ Joins(j, d) /\ ~OnWorker(j) /\ flag[d] = 2
                           /\ j # d /\ j # Nobody
  BY <1>0, <1>1, <1>3, <1>4 DEF Asleep, TypeOK
<1>6. /\ Moves(w, "joinGet", j) /\ evacuated' = evacuated \ {j}
      /\ UNCHANGED <<victim, queue, lock, next, state, flag, retval, suspended, serialized>>
  BY <1>0, <1>2, <1>5 DEF DieResumes, Moves, Goto, tsVars
<1>7. j \in frames'[w] /\ \A v \in Workers : v # w => frames[v] \ {j} \subseteq frames'[v]
  BY <1>2, <1>5 DEF DieResumes, PutFrame
<1>8. Workers' = Workers /\ Prog' = Prog /\ prog' = prog
  BY <1>6, SameProg DEF Moves
<1>9. /\ pc'[w] = "joinGet" /\ cur'[w] = j
      /\ \A v \in Workers : v # w => pc'[v] = pc[v] /\ cur'[v] = cur[v]
  BY <1>0, <1>6 DEF TypeOK, Moves
<1>10. /\ \A x \in Threads : x # d /\ x # j => SameThread(x)
       /\ OnWorker(j)' /\ \A m : At(j, m)' <=> m = "joinGet"
       /\ ~OnWorker(d)' /\ \A m : ~At(d, m)'
  <2>0. /\ \A x \in Threads : x # cur[w] /\ x # j => SamePlace(x)
        /\ j \in Threads => OnWorker(j)' /\ \A m : At(j, m)' <=> m = "joinGet"
        /\ \A x \in Threads : x = cur[w] /\ x # j => ~OnWorker(x)' /\ \A m : ~At(x, m)'
    <3>1. Moves(w, "joinGet", j) /\ ~OnWorker(j) /\ j \in Threads \cup {Nobody}
      BY <1>5, <1>6
    <3>2. QED
      BY <1>0, <3>1, MovesAt
  <2>1. /\ \A x \in Threads : x # cur[w] /\ x # j => SamePlace(x)
        /\ OnWorker(j)' /\ \A m : At(j, m)' <=> m = "joinGet"
    BY <2>0
  <2>2. ~OnWorker(d)' /\ \A m : ~At(d, m)'
    BY <1>2, <1>5, <2>0
  <2>3. \A x \in Threads : x # d /\ x # j => SameThread(x)
    BY <2>1, <1>2, <1>6 DEF SameThread
  <2>4. QED
    BY <2>1, <2>2, <2>3
<1>11. /\ \A x, c \in Threads : /\ HasForked(x, c)' <=> HasForked(x, c)
                                /\ HasJoined(x, c)' <=> HasJoined(x, c)
                                /\ Joins(x, c)' <=> Joins(x, c)
       /\ \A x : InQueue(x)' <=> InQueue(x)
  <2>1. \A x, c \in Threads : /\ HasForked(x, c)' <=> HasForked(x, c)
                              /\ HasJoined(x, c)' <=> HasJoined(x, c)
                              /\ Joins(x, c)' <=> Joins(x, c)
    BY <1>6, <1>8, SameNext
  <2>2. \A x : InQueue(x)' <=> InQueue(x)
    BY <1>6, <1>8 DEF InQueue
  <2>3. QED
    BY <2>1, <2>2
<1>12. /\ ~InQueue(j) /\ retval[j] = FALSE /\ state[j] = "allocated" /\ serialized[j] = FALSE
       /\ \A m : ~At(j, m)
  <2>1. ~InQueue(j)
    BY <1>0, <1>5 DEF PlaceInv
  <2>2. retval[j] = FALSE
    BY <1>0, <1>5, JoinsNotEnded
  <2>3. state[j] = "allocated"
    BY <1>0, <1>5 DEF LifeInv
  <2>4. serialized[j] = FALSE
    BY <1>0, <2>3 DEF LifeInv, TypeOK
  <2>5. \A m : ~At(j, m)
    BY <1>5 DEF At, OnWorker
  <2>6. QED
    BY <2>1, <2>2, <2>3, <2>4, <2>5
<1>13. \A x \in Threads : SameState(x)
  BY <1>6 DEF SameState
<1>14. ASSUME NEW x \in Threads, x # d
       PROVE  Moved({d, j}, x)
  <2>1. ~Joins(j, x)
    BY <1>0, <1>5, <1>14, JoinOnce
  <2>2. ~At(d, "joinGet") /\ ~At(j, "joinGet")
    BY <1>1, <1>3, <1>12
  <2>3. QED
    BY <2>1, <2>2, <1>3, <1>8, <1>10, <1>11 DEF Moved
<1>15. Late(d)' /\ RaceInv(d)'
  <2>1. Late(d)'
    BY <1>3, <1>6, <1>10 DEF Late
  <2>2. Over(d)'
    BY <2>1, <1>5, <1>6, <1>10, <1>11 DEF Over
  <2>3. QED
    BY <2>1, <2>2, <1>2, <1>10 DEF RaceInv
<1>16. ASSUME NEW x \in Threads
       PROVE  LifeInv(x)' /\ RaceInv(x)'
  <2>0. LifeInv(x) /\ SameState(x)
    BY <1>0, <1>13
  <2>1. CASE x # d /\ x # j
    <3>1. LifeInv(x)'
      BY <2>0, <2>1, <1>8, <1>10, <1>11, LifeFrame
    <3>2. RaceInv(x)'
      BY <2>0, <2>1, <1>14, MovedRace
    <3>3. QED
      BY <3>1, <3>2
  <2>2. CASE x = j
    <3>1. RaceInv(x)'
      <4>1. ~At(x, "dieResume") /\ ~At(x, "dieResume")' /\ x # d
        BY <2>2, <1>5, <1>10, <1>12
      <4>2. QED
        BY <2>0, <2>2, <4>1, <1>12, <1>14, MovedSelf
    <3>2. ~InQueue(x)' /\ OnWorker(x)' /\ ~At(x, "dieFaa")' /\ ~At(x, "dieResume")' /\ ~At(x, "rootFlag")'
      BY <2>2, <1>10, <1>11, <1>12
    <3>3. LifeInv(x)'
      BY <2>0, <2>2, <3>2, <1>6, <1>8, <1>11, <1>12 DEF LifeInv
    <3>4. QED
      BY <3>1, <3>3
  <2>3. CASE x = d
    <3>1. ~InQueue(x)' /\ ~OnWorker(x)' /\ ~At(x, "dieFaa")' /\ ~At(x, "dieResume")' /\ ~At(x, "rootFlag")'
      BY <2>3, <1>3, <1>10, <1>11
    <3>2. LifeInv(x)'
      BY <2>0, <2>3, <3>1, <1>3, <1>6, <1>8, <1>11 DEF LifeInv
    <3>3. QED
      BY <2>3, <3>2, <1>15
  <2>4. QED
    BY <2>1, <2>2, <2>3
<1>17. PlaceInv'
  <2>1. \A v, u \in Workers : cur'[v] = cur'[u] /\ cur'[v] # Nobody => v = u
    BY <1>0, <1>5, <1>9 DEF PlaceInv, OnWorker
  <2>2. \A v, u \in Workers : \A k \in DOMAIN queue'[v], m \in DOMAIN queue'[u] :
          queue'[v][k] = queue'[u][m] => v = u /\ k = m
    BY <1>0, <1>6 DEF PlaceInv
  <2>3. ASSUME NEW x \in Threads, InQueue(x)'
        PROVE  ~OnWorker(x)' /\ x \notin evacuated'
    <3>1. InQueue(x) /\ x # d /\ x # j
      BY <2>3, <1>3, <1>11, <1>12
    <3>2. SameThread(x) /\ ~OnWorker(x) /\ x \notin evacuated
      BY <3>1, <1>0, <1>10 DEF PlaceInv
    <3>3. QED
      BY <3>2 DEF SameThread, SamePlace
  <2>4. \A v \in Workers : cur'[v] \in evacuated' => pc'[v] = "joinFaa"
    BY <1>0, <1>6, <1>9 DEF PlaceInv
  <2>5. \A x \in evacuated' : \E c \in Threads : Joins(x, c)' /\ suspended'[c] = x
    BY <1>0, <1>6, <1>11 DEF PlaceInv, TypeOK
  <2>6. QED
    BY <1>8, <2>1, <2>2, <2>3, <2>4, <2>5 DEF PlaceInv
<1>18. ASSUME NEW v \in Workers
       PROVE  JoiningInv(v)'
  <2>1. CASE v = w
    <3>1. \A x \in Threads : Joins(cur[w], x)' => x = d
      BY <1>0, <1>5, <1>6, <1>8, <1>9, StillJoins
    <3>2. QED
      BY <2>1, <3>1, <1>3, <1>6, <1>9, <1>15 DEF JoiningInv
  <2>2. CASE v # w
    <3>1. \A c \in Threads : Late(c) => Late(c)'
      <4>1. ~Late(d) /\ ~Late(j)
        BY <1>3, <1>12 DEF Late
      <4>2. QED
        BY <4>1, <1>6, <1>10 DEF Late, SameThread, SamePlace
    <3>2. \A x \in Threads : x = cur[v] => next'[x] = next[x] /\ (x \in evacuated' <=> x \in evacuated)
      BY <1>5, <1>6 DEF OnWorker
    <3>3. QED
      BY <2>2, <3>1, <3>2, <1>6, <1>8, <1>9, JoiningKept
  <2>3. QED
    BY <2>1, <2>2
<1>19. ASSUME NEW v \in Workers
       PROVE  lock[v] # w /\ (lock[v] # Nobody => lock[v] \in Workers)
  <2>1. w # Nobody /\ pc[w] # "steal"
    BY <1>0, <1>1, ProgFacts
  <2>2. lock[v] # Nobody => pc[lock[v]] = "steal"
    BY <1>0 DEF ControlInv
  <2>3. QED
    BY <2>1, <2>2, <1>0 DEF TypeOK
<1>20. ASSUME NEW v \in Workers
       PROVE  ControlInv(v)'
  <2>1. CASE v = w
    <3>1. \E x \in Threads : Joins(cur[w], x)'
      <4>1. Joins(j, d)' /\ j = cur'[w]
        BY <1>5, <1>9, <1>11
      <4>2. QED
        BY <4>1
    <3>2. QED
      BY <2>1, <3>1, <1>1, <1>5, <1>6, <1>9 DEF ControlInv, Dying, RootDying, Joining
  <2>2. CASE v # w
    <3>1. lock[v] # Nobody => pc'[lock[v]] = pc[lock[v]] /\ victim'[lock[v]] = victim[lock[v]]
      BY <1>6, <1>9, <1>19
    <3>2. QED
      BY <2>2, <3>1, <1>6, <1>8, <1>9, ControlKept
  <2>3. QED
    BY <2>1, <2>2
<1>21. ASSUME NEW v \in Workers
       PROVE  StackInv(v)'
  <2>1. CASE v = w
    <3>1. Lowest(w)' = 1 /\ Len(queue'[w]) = 0
      BY <1>1, <1>6 DEF Lowest
    <3>2. QED
      BY <2>1, <3>1, <1>7, <1>9 DEF StackInv
  <2>2. CASE v # w
    <3>1. /\ pc'[v] = pc[v] /\ cur'[v] = cur[v] /\ queue'[v] = queue[v] /\ lock'[v] = lock[v]
          /\ frames[v] \ {j} \subseteq frames'[v] /\ j # cur[v]
      BY <2>2, <1>5, <1>6, <1>7, <1>9 DEF OnWorker
    <3>2. lock'[v] # Nobody => cur'[lock[v]] = cur[lock[v]] /\ j # cur[lock[v]]
      BY <3>1, <1>5, <1>9, <1>19 DEF OnWorker
    <3>3. QED
      BY <3>1, <3>2, <1>6, <1>8, <1>11, <1>12, StackKept
  <2>3. QED
    BY <2>1, <2>2
<1>22. QED
  BY <1>8, <1>16, <1>17, <1>18, <1>20, <1>21 DEF SchedInv

\* The thief of a queue is none of the workers that do something else.
LEMMA ThiefElse ==
  ASSUME SchedInv, NEW w \in Workers, pc[w] # "steal", NEW v \in Workers, lock[v] # Nobody
  PROVE  lock[v] \in Workers /\ lock[v] # w /\ lock[v] # v /\ cur[lock[v]] \in Threads
<1>0. TypeOK /\ \A u \in Workers : ControlInv(u)
  BY DEF SchedInv
<1>1. lock[v] \in Workers /\ pc[lock[v]] = "steal" /\ lock[v] # v
  BY <1>0 DEF TypeOK, ControlInv
<1>2. cur[lock[v]] # Nobody
  BY <1>0, <1>1 DEF ControlInv
<1>3. QED
  BY <1>0, <1>1, <1>2 DEF TypeOK

\* The thread forks c, and its continuation is put into the queue.
LEMMA ForkStep ==
  ASSUME SchedInv, TypeOK', NEW w \in Workers, Fork(w)
  PROVE  SchedInv'
<1>0. /\ TypeOK /\ PlaceInv /\ prog \in Programs
      /\ \A v \in Workers : ControlInv(v) /\ JoiningInv(v) /\ StackInv(v)
      /\ \A x \in Threads : LifeInv(x) /\ RaceInv(x)
  BY DEF SchedInv, TypeOK
<1>1. pc[w] = "run" /\ cur[w] # Nobody /\ Does(w, "fork") /\ Nobody \notin Threads
  <2>1. pc[w] = "run" /\ Does(w, "fork")
    BY DEF Fork, Does
  <2>2. QED
    BY <2>1, <1>0, ProgFacts DEF ControlInv
<1>2. PICK u \in Threads, c \in Threads :
        /\ u = cur[w] /\ c = Child(w) /\ c # Root
        /\ next[u] \in DOMAIN Prog[u] /\ Prog[u][next[u]] = ForkOf(c)
  BY <1>0, <1>1, DoesFork
<1>3. /\ OnWorker(u) /\ (\A m : At(u, m) <=> m = pc[w]) /\ ~InQueue(u) /\ u \notin evacuated
      /\ state[u] = "allocated" /\ serialized[u] = FALSE /\ retval[u] = FALSE
  BY <1>1, <1>2, Working
<1>4. state[c] = "none"
  <2>1. \A p \in Threads : ~HasForked(p, c)
    BY <1>0, <1>2, ForkOnce
  <2>2. QED
    BY <2>1, <1>0, <1>2 DEF LifeInv
<1>5. /\ next[c] = 1 /\ flag[c] = 0 /\ suspended[c] = Nobody /\ retval[c] = FALSE /\ serialized[c] = FALSE
      /\ ~OnWorker(c) /\ ~InQueue(c) /\ c \notin evacuated /\ c # u /\ \A m : ~At(c, m)
  <2>1. /\ next[c] = 1 /\ flag[c] = 0 /\ suspended[c] = Nobody /\ retval[c] = FALSE /\ serialized[c] = FALSE
        /\ ~OnWorker(c) /\ ~InQueue(c) /\ c \notin evacuated
    BY <1>0, <1>4 DEF LifeInv
  <2>2. QED
    BY <2>1, <1>3 DEF OnWorker, At
<1>6. /\ Moves(w, "run", c) /\ next' = [next EXCEPT ![u] = @ + 1]
      /\ queue'[w] = Append(queue[w], u) /\ \A v \in Workers : v # w => queue'[v] = queue[v]
      /\ state'[c] = "allocated" /\ \A x \in Threads : x # c => state'[x] = state[x]
      /\ UNCHANGED <<victim, lock, evacuated, flag, retval, suspended, serialized>>
  BY <1>0, <1>1, <1>2 DEF Fork, Moves, tsVars, TypeOK
<1>7. frames'[w] = (frames[w] \cap Ancestors(c)) \cup {c} /\ \A v \in Workers : v # w => frames[v] \ {c} \subseteq frames'[v]
  BY <1>2 DEF Fork, PutFrame
<1>8. Workers' = Workers /\ Prog' = Prog /\ prog' = prog
  BY <1>6, SameProg DEF Moves
<1>9. /\ pc'[w] = "run" /\ cur'[w] = c
      /\ \A v \in Workers : v # w => pc'[v] = pc[v] /\ cur'[v] = cur[v]
  BY <1>0, <1>6 DEF TypeOK, Moves
<1>10. /\ next' \in [Threads -> Nat \ {0}]
       /\ \A x \in Threads : x # u => next'[x] = next[x]
       /\ \A d \in Threads : HasForked(u, d)' <=> HasForked(u, d) \/ d = c
       /\ \A d \in Threads : HasJoined(u, d)' <=> HasJoined(u, d)
  <2>1. /\ next' \in [Threads -> Nat \ {0}]
        /\ \A x \in Threads : x # u => next'[x] = next[x]
        /\ \A d : /\ HasForked(u, d)' <=> HasForked(u, d) \/ Prog[u][next[u]] = ForkOf(d)
                  /\ HasJoined(u, d)' <=> HasJoined(u, d) \/ Prog[u][next[u]] = JoinOf(d)
    BY <1>0, <1>2, <1>6, <1>8, GoesOn
  <2>2. \A d : Prog[u][next[u]] # JoinOf(d) /\ (Prog[u][next[u]] = ForkOf(d) <=> d = c)
    BY <1>2, OperationsDiffer
  <2>3. QED
    BY <2>1, <2>2
<1>11. \A x, d \in Threads : x # u => /\ HasForked(x, d)' <=> HasForked(x, d)
                                      /\ HasJoined(x, d)' <=> HasJoined(x, d)
                                      /\ Joins(x, d)' <=> Joins(x, d)
  BY <1>8, <1>10, SameNext
<1>12. /\ \A x \in Threads : x # u /\ x # c => SameThread(x)
       /\ OnWorker(c)' /\ \A m : At(c, m)' <=> m = "run"
       /\ ~OnWorker(u)' /\ \A m : ~At(u, m)'
  <2>0. /\ \A x \in Threads : x # cur[w] /\ x # c => SamePlace(x)
        /\ c \in Threads => OnWorker(c)' /\ \A m : At(c, m)' <=> m = "run"
        /\ \A x \in Threads : x = cur[w] /\ x # c => ~OnWorker(x)' /\ \A m : ~At(x, m)'
    <3>1. Moves(w, "run", c) /\ ~OnWorker(c) /\ c \in Threads \cup {Nobody}
      BY <1>5, <1>6
    <3>2. QED
      BY <1>0, <3>1, MovesAt
  <2>1. /\ \A x \in Threads : x # cur[w] /\ x # c => SamePlace(x)
        /\ OnWorker(c)' /\ \A m : At(c, m)' <=> m = "run"
    BY <2>0
  <2>2. ~OnWorker(u)' /\ \A m : ~At(u, m)'
    BY <1>2, <1>5, <2>0
  <2>3. \A x \in Threads : x # u /\ x # c => SameThread(x)
    BY <2>1, <1>2, <1>6, <1>10 DEF SameThread
  <2>4. QED
    BY <2>1, <2>2, <2>3
<1>13. PICK L \in Nat : L = Len(queue[w]) /\ queue[w] \in Seq(Threads)
  BY <1>0 DEF TypeOK
<1>14. /\ Len(queue'[w]) = L + 1 /\ queue'[w][L + 1] = u /\ DOMAIN queue'[w] = 1..(L + 1) /\ DOMAIN queue[w] = 1..L
       /\ \A k \in 1..L : queue'[w][k] = queue[w][k]
  BY <1>6, <1>13
<1>15. \A x : InQueue(x)' <=> InQueue(x) \/ x = u
  <2>1. ASSUME NEW x
        PROVE  (\E k \in DOMAIN queue'[w] : queue'[w][k] = x) <=> (\E k \in DOMAIN queue[w] : queue[w][k] = x) \/ x = u
    <3>1. 1..(L + 1) = 1..L \cup {L + 1}
      BY <1>13
    <3>2. QED
      BY <3>1, <1>14
  <2>2. \A v \in Workers : v # w => queue'[v] = queue[v]
    BY <1>6
  <2>3. QED
    BY <2>1, <2>2, <1>8 DEF InQueue
<1>16. \A x \in Threads : x # c => SameState(x)
  BY <1>6 DEF SameState
<1>17. ASSUME NEW x \in Threads
       PROVE  Moved({u, c}, x)
  <2>1. ~At(u, "joinGet") /\ ~At(c, "joinGet")
    BY <1>1, <1>3, <1>5
  <2>2. HasJoined(u, x) => HasJoined(u, x)'
    BY <1>10
  <2>3. HasJoined(c, x) => HasJoined(c, x)'
    BY <1>5, <1>11
  <2>4. QED
    BY <2>1, <2>2, <2>3, <1>3, <1>5, <1>8, <1>12 DEF Moved
<1>18. ASSUME NEW x \in Threads
       PROVE  LifeInv(x)' /\ RaceInv(x)'
  <2>0. LifeInv(x) /\ Moved({u, c}, x)
    BY <1>0, <1>17
  <2>1. CASE x # u /\ x # c
    <3>1. \A p \in Threads : (HasForked(p, x)' <=> HasForked(p, x)) /\ (HasJoined(p, x) => HasJoined(p, x)')
      BY <2>1, <1>10, <1>11
    <3>2. SameThread(x) /\ SameState(x) /\ (InQueue(x)' <=> InQueue(x))
      BY <2>1, <1>12, <1>15, <1>16
    <3>3. LifeInv(x)'
      BY <2>0, <3>1, <3>2, <1>8, LifeFrame
    <3>4. RaceInv(x)'
      BY <2>0, <2>1, <3>2, MovedRace
    <3>5. QED
      BY <3>3, <3>4
  <2>2. CASE x = u
    <3>1. RaceInv(x)'
      <4>1. ~At(x, "dieResume") /\ ~At(x, "dieResume")' /\ SameState(x)
        BY <2>2, <1>1, <1>3, <1>5, <1>12, <1>16
      <4>2. QED
        BY <2>0, <2>2, <4>1, <1>3, MovedSelf
    <3>2. InQueue(x)' /\ ~OnWorker(x)' /\ ~At(x, "dieFaa")' /\ ~At(x, "dieResume")' /\ ~At(x, "rootFlag")'
      BY <2>2, <1>12, <1>15
    <3>3. \A p \in Threads : HasForked(p, x)' <=> HasForked(p, x)
      BY <2>2, <1>5, <1>10, <1>11
    <3>4. state'[x] = "allocated" /\ serialized'[x] = FALSE /\ retval'[x] = FALSE
      BY <2>2, <1>3, <1>5, <1>6
    <3>5. LifeInv(x)'
      BY <2>0, <2>2, <3>2, <3>3, <3>4, <1>3 DEF LifeInv
    <3>6. QED
      BY <3>1, <3>5
  <2>3. CASE x = c
    <3>1. ~InQueue(x)' /\ OnWorker(x)' /\ ~At(x, "dieFaa")' /\ ~At(x, "dieResume")' /\ ~At(x, "rootFlag")'
      BY <2>3, <1>5, <1>12, <1>15
    <3>2. HasForked(u, x)' /\ ~HasForked(x, x)'
      BY <2>0, <2>3, <1>5, <1>10, <1>11 DEF LifeInv
    <3>3. state'[x] = "allocated" /\ serialized'[x] = FALSE /\ retval'[x] = FALSE
      BY <2>3, <1>5, <1>6
    <3>4. LifeInv(x)'
      BY <3>1, <3>2, <3>3 DEF LifeInv
    <3>5. NotJoined(x)'
      BY <2>3, <1>5, <1>6 DEF NotJoined, Early
    <3>6. RaceInv(x)'
      BY <2>3, <3>1, <3>5, <1>2 DEF RaceInv
    <3>7. QED
      BY <3>4, <3>6
  <2>4. QED
    BY <2>1, <2>2, <2>3
<1>19. PlaceInv'
  <2>1. \A v, y \in Workers : cur'[v] = cur'[y] /\ cur'[v] # Nobody => v = y
    BY <1>0, <1>5, <1>9 DEF PlaceInv, OnWorker
  <2>2. \A v \in Workers : \A k \in DOMAIN queue'[v] :
          (k \in DOMAIN queue[v] /\ queue'[v][k] = queue[v][k]) \/ (v = w /\ k = L + 1 /\ queue'[v][k] = u)
    <3>1. \A k \in DOMAIN queue'[w] : (k \in DOMAIN queue[w] /\ queue'[w][k] = queue[w][k]) \/ (k = L + 1 /\ queue'[w][k] = u)
      <4>1. 1..(L + 1) = 1..L \cup {L + 1}
        BY <1>13
      <4>2. QED
        BY <4>1, <1>14
    <3>2. \A v \in Workers : v # w => queue'[v] = queue[v]
      BY <1>6
    <3>3. QED
      BY <3>1, <3>2
  <2>3. ASSUME NEW v \in Workers, NEW y \in Workers, NEW k \in DOMAIN queue'[v],
               NEW m \in DOMAIN queue'[y], queue'[v][k] = queue'[y][m]
        PROVE  v = y /\ k = m
    <3>1. \A z \in Workers : \A j \in DOMAIN queue[z] : queue[z][j] # u
      BY <1>3 DEF InQueue
    <3>2. (k \in DOMAIN queue[v] /\ queue'[v][k] = queue[v][k]) \/ (v = w /\ k = L + 1 /\ queue'[v][k] = u)
      BY <2>2
    <3>3. (m \in DOMAIN queue[y] /\ queue'[y][m] = queue[y][m]) \/ (y = w /\ m = L + 1 /\ queue'[y][m] = u)
      BY <2>2
    <3>4. CASE v = w /\ k = L + 1 /\ queue'[v][k] = u
      BY <2>3, <3>1, <3>3, <3>4
    <3>5. CASE k \in DOMAIN queue[v] /\ queue'[v][k] = queue[v][k]
      <4>1. m \in DOMAIN queue[y] /\ queue'[y][m] = queue[y][m]
        BY <2>3, <3>1, <3>3, <3>5
      <4>2. queue[v][k] = queue[y][m]
        BY <2>3, <3>5, <4>1
      <4>3. QED
        BY <3>5, <4>1, <4>2, <1>0 DEF PlaceInv
    <3>6. QED
      BY <3>2, <3>4, <3>5
  <2>4. ASSUME NEW x \in Threads, InQueue(x)'
        PROVE  ~OnWorker(x)' /\ x \notin evacuated'
    <3>1. CASE x = u
      BY <3>1, <1>3, <1>6, <1>12
    <3>2. CASE x # u
      <4>1. InQueue(x) /\ x # c
        BY <2>4, <3>2, <1>5, <1>15
      <4>2. SameThread(x) /\ ~OnWorker(x) /\ x \notin evacuated
        BY <4>1, <3>2, <1>0, <1>12 DEF PlaceInv
      <4>3. QED
        BY <4>2 DEF SameThread, SamePlace
    <3>3. QED
      BY <3>1, <3>2
  <2>5. \A v \in Workers : cur'[v] \in evacuated' => pc'[v] = "joinFaa"
    BY <1>0, <1>5, <1>6, <1>9 DEF PlaceInv
  <2>6. \A x \in evacuated' : \E d \in Threads : Joins(x, d)' /\ suspended'[d] = x
    BY <1>0, <1>3, <1>6, <1>11 DEF PlaceInv, TypeOK
  <2>7. QED
    BY <1>8, <2>1, <2>3, <2>4, <2>5, <2>6 DEF PlaceInv
<1>20. ASSUME NEW v \in Workers, v # w
       PROVE  ControlInv(v)' /\ JoiningInv(v)'
  <2>1. /\ pc'[v] = pc[v] /\ cur'[v] = cur[v] /\ queue'[v] = queue[v] /\ lock' = lock /\ victim' = victim
        /\ evacuated' = evacuated
    BY <1>20, <1>6, <1>9
  <2>2. cur[v] # u
    BY <1>0, <1>1, <1>2, <1>20 DEF PlaceInv
  <2>3. \A x \in Threads : x = cur[v] => next'[x] = next[x]
    BY <2>2, <1>10
  <2>4. lock[v] # Nobody => pc'[lock[v]] = pc[lock[v]]
    BY <1>1, <1>9, ThiefElse
  <2>5. ControlInv(v)'
    BY <2>1, <2>3, <2>4, <1>8, ControlKept
  <2>6. \A d \in Threads : pc[v] \in Joining /\ Joins(cur[v], d) =>
          state'[d] = state[d] /\ suspended'[d] = suspended[d] /\ (Late(d) => Late(d)')
    <3>1. ASSUME NEW d \in Threads, pc[v] \in Joining, Joins(cur[v], d)
          PROVE  state[d] = "allocated"
      BY <3>1, <1>0 DEF JoiningInv
    <3>2. ASSUME NEW d \in Threads, d # c
          PROVE  state'[d] = state[d] /\ suspended'[d] = suspended[d] /\ (Late(d) => Late(d)')
      <4>1. ~Late(u)
        BY <1>3 DEF Late
      <4>2. QED
        BY <3>2, <4>1, <1>6, <1>12 DEF Late, SameThread, SamePlace
    <3>3. QED
      BY <3>1, <3>2, <1>4
  <2>7. JoiningInv(v)'
    BY <2>1, <2>3, <2>6, <1>8, JoiningKept
  <2>8. QED
    BY <2>5, <2>7
<1>21. ControlInv(w)' /\ JoiningInv(w)'
  <2>1. lock[w] # Nobody => lock[w] # w /\ pc'[lock[w]] = "steal" /\ victim[lock[w]] = w
    <3>1. ASSUME lock[w] # Nobody
          PROVE  lock[w] \in Workers /\ lock[w] # w /\ pc[lock[w]] = "steal" /\ victim[lock[w]] = w
      BY <3>1, <1>0 DEF ControlInv, TypeOK
    <3>2. QED
      BY <3>1, <1>9
  <2>2. ControlInv(w)'
    BY <2>1, <1>1, <1>6, <1>9 DEF ControlInv, Dying, RootDying, Joining
  <2>3. QED
    BY <2>2, <1>9 DEF JoiningInv, Joining
<1>22. \A v \in Workers : v # w => StackInv(v)'
  <2> SUFFICES ASSUME NEW v \in Workers, v # w
      PROVE  StackInv(v)'
    OBVIOUS
  <2>1. /\ pc'[v] = pc[v] /\ cur'[v] = cur[v] /\ queue'[v] = queue[v] /\ lock'[v] = lock[v]
        /\ frames[v] \ {c} \subseteq frames'[v] /\ c # cur[v] /\ cur[v] # u
    BY <1>0, <1>1, <1>2, <1>5, <1>6, <1>7, <1>9 DEF OnWorker, PlaceInv
  <2>2. lock'[v] # Nobody => cur'[lock[v]] = cur[lock[v]] /\ c # cur[lock[v]]
    BY <2>1, <1>1, <1>5, <1>9, ThiefElse DEF OnWorker
  <2>3. \A x, d \in Threads : /\ HasForked(x, d) => HasForked(x, d)'
                              /\ HasForked(x, d)' => HasForked(x, d) \/ (x # cur[v] /\ ~InQueue(x))
    BY <2>1, <1>3, <1>10, <1>11
  <2>4. QED
    BY <2>1, <2>2, <2>3, <1>5, <1>6, <1>8, StackKept
<1>23. StackInv(w)'
  <2>0. StackInv(w) /\ Lowest(w)' = Lowest(w) /\ Lowest(w) \in {0, 1} /\ (lock[w] = Nobody => Lowest(w) = 1)
    BY <1>0, <1>6 DEF Lowest
  <2>a. Forks(u, c) /\ u \in Ancestors(c) /\ Ancestors(u) \subseteq Ancestors(c) /\ \A x : Ancestors(x)' = Ancestors(x)
    <3>1. Forks(u, c)
      BY <1>2 DEF Forks
    <3>2. QED
      BY <3>1, <1>0, <1>8, AncestorsOf, SameProg
  <2>b. u \in frames[w]
    BY <2>0, <1>1, <1>2 DEF StackInv
  <2>1. ASSUME NEW k \in Lowest(w)..L
        PROVE  /\ k \in Lowest(w)..Len(queue[w]) /\ k \in 0..L
               /\ OnStack(w, k)' = OnStack(w, k) /\ Above(w, k)' = Above(w, k)
               /\ OnStack(w, k) \in Threads /\ Above(w, k) \in Threads
               /\ Above(w, k) = u => k = L
    <3>1. k \in Lowest(w)..Len(queue[w]) /\ k \in 0..L
      BY <2>0, <1>13
    <3>2. OnStack(w, k) \in Threads /\ Above(w, k) \in Threads
      BY <3>1, StackTypes
    <3>3. OnStack(w, k)' = OnStack(w, k)
      <4>1. CASE k = 0
        <5>1. lock[w] # Nobody
          BY <2>0, <3>1, <4>1
        <5>2. cur'[lock[w]] = cur[lock[w]]
          BY <5>1, <1>1, <1>9, ThiefElse
        <5>3. QED
          BY <4>1, <5>2, <1>6 DEF OnStack
      <4>2. CASE k # 0
        <5>1. k \in 1..L
          BY <3>1, <4>2
        <5>2. QED
          BY <4>2, <5>1, <1>14 DEF OnStack
      <4>3. QED
        BY <4>1, <4>2
    <3>4. CASE k < L
      <4>1. k + 1 \in 1..L /\ k < L + 1
        BY <3>1, <3>4
      <4>2. Above(w, k) = queue[w][k + 1] /\ Above(w, k)' = queue'[w][k + 1]
        BY <3>4, <4>1, <1>13, <1>14 DEF Above
      <4>3. queue[w][k + 1] # u
        BY <4>1, <1>3, <1>14 DEF InQueue
      <4>4. QED
        BY <3>1, <3>2, <3>3, <4>1, <4>2, <4>3, <1>14
    <3>5. CASE k = L
      <4>1. L < L + 1 /\ ~(L < L)
        BY <1>13
      <4>2. Above(w, k) = u
        BY <3>5, <4>1, <1>2, <1>13 DEF Above
      <4>3. Above(w, k)' = queue'[w][L + 1]
        BY <3>5, <4>1, <1>14 DEF Above
      <4>4. QED
        BY <3>1, <3>2, <3>3, <3>5, <4>2, <4>3, <1>14
    <3>6. QED
      BY <3>1, <3>4, <3>5
  <2>2. Above(w, L + 1)' = c /\ OnStack(w, L + 1)' = u /\ L + 1 # 0
    <3>1. ~(L + 1 < L + 1) /\ L + 1 # 0
      BY <1>13
    <3>2. QED
      BY <3>1, <1>9, <1>14 DEF Above, OnStack
  <2>3. ASSUME NEW k \in Lowest(w)..L
        PROVE  /\ HasForked(OnStack(w, k), Above(w, k))'
               /\ \A d \in Threads : HasForked(Above(w, k), d)' =>
                    serialized'[d] = TRUE \/ (k < L + 1 /\ d = Above(w, k + 1)')
               /\ OnStack(w, k)' \in frames'[w] /\ OnStack(w, k)' \in Ancestors(cur[w])'
               /\ \A m \in 1..(L + 1) : k < m => OnStack(w, k)' \in Ancestors(queue[w][m])'
    <3>1. PICK a \in Threads, b \in Threads : a = OnStack(w, k) /\ b = Above(w, k) /\ a = OnStack(w, k)' /\ b = Above(w, k)'
      BY <2>1
    <3>2. /\ HasForked(a, b)
          /\ \A d \in Threads : HasForked(b, d) => serialized[d] = TRUE \/ (k < L /\ d = Above(w, k + 1))
          /\ a \in frames[w] /\ a \in Ancestors(u)
          /\ \A m \in 1..L : k < m => a \in Ancestors(queue[w][m])
      BY <2>0, <2>1, <3>1, <1>2, <1>13 DEF StackInv
    <3>3. HasForked(a, b)'
      BY <3>2, <1>10, <1>11
    <3>4. ASSUME NEW d \in Threads, HasForked(b, d)'
          PROVE  serialized'[d] = TRUE \/ (k < L + 1 /\ d = Above(w, k + 1)')
      <4>1. HasForked(b, d) \/ (b = u /\ d = c)
        BY <3>4, <1>10, <1>11
      <4>2. CASE b = u /\ d = c
        <5>1. k = L /\ k < L + 1
          BY <4>2, <3>1, <2>1, <1>13
        <5>2. QED
          BY <4>2, <5>1, <2>2
      <4>3. CASE HasForked(b, d)
        <5>1. serialized[d] = TRUE \/ (k < L /\ d = Above(w, k + 1))
          BY <3>2, <4>3
        <5>2. ASSUME k < L
              PROVE  k < L + 1 /\ Above(w, k + 1)' = Above(w, k + 1)
          <6>1. k \in 0..L
            BY <2>1
          <6>2. k + 1 \in Lowest(w)..L /\ k < L + 1
            BY <5>2, <6>1, <2>0, <1>13
          <6>3. QED
            BY <6>2, <2>1
        <5>3. QED
          BY <5>1, <5>2, <1>6
      <4>4. QED
        BY <4>1, <4>2, <4>3
    <3>5. a \in frames'[w]
      BY <3>2, <2>a, <1>7
    <3>6. a \in Ancestors(cur[w])'
      <4>1. a \in Ancestors(c)'
        BY <3>2, <2>a
      <4>2. QED
        BY <4>1, <1>9
    <3>7. ASSUME NEW m \in 1..(L + 1), k < m
          PROVE  a \in Ancestors(queue[w][m])'
      <4>1. m \in 1..L \/ m = L + 1
        BY <1>13
      <4>2. PICK z : z = queue'[w][m]
        OBVIOUS
      <4>3. a \in Ancestors(z)
        BY <4>1, <4>2, <3>2, <3>7, <1>14
      <4>4. a \in Ancestors(z)'
        BY <4>3, <2>a
      <4>5. QED
        BY <4>2, <4>4
    <3>8. QED
      BY <3>1, <3>3, <3>4, <3>5, <3>6, <3>7
  <2>4. /\ HasForked(OnStack(w, L + 1), Above(w, L + 1))'
        /\ \A d \in Threads : ~HasForked(Above(w, L + 1), d)'
        /\ OnStack(w, L + 1)' \in frames'[w] /\ OnStack(w, L + 1)' \in Ancestors(cur[w])'
    <3>1. HasForked(u, c)'
      BY <1>10
    <3>2. \A d \in Threads : ~HasForked(c, d)'
      <4>1. \A d \in Threads : ~HasForked(c, d)
        <5>1. Prog[c] \in Seq(Operations)
          BY <1>0, ProgFacts
        <5>2. \A k \in DOMAIN Prog[c] : ~(k < next[c])
          BY <5>1, <1>5
        <5>3. QED
          BY <5>2 DEF HasForked
      <4>2. QED
        BY <4>1, <1>5, <1>11
    <3>3. u \in frames'[w]
      BY <2>a, <2>b, <1>7
    <3>4. u \in Ancestors(cur[w])'
      <4>1. u \in Ancestors(c)'
        BY <2>a
      <4>2. QED
        BY <4>1, <1>9
    <3>5. PICK a \in Threads, b \in Threads : a = u /\ b = c /\ a = OnStack(w, L + 1)' /\ b = Above(w, L + 1)'
      BY <2>2
    <3>6. HasForked(a, b)' /\ \A d \in Threads : ~HasForked(b, d)'
      BY <3>1, <3>2, <3>5
    <3>7. QED
      BY <3>3, <3>4, <3>5, <3>6
  <2>5. ASSUME NEW k \in Lowest(w)'..(L + 1)
        PROVE  k \in Lowest(w)..L \/ k = L + 1
    BY <2>0, <1>13
  <2>6. \A m \in 1..(L + 1) : ~(L + 1 < m)
    BY <1>13
  <2>7. cur'[w] \in frames'[w]
    BY <1>7, <1>9
  <2>8. QED
    BY <2>3, <2>4, <2>5, <2>6, <2>7, <1>14 DEF StackInv
<1>24. QED
  BY <1>8, <1>18, <1>19, <1>20, <1>21, <1>22, <1>23 DEF SchedInv

\* The ended thread c returns into the frame of its parent p, which is popped.
LEMMA DieSerializedStep ==
  ASSUME SchedInv, TypeOK', NEW w \in Workers, DieSerialized(w)
  PROVE  SchedInv'
<1>0. /\ TypeOK /\ PlaceInv /\ prog \in Programs
      /\ \A v \in Workers : ControlInv(v) /\ JoiningInv(v) /\ StackInv(v)
      /\ \A x \in Threads : LifeInv(x) /\ RaceInv(x)
  BY DEF SchedInv, TypeOK
<1>1. pc[w] = "die" /\ queue[w] # <<>> /\ queue[w] \in Seq(Threads) /\ Nobody \notin Threads
  BY <1>0, ProgFacts DEF DieSerialized, TypeOK
<1>2. PICK L \in Nat : L = Len(queue[w]) /\ L # 0
  BY <1>1
<1>3. PICK c \in Threads, p \in Threads :
        c = cur[w] /\ p = queue[w][L] /\ c # Root /\ HasForked(p, c) /\ Parent[c] = p /\ L \in DOMAIN queue[w]
  <2>1. queue[w][L] \in Threads /\ L \in DOMAIN queue[w]
    BY <1>1, <1>2
  <2>2. OnStack(w, L) = queue[w][L]
    BY <1>2 DEF OnStack
  <2>3. cur[w] \in Threads \ {Root} /\ HasForked(queue[w][L], cur[w])
    BY <1>1, <1>2, <2>2, StackTop
  <2>4. Parent[cur[w]] = queue[w][L]
    BY <2>1, <2>3, <1>0, ForkOnce, ParentIs
  <2>5. QED
    BY <2>1, <2>3, <2>4
<1>4. /\ OnWorker(c) /\ (\A m : At(c, m) <=> m = pc[w]) /\ ~InQueue(c) /\ c \notin evacuated
      /\ state[c] = "allocated" /\ serialized[c] = FALSE /\ retval[c] = FALSE
  BY <1>1, <1>3, Working
<1>5. InQueue(p)
  BY <1>3 DEF InQueue
<1>6. /\ ~OnWorker(p) /\ (\A m : ~At(p, m)) /\ p \notin evacuated /\ p # c
      /\ state[p] = "allocated" /\ serialized[p] = FALSE /\ retval[p] = FALSE
  BY <1>4, <1>5, Queued
<1>7. NotJoined(c) /\ flag[c] = 0 /\ suspended[c] = Nobody
  <2>1. ~Late(c)
    BY <1>4 DEF Late
  <2>2. ~AboutToSleep(c) /\ ~Asleep(c)
    <3>1. SUFFICES ASSUME AboutToSleep(c) \/ Asleep(c)
          PROVE  FALSE
      OBVIOUS
    <3>2. PICK q \in Threads : q = suspended[c] /\ q \in evacuated /\ Joins(q, c)
      BY <3>1, <1>0 DEF AboutToSleep, Asleep, TypeOK
    <3>3. HasForked(q, c)
      BY <3>2, <1>0, JoinOnce
    <3>4. q = p
      BY <3>3, <1>0, <1>3, ForkOnce
    <3>5. QED
      BY <3>2, <3>4, <1>6
  <2>3. ~Over(c)
    BY <2>1 DEF Over
  <2>4. QED
    BY <2>1, <2>2, <2>3, <1>0, <1>3 DEF RaceInv, NotJoined
<1>8. /\ Moves(w, "run", p) /\ queue'[w] = SubSeq(queue[w], 1, L - 1)
      /\ \A v \in Workers : v # w => queue'[v] = queue[v]
      /\ state'[c] = "freed" /\ \A x \in Threads : x # c => state'[x] = state[x]
      /\ serialized'[c] = TRUE /\ \A x \in Threads : x # c => serialized'[x] = serialized[x]
      /\ UNCHANGED <<victim, lock, next, frames, evacuated, flag, retval, suspended>>
  BY <1>0, <1>2, <1>3 DEF DieSerialized, Moves, Goto, tsVars, TypeOK
<1>9. Workers' = Workers /\ Prog' = Prog /\ prog' = prog
  BY <1>8, SameProg DEF Moves
<1>10. /\ pc'[w] = "run" /\ cur'[w] = p
       /\ \A v \in Workers : v # w => pc'[v] = pc[v] /\ cur'[v] = cur[v]
  BY <1>0, <1>8 DEF TypeOK, Moves
<1>11. \A x, d \in Threads : /\ HasForked(x, d)' <=> HasForked(x, d)
                             /\ HasJoined(x, d)' <=> HasJoined(x, d)
                             /\ Joins(x, d)' <=> Joins(x, d)
  BY <1>8, <1>9, SameNext
<1>12. /\ \A x \in Threads : x # c /\ x # p => SameThread(x)
       /\ OnWorker(p)' /\ \A m : At(p, m)' <=> m = "run"
       /\ ~OnWorker(c)' /\ \A m : ~At(c, m)'
  <2>1. /\ \A x \in Threads : x # cur[w] /\ x # p => SamePlace(x)
        /\ OnWorker(p)' /\ \A m : At(p, m)' <=> m = "run"
    BY <1>0, <1>6, <1>8, MovesAt
  <2>2. ~OnWorker(c)' /\ \A m : ~At(c, m)'
    <3>1. \A x \in Threads : x = cur[w] /\ x # p => ~OnWorker(x)' /\ \A m : ~At(x, m)'
      BY <1>0, <1>6, <1>8, MovesAt
    <3>2. QED
      BY <3>1, <1>3, <1>6
  <2>3. \A x \in Threads : x # c /\ x # p => SameThread(x)
    BY <2>1, <1>3, <1>8 DEF SameThread
  <2>4. QED
    BY <2>1, <2>2, <2>3
<1>13. /\ Len(queue'[w]) = L - 1 /\ DOMAIN queue'[w] = 1..(L - 1) /\ DOMAIN queue[w] = 1..L
       /\ \A k \in 1..(L - 1) : queue'[w][k] = queue[w][k] /\ k \in 1..L /\ k # L
  BY <1>1, <1>2, <1>8
<1>14. /\ \A v \in Workers : \A k \in DOMAIN queue'[v] :
            k \in DOMAIN queue[v] /\ queue'[v][k] = queue[v][k] /\ (v = w => k # L)
       /\ \A x : InQueue(x)' <=> InQueue(x) /\ x # p
  <2>1. \A v \in Workers : \A k \in DOMAIN queue'[v] :
          k \in DOMAIN queue[v] /\ queue'[v][k] = queue[v][k] /\ (v = w => k # L)
    <3>1. \A k \in DOMAIN queue'[w] : k \in DOMAIN queue[w] /\ queue'[w][k] = queue[w][k] /\ k # L
      BY <1>13
    <3>2. \A v \in Workers : v # w => queue'[v] = queue[v]
      BY <1>8
    <3>3. QED
      BY <3>1, <3>2
  <2>2. ASSUME NEW x, InQueue(x)'
        PROVE  InQueue(x) /\ x # p
    <3>0. PICK v \in Workers : \E k \in DOMAIN queue'[v] : queue'[v][k] = x
      BY <2>2, <1>9 DEF InQueue
    <3>1. PICK k \in DOMAIN queue'[v] : queue'[v][k] = x
      BY <3>0
    <3>2. k \in DOMAIN queue[v] /\ queue[v][k] = x /\ (v = w => k # L)
      BY <2>1, <3>1
    <3>3. x # p
      BY <3>2, <1>0, <1>3 DEF PlaceInv
    <3>4. QED
      BY <3>2, <3>3 DEF InQueue
  <2>3. ASSUME NEW x, InQueue(x), x # p
        PROVE  InQueue(x)'
    <3>0. PICK v \in Workers : \E m \in DOMAIN queue[v] : queue[v][m] = x
      BY <2>3 DEF InQueue
    <3>1. PICK m \in DOMAIN queue[v] : queue[v][m] = x
      BY <3>0
    <3>2. CASE v = w
      <4>1. m # L /\ m \in 1..L
        BY <3>1, <3>2, <2>3, <1>3, <1>13
      <4>2. m \in 1..(L - 1)
        BY <4>1, <1>2
      <4>3. queue'[w][m] = x /\ m \in DOMAIN queue'[w]
        BY <3>1, <3>2, <4>2, <1>13
      <4>4. QED
        BY <4>3, <1>9 DEF InQueue
    <3>3. CASE v # w
      BY <3>1, <3>3, <1>8, <1>9 DEF InQueue
    <3>4. QED
      BY <3>2, <3>3
  <2>4. QED
    BY <2>1, <2>2, <2>3
<1>15. \A x \in Threads : x # c => SameState(x)
  BY <1>8 DEF SameState
<1>16. ASSUME NEW x \in Threads
       PROVE  Moved({c, p}, x)
  <2>1. ~At(c, "joinGet") /\ ~At(p, "joinGet")
    BY <1>1, <1>4, <1>6
  <2>2. QED
    BY <2>1, <1>4, <1>6, <1>9, <1>11, <1>12 DEF Moved
<1>17. ASSUME NEW x \in Threads
       PROVE  LifeInv(x)' /\ RaceInv(x)'
  <2>0. LifeInv(x) /\ Moved({c, p}, x)
    BY <1>0, <1>16
  <2>1. CASE x # c /\ x # p
    <3>1. SameThread(x) /\ SameState(x) /\ (InQueue(x)' <=> InQueue(x))
      BY <2>1, <1>12, <1>14, <1>15
    <3>2. LifeInv(x)'
      BY <2>0, <3>1, <1>9, <1>11, LifeFrame
    <3>3. RaceInv(x)'
      BY <2>0, <2>1, <3>1, MovedRace
    <3>4. QED
      BY <3>2, <3>3
  <2>2. CASE x = p
    <3>1. RaceInv(x)'
      <4>1. ~At(x, "dieResume") /\ ~At(x, "dieResume")' /\ SameState(x)
        BY <2>2, <1>6, <1>12, <1>15
      <4>2. QED
        BY <2>0, <2>2, <4>1, <1>6, MovedSelf
    <3>2. ~InQueue(x)' /\ OnWorker(x)' /\ ~At(x, "dieFaa")' /\ ~At(x, "dieResume")' /\ ~At(x, "rootFlag")'
      BY <2>2, <1>12, <1>14
    <3>3. state'[x] = "allocated" /\ serialized'[x] = FALSE /\ retval'[x] = FALSE
      BY <2>2, <1>6, <1>8
    <3>4. LifeInv(x)'
      BY <2>0, <2>2, <3>2, <3>3, <1>6, <1>11 DEF LifeInv
    <3>5. QED
      BY <3>1, <3>4
  <2>3. CASE x = c
    <3>1. ~InQueue(x)' /\ ~OnWorker(x)' /\ ~At(x, "dieFaa")' /\ ~At(x, "dieResume")' /\ ~At(x, "rootFlag")'
      BY <2>3, <1>4, <1>12, <1>14
    <3>2. /\ state'[x] = "freed" /\ serialized'[x] = TRUE /\ retval'[x] = FALSE /\ flag'[x] = 0
          /\ suspended'[x] = Nobody /\ x \notin evacuated'
      BY <2>3, <1>4, <1>7, <1>8
    <3>3. HasForked(p, x)' /\ ~HasForked(x, x)'
      BY <2>0, <2>3, <1>3, <1>11 DEF LifeInv
    <3>4. LifeInv(x)'
      BY <3>1, <3>2, <3>3 DEF LifeInv
    <3>5. NotJoined(x)'
      BY <3>2 DEF NotJoined, Early
    <3>6. RaceInv(x)'
      BY <2>3, <3>1, <3>5, <1>3 DEF RaceInv
    <3>7. QED
      BY <3>4, <3>6
  <2>4. QED
    BY <2>1, <2>2, <2>3
<1>18. PlaceInv'
  <2>1. \A v, y \in Workers : cur'[v] = cur'[y] /\ cur'[v] # Nobody => v = y
    BY <1>0, <1>6, <1>10 DEF PlaceInv, OnWorker
  <2>2. ASSUME NEW v \in Workers, NEW y \in Workers, NEW k \in DOMAIN queue'[v],
               NEW m \in DOMAIN queue'[y], queue'[v][k] = queue'[y][m]
        PROVE  v = y /\ k = m
    <3>1. k \in DOMAIN queue[v] /\ m \in DOMAIN queue[y] /\ queue[v][k] = queue[y][m]
      BY <2>2, <1>14
    <3>2. QED
      BY <3>1, <1>0 DEF PlaceInv
  <2>3. ASSUME NEW x \in Threads, InQueue(x)'
        PROVE  ~OnWorker(x)' /\ x \notin evacuated'
    <3>1. InQueue(x) /\ x # p /\ x # c
      BY <2>3, <1>4, <1>14
    <3>2. SameThread(x) /\ ~OnWorker(x) /\ x \notin evacuated
      BY <3>1, <1>0, <1>12 DEF PlaceInv
    <3>3. QED
      BY <3>2 DEF SameThread, SamePlace
  <2>4. \A v \in Workers : cur'[v] \in evacuated' => pc'[v] = "joinFaa"
    BY <1>0, <1>6, <1>8, <1>10 DEF PlaceInv
  <2>5. \A x \in evacuated' : \E d \in Threads : Joins(x, d)' /\ suspended'[d] = x
    BY <1>0, <1>8, <1>11 DEF PlaceInv, TypeOK
  <2>6. QED
    BY <1>9, <2>1, <2>2, <2>3, <2>4, <2>5 DEF PlaceInv
<1>19. ASSUME NEW v \in Workers, v # w
       PROVE  ControlInv(v)' /\ JoiningInv(v)'
  <2>1. /\ pc'[v] = pc[v] /\ cur'[v] = cur[v] /\ queue'[v] = queue[v] /\ lock' = lock /\ victim' = victim
        /\ evacuated' = evacuated /\ next' = next
    BY <1>19, <1>8, <1>10
  <2>2. lock[v] # Nobody => pc'[lock[v]] = pc[lock[v]]
    BY <1>1, <1>10, ThiefElse
  <2>3. ControlInv(v)'
    BY <2>1, <2>2, <1>9, ControlKept
  <2>4. ASSUME NEW d \in Threads, pc[v] \in Joining, Joins(cur[v], d)
        PROVE  state'[d] = state[d] /\ suspended'[d] = suspended[d] /\ (Late(d) => Late(d)')
    <3>1. cur[v] \in Threads
      BY <2>4, <1>0 DEF ControlInv, TypeOK
    <3>2. HasForked(cur[v], d)
      BY <2>4, <3>1, <1>0, JoinOnce
    <3>3. d # c
      <4>1. SUFFICES ASSUME d = c
            PROVE  FALSE
        OBVIOUS
      <4>2. cur[v] = p
        BY <3>1, <3>2, <4>1, <1>0, <1>3, ForkOnce
      <4>3. QED
        BY <4>2, <1>6 DEF OnWorker
    <3>4. ~Late(p)
      BY <1>6 DEF Late
    <3>5. QED
      BY <3>3, <3>4, <1>8, <1>12 DEF Late, SameThread, SamePlace
  <2>5. JoiningInv(v)'
    BY <2>1, <2>4, <1>9, JoiningKept
  <2>6. QED
    BY <2>3, <2>5
<1>20. ControlInv(w)' /\ JoiningInv(w)'
  <2>1. lock[w] # Nobody => lock[w] # w /\ pc'[lock[w]] = "steal" /\ victim[lock[w]] = w
    <3>1. ASSUME lock[w] # Nobody
          PROVE  lock[w] \in Workers /\ lock[w] # w /\ pc[lock[w]] = "steal" /\ victim[lock[w]] = w
      BY <3>1, <1>0 DEF ControlInv, TypeOK
    <3>2. QED
      BY <3>1, <1>10
  <2>2. ControlInv(w)'
    BY <2>1, <1>1, <1>8, <1>10 DEF ControlInv, Dying, RootDying, Joining
  <2>3. QED
    BY <2>2, <1>10 DEF JoiningInv, Joining
<1>21. \A v \in Workers : v # w => StackInv(v)'
  <2> SUFFICES ASSUME NEW v \in Workers, v # w
      PROVE  StackInv(v)'
    OBVIOUS
  <2>1. /\ pc'[v] = pc[v] /\ cur'[v] = cur[v] /\ queue'[v] = queue[v] /\ lock'[v] = lock[v] /\ frames'[v] = frames[v]
        /\ ControlInv(v) /\ StackInv(v)
    BY <1>0, <1>8, <1>10
  <2>2. lock[v] # Nobody => cur[lock[v]] \in Threads /\ cur'[lock[v]] = cur[lock[v]]
    BY <1>1, <1>10, ThiefElse
  <2>3. \A x \in Threads : serialized[x] = TRUE => serialized'[x] = TRUE
    BY <1>8
  <2>4. QED
    BY <2>1, <2>2, <2>3, <1>0, <1>9, <1>11, StackFrame
<1>22. StackInv(w)'
  <2>0. StackInv(w) /\ Lowest(w)' = Lowest(w) /\ Lowest(w) \in {0, 1} /\ (lock[w] = Nobody => Lowest(w) = 1)
    BY <1>0, <1>8 DEF Lowest
  <2>a. \A x : Ancestors(x)' = Ancestors(x)
    BY <1>9, SameProg
  <2>1. ASSUME NEW k \in Lowest(w)..(L - 1)
        PROVE  /\ k \in Lowest(w)..Len(queue[w]) /\ k \in 0..(L - 1) /\ k < L
               /\ OnStack(w, k)' = OnStack(w, k) /\ Above(w, k)' = Above(w, k)
               /\ OnStack(w, k) \in Threads /\ Above(w, k) \in Threads
    <3>1. k \in Lowest(w)..Len(queue[w]) /\ k \in 0..(L - 1) /\ k < L
      BY <2>0, <1>2
    <3>2. OnStack(w, k) \in Threads /\ Above(w, k) \in Threads
      BY <3>1, StackTypes
    <3>3. OnStack(w, k)' = OnStack(w, k)
      <4>1. CASE k = 0
        <5>1. lock[w] # Nobody
          BY <2>0, <3>1, <4>1
        <5>2. cur'[lock[w]] = cur[lock[w]]
          BY <5>1, <1>1, <1>10, ThiefElse
        <5>3. QED
          BY <4>1, <5>2, <1>8 DEF OnStack
      <4>2. CASE k # 0
        <5>1. k \in 1..(L - 1)
          BY <3>1, <4>2
        <5>2. QED
          BY <4>2, <5>1, <1>13 DEF OnStack
      <4>3. QED
        BY <4>1, <4>2
    <3>4. Above(w, k) = queue[w][k + 1]
      BY <3>1, <1>2 DEF Above
    <3>5. CASE k < L - 1
      <4>1. k + 1 \in 1..(L - 1)
        BY <3>1, <3>5, <1>2
      <4>2. Above(w, k)' = queue'[w][k + 1]
        BY <3>5, <1>13 DEF Above
      <4>3. QED
        BY <3>1, <3>2, <3>3, <3>4, <4>1, <4>2, <1>13
    <3>6. CASE k = L - 1
      <4>1. k + 1 = L /\ ~(k < L - 1)
        BY <3>6, <1>2
      <4>2. Above(w, k)' = p
        BY <4>1, <1>10, <1>13 DEF Above
      <4>3. QED
        BY <3>1, <3>2, <3>3, <3>4, <4>1, <4>2, <1>3
    <3>7. QED
      BY <3>1, <3>5, <3>6, <1>2
  <2>2. ASSUME NEW k \in Lowest(w)..(L - 1)
        PROVE  /\ HasForked(OnStack(w, k), Above(w, k))'
               /\ \A d \in Threads : HasForked(Above(w, k), d)' =>
                    serialized'[d] = TRUE \/ (k < L - 1 /\ d = Above(w, k + 1)')
               /\ OnStack(w, k)' \in frames'[w] /\ OnStack(w, k)' \in Ancestors(cur[w])'
               /\ \A m \in 1..(L - 1) : k < m => OnStack(w, k)' \in Ancestors(queue[w][m])'
    <3>1. PICK a \in Threads, b \in Threads : a = OnStack(w, k) /\ b = Above(w, k) /\ a = OnStack(w, k)' /\ b = Above(w, k)'
      BY <2>1
    <3>2. /\ HasForked(a, b)
          /\ \A d \in Threads : HasForked(b, d) => serialized[d] = TRUE \/ (k < L /\ d = Above(w, k + 1))
          /\ a \in frames[w]
          /\ \A m \in 1..L : k < m => a \in Ancestors(queue[w][m])
      BY <2>0, <2>1, <3>1, <1>2 DEF StackInv
    <3>3. HasForked(a, b)'
      BY <3>2, <1>11
    <3>4. ASSUME NEW d \in Threads, HasForked(b, d)'
          PROVE  serialized'[d] = TRUE \/ (k < L - 1 /\ d = Above(w, k + 1)')
      <4>1. serialized[d] = TRUE \/ (k < L /\ d = Above(w, k + 1))
        BY <3>2, <3>4, <1>11
      <4>2. CASE serialized[d] = TRUE
        BY <4>2, <1>8
      <4>3. CASE d = Above(w, k + 1) /\ k < L - 1
        <5>1. k \in 0..(L - 1)
          BY <2>1
        <5>2. k + 1 \in Lowest(w)..(L - 1)
          BY <4>3, <5>1, <2>0, <1>2
        <5>3. QED
          BY <4>3, <5>2, <2>1
      <4>4. CASE d = Above(w, k + 1) /\ ~(k < L - 1)
        <5>1. k \in 0..(L - 1)
          BY <2>1
        <5>2. k + 1 = L /\ ~(L < L)
          BY <4>4, <5>1, <1>2
        <5>3. Above(w, k + 1) = c
          BY <5>2, <1>2, <1>3 DEF Above
        <5>4. QED
          BY <4>4, <5>3, <1>8
      <4>5. QED
        BY <4>1, <4>2, <4>3, <4>4
    <3>5. a \in frames'[w]
      BY <3>2, <1>8
    <3>6. a \in Ancestors(cur[w])'
      <4>1. L \in 1..L /\ k < L
        BY <2>1, <1>2
      <4>2. a \in Ancestors(p)
        BY <4>1, <3>2, <1>3
      <4>3. a \in Ancestors(p)'
        BY <4>2, <2>a
      <4>4. QED
        BY <4>3, <1>10
    <3>7. ASSUME NEW m \in 1..(L - 1), k < m
          PROVE  a \in Ancestors(queue[w][m])'
      <4>1. m \in 1..L
        BY <1>2
      <4>2. PICK z : z = queue'[w][m] /\ z = queue[w][m]
        BY <1>13
      <4>3. a \in Ancestors(z)
        BY <4>1, <4>2, <3>2, <3>7
      <4>4. a \in Ancestors(z)'
        BY <4>3, <2>a
      <4>5. QED
        BY <4>2, <4>4
    <3>8. QED
      BY <3>1, <3>3, <3>4, <3>5, <3>6, <3>7
  <2>3. cur'[w] \in frames'[w]
    <3>1. L \in Lowest(w)..Len(queue[w])
      BY <2>0, <1>2
    <3>2. OnStack(w, L) \in frames[w]
      BY <3>1, <2>0 DEF StackInv
    <3>3. OnStack(w, L) = p
      BY <1>2, <1>3 DEF OnStack
    <3>4. QED
      BY <3>2, <3>3, <1>8, <1>10
  <2>4. QED
    BY <2>0, <2>2, <2>3, <1>13 DEF StackInv
<1>23. QED
  BY <1>9, <1>17, <1>18, <1>19, <1>20, <1>21, <1>22 DEF SchedInv

-----------------------------------------------------------------------------
(* The invariant.                                                           *)

\* The invariant holds when root_exec begins.
LEMMA SchedInit ==
  ASSUME Init
  PROVE  SchedInv /\ ExitInv
<1>0. prog \in Programs /\ Rank0 \in Workers /\ Root \in Threads /\ Nobody \notin Threads /\ Nobody \notin Workers
  BY ProgFacts DEF Init
<1>1. TypeOK
  BY <1>0 DEF Init, TypeOK, Places
<1>2. \A t, c : (~HasForked(t, c) /\ ~HasJoined(t, c)) \/ t \notin Threads
  <2>1. ASSUME NEW t \in Threads, NEW k \in DOMAIN Prog[t]
        PROVE  ~(k < next[t])
    <3>1. Prog[t] \in Seq(Operations)
      BY <1>0, ProgFacts
    <3>2. next[t] = 1
      BY DEF Init
    <3>3. QED
      BY <3>1, <3>2
  <2>2. QED
    BY <2>1 DEF HasForked, HasJoined
<1>3. /\ \A t \in Threads : OnWorker(t) <=> t = Root
      /\ \A t \in Threads, m \in Watched : ~At(t, m)
      /\ \A t : ~InQueue(t)
  BY <1>0 DEF Init, OnWorker, At, InQueue, Watched
<1>4. PlaceInv
  BY <1>0, <1>3 DEF Init, PlaceInv
<1>5. ASSUME NEW w \in Workers
      PROVE  ControlInv(w) /\ JoiningInv(w) /\ StackInv(w)
  <2>1. ControlInv(w)
    BY <1>0 DEF Init, ControlInv, Dying, RootDying, Joining
  <2>2. JoiningInv(w)
    BY DEF Init, JoiningInv, Joining
  <2>3. StackInv(w)
    <3>1. Lowest(w) = 1 /\ Len(queue[w]) = 0
      BY DEF Init, Lowest
    <3>2. cur[w] # Nobody => cur[w] \in frames[w]
      BY DEF Init
    <3>3. QED
      BY <3>1, <3>2 DEF StackInv
  <2>4. QED
    BY <2>1, <2>2, <2>3
<1>6. ASSUME NEW t \in Threads
      PROVE  LifeInv(t) /\ RaceInv(t)
  <2>1. ~At(t, "dieFaa") /\ ~At(t, "dieResume") /\ ~At(t, "rootFlag")
    BY <1>3 DEF Watched
  <2>2. LifeInv(t)
    BY <1>2, <1>3, <2>1 DEF Init, LifeInv
  <2>3. RaceInv(t)
    BY <2>1 DEF Init, RaceInv, NotJoined, Early
  <2>4. QED
    BY <2>2, <2>3
<1>7. ExitInv
  BY <1>0 DEF Init, ExitInv
<1>8. QED
  BY <1>1, <1>4, <1>5, <1>6, <1>7 DEF SchedInv

\* The flag of the root thread is not taken back.
LEMMA ExitInvStep ==
  ASSUME SchedInv, ExitInv, Next
  PROVE  ExitInv'
<1>0. TypeOK /\ prog \in Programs /\ Root \in Threads /\ Rank0 \in Workers /\ Rank0' = Rank0
  BY ProgFacts DEF SchedInv, TypeOK, Rank0
<1> USE DEF ExitInv, tsVars, Goto, ToSched
<1>1. ASSUME NEW w \in Workers, entered' = entered, flag' = [flag EXCEPT ![cur[w]] = @ + 1]
      PROVE  ExitInv'
  BY <1>0, <1>1 DEF TypeOK
<1>2. ASSUME NEW w \in Workers, entered' = entered, flag' = [flag EXCEPT ![Child(w)] = @ + 1]
      PROVE  ExitInv'
  BY <1>0, <1>2 DEF TypeOK
<1>3. ASSUME NEW w \in Workers, RootFlag(w)
      PROVE  ExitInv'
  BY <1>0, <1>3 DEF RootFlag, TypeOK
<1>4. ASSUME NEW w \in Workers, EntersBarrier(w)
      PROVE  ExitInv'
  BY <1>0, <1>4 DEF EntersBarrier, TypeOK
<1>5. ASSUME entered' = entered, flag' = flag
      PROVE  ExitInv'
  BY <1>0, <1>5
<1>6. ASSUME NEW w \in Workers, WorkerStep(w)
      PROVE  ExitInv'
  <2>1. CASE Fork(w) \/ ThreadEnds(w) \/ DieSerialized(w) \/ DieDrifted(w) \/ DiePut(w) \/ DieResumes(w) \/ RootPut(w)
    BY <2>1, <1>5 DEF Fork, ThreadEnds, DieSerialized, DieDrifted, DiePut, DieResumes, RootPut
  <2>2. CASE JoinSerialized(w) \/ JoinEnded(w) \/ JoinSuspends(w) \/ JoinGets(w) \/ StealCopies(w) \/ Exits(w)
    BY <2>2, <1>5 DEF JoinSerialized, JoinEnded, JoinSuspends, JoinGets, StealCopies, Exits
  <2>3. CASE DieWinsRace(w) \/ DieLosesRace(w)
    BY <2>3, <1>1 DEF DieWinsRace, DieLosesRace
  <2>4. CASE JoinWinsRace(w) \/ JoinLosesRace(w)
    BY <2>4, <1>2 DEF JoinWinsRace, JoinLosesRace
  <2>5. QED
    BY <1>6, <2>1, <2>2, <2>3, <2>4, <1>3, <1>4 DEF WorkerStep
<1>7. ASSUME NEW w \in Workers, NEW v \in Workers, Steal(w, v) \/ StealFails(w, v)
      PROVE  ExitInv'
  BY <1>7, <1>5 DEF Steal, StealFails, vars
<1>8. Done => ExitInv'
  BY <1>5 DEF Done, vars
<1>9. QED
  BY <1>6, <1>7, <1>8 DEF Next

\* Nothing changes.
LEMMA SchedStutter ==
  ASSUME SchedInv, ExitInv, UNCHANGED vars
  PROVE  SchedInv' /\ ExitInv'
<1> USE DEF vars, tsVars
<1>0. Workers' = Workers /\ Prog' = Prog /\ (\A x : Ancestors(x)' = Ancestors(x)) /\ Rank0' = Rank0
  BY SameProg DEF Rank0
<1>1. /\ \A t, c : HasForked(t, c)' <=> HasForked(t, c)
      /\ \A t, c : HasJoined(t, c)' <=> HasJoined(t, c)
      /\ \A t, c : Joins(t, c)' <=> Joins(t, c)
  BY <1>0 DEF HasForked, HasJoined, Joins
<1>2. /\ \A t, m : At(t, m)' <=> At(t, m)
      /\ \A t : OnWorker(t)' <=> OnWorker(t)
      /\ \A t : InQueue(t)' <=> InQueue(t)
  BY <1>0 DEF At, OnWorker, InQueue
<1>3. TypeOK'
  BY <1>0 DEF SchedInv, TypeOK
<1>4. PlaceInv'
  BY <1>0, <1>1, <1>2 DEF SchedInv, PlaceInv
<1>5. ASSUME NEW w \in Workers
      PROVE  ControlInv(w)' /\ JoiningInv(w)' /\ StackInv(w)'
  <2>0. TypeOK /\ ControlInv(w) /\ StackInv(w) /\ \A v \in Workers : ControlInv(v)
    BY DEF SchedInv
  <2>1. ControlInv(w)'
    BY ControlKept
  <2>2. \A c \in Threads : Late(c) => Late(c)'
    BY <1>2 DEF Late
  <2>3. JoiningInv(w)'
    BY <2>2, JoiningKept
  <2>4. ASSUME lock[w] # Nobody
        PROVE  cur[lock[w]] \in Threads
    <3>1. lock[w] \in Workers /\ pc[lock[w]] = "steal"
      BY <2>0, <2>4 DEF ControlInv, TypeOK
    <3>2. QED
      BY <3>1, <2>0 DEF ControlInv, TypeOK
  <2>5. StackInv(w)'
    BY <2>0, <2>4, <1>1, StackFrame
  <2>6. QED
    BY <2>1, <2>3, <2>5
<1>6. ASSUME NEW t \in Threads
      PROVE  LifeInv(t)' /\ RaceInv(t)'
  <2>0. TypeOK /\ LifeInv(t) /\ RaceInv(t) /\ SameState(t) /\ \A x \in Threads : SameThread(x)
    BY <1>2 DEF SchedInv, SameState, SameThread, SamePlace
  <2>1. LifeInv(t)'
    BY <2>0, <1>1, <1>2, LifeFrame
  <2>2. RaceInv(t)'
    BY <2>0, RaceFrame DEF SameThread
  <2>3. QED
    BY <2>1, <2>2
<1>7. ExitInv'
  BY <1>0 DEF ExitInv
<1>8. QED
  BY <1>0, <1>3, <1>4, <1>5, <1>6, <1>7 DEF SchedInv

\* Every step keeps the invariant.
LEMMA SchedStep ==
  ASSUME SchedInv, ExitInv, [Next]_vars
  PROVE  SchedInv' /\ ExitInv'
<1>1. CASE UNCHANGED vars
  BY <1>1, SchedStutter
<1>2. CASE Next
  <2>0. TypeOK' /\ ExitInv'
    BY <1>2, TypeStep, ExitInvStep
  <2>1. ASSUME NEW w \in Workers, WorkerStep(w)
        PROVE  SchedInv'
    <3>1. CASE Fork(w)
      BY <2>0, <3>1, ForkStep
    <3>2. CASE ThreadEnds(w) \/ DieDrifted(w)
      BY <2>0, <3>2, EndStep
    <3>3. CASE DieSerialized(w)
      BY <2>0, <3>3, DieSerializedStep
    <3>4. CASE DiePut(w)
      BY <2>0, <3>4, DiePutStep
    <3>5. CASE DieWinsRace(w) \/ DieLosesRace(w)
      BY <2>0, <3>5, DieRaceStep
    <3>6. CASE DieResumes(w)
      BY <2>0, <3>6, DieResumesStep
    <3>7. CASE RootPut(w) \/ RootFlag(w)
      BY <2>0, <3>7, RootDieStep
    <3>8. CASE JoinSerialized(w)
      BY <2>0, <3>8, JoinSerializedStep
    <3>9. CASE JoinEnded(w)
      BY <2>0, <3>9, JoinEndedStep
    <3>10. CASE JoinSuspends(w)
      BY <2>0, <3>10, JoinSuspendsStep
    <3>11. CASE JoinWinsRace(w) \/ JoinLosesRace(w)
      BY <2>0, <3>11, JoinRaceStep
    <3>12. CASE JoinGets(w)
      BY <2>0, <3>12, JoinGetsStep
    <3>13. CASE StealCopies(w)
      BY <2>0, <3>13, StealCopiesStep
    <3>14. CASE EntersBarrier(w) \/ Exits(w)
      BY <2>0, <3>14, ExitStep
    <3>15. QED
      BY <2>1, <3>1, <3>2, <3>3, <3>4, <3>5, <3>6, <3>7, <3>8, <3>9, <3>10, <3>11, <3>12, <3>13, <3>14
         DEF WorkerStep
  <2>2. ASSUME NEW w \in Workers, NEW v \in Workers, Steal(w, v)
        PROVE  SchedInv'
    BY <2>0, <2>2, StealStep
  <2>3. ASSUME NEW w \in Workers, NEW v \in Workers, StealFails(w, v)
        PROVE  SchedInv'
    BY <2>3, SchedStutter DEF StealFails
  <2>4. Done => SchedInv'
    BY SchedStutter DEF Done
  <2>5. QED
    BY <1>2, <2>0, <2>1, <2>2, <2>3, <2>4 DEF Next
<1>3. QED
  BY <1>1, <1>2

\* The scheduler keeps its invariant, whatever is stolen and in whatever order joins
\* and ends of threads meet.
THEOREM SchedInvariant == Spec => [](SchedInv /\ ExitInv)
<1>1. Init => SchedInv /\ ExitInv
  BY SchedInit
<1>2. SchedInv /\ ExitInv /\ [Next]_vars => (SchedInv /\ ExitInv)'
  BY SchedStep
<1>3. QED
  BY <1>1, <1>2, PTL DEF Spec

-----------------------------------------------------------------------------
(* What the invariant says of the scheduler.                                *)

\* A set with no two elements.
LEMMA AtMostOne ==
  ASSUME NEW S, \A x, y \in S : x = y
  PROVE  Cardinality(S) <= 1
<1>1. CASE S = {}
  BY <1>1, FS_EmptySet
<1>2. CASE S # {}
  <2>1. PICK x : S = {x}
    BY <1>2
  <2>2. Cardinality({x}) = 1
    BY FS_Singleton
  <2>3. QED
    BY <2>1, <2>2
<1>3. QED
  BY <1>1, <1>2

\* Where d has gone to sleep: t joins d, and is nowhere else.
LEMMA SleepsFor ==
  ASSUME SchedInv, NEW t \in Threads, NEW d \in Threads, suspended[d] = t, t \in evacuated,
         flag[d] = 1 \/ WillResume(d), ~OnWorker(t)
  PROVE  Joins(t, d) /\ ~InQueue(t)
<1>0. TypeOK /\ PlaceInv /\ RaceInv(d) /\ Nobody \notin Threads
  BY ProgFacts DEF SchedInv, TypeOK
<1>1. ~InQueue(t)
  BY <1>0 DEF PlaceInv
<1>2. ~NotJoined(d) /\ d # Root
  BY <1>0 DEF RaceInv, NotJoined
<1>3. ~Over(d)
  BY DEF Over, Late, OnWorker, WillResume
<1>4. AboutToSleep(d) \/ Asleep(d)
  BY <1>0, <1>2, <1>3 DEF RaceInv
<1>5. QED
  BY <1>1, <1>4 DEF AboutToSleep, Asleep

\* A thread has one home.
LEMMA OneHome ==
  ASSUME SchedInv, NEW t \in Threads
  PROVE  \A g, h \in Homes(t) : g = h
<1>0. TypeOK /\ PlaceInv /\ Nobody \notin Threads
  BY ProgFacts DEF SchedInv, TypeOK
<1> DEFINE W == {v \in Workers : cur[v] = t}
           Q == {v \in Workers : \E k \in DOMAIN queue[v] : queue[v][k] = t}
           A == {d \in Threads : /\ suspended[d] = t /\ t \in evacuated
                                 /\ flag[d] = 1 \/ WillResume(d)
                                 /\ \A w \in Workers : cur[w] # t}
<1>1. Homes(t) = {<<"worker", w>> : w \in W} \cup {<<"queue", w>> : w \in Q} \cup {<<"asleep", c>> : c \in A}
  BY DEF Homes
<1>2. \A v, w \in W : v = w
  BY <1>0 DEF PlaceInv
<1>3. \A v, w \in Q : v = w
  BY <1>0 DEF PlaceInv
<1>4. (W # {} => OnWorker(t)) /\ (Q # {} => InQueue(t))
  BY DEF OnWorker, InQueue
<1>5. \A d \in A : Joins(t, d) /\ ~InQueue(t) /\ ~OnWorker(t)
  <2>1. ASSUME NEW d \in A
        PROVE  Joins(t, d) /\ ~InQueue(t) /\ ~OnWorker(t)
    <3>1. ~OnWorker(t)
      BY <2>1 DEF OnWorker
    <3>2. QED
      BY <2>1, <3>1, SleepsFor
  <2>2. QED
    BY <2>1
<1>6. \A c, d \in A : c = d
  BY <1>0, <1>5, JoinOnce
<1>7. W = {} \/ Q = {}
  BY <1>0, <1>4 DEF PlaceInv
<1>8. A = {} \/ (W = {} /\ Q = {})
  BY <1>4, <1>5
<1> HIDE DEF W, Q, A
<1>9. QED
  <2>1. SUFFICES ASSUME NEW g \in Homes(t), NEW h \in Homes(t)
                 PROVE  g = h
    OBVIOUS
  <2>2. CASE A # {}
    BY <2>2, <1>1, <1>6, <1>8
  <2>3. CASE Q # {}
    BY <2>3, <1>1, <1>3, <1>7, <1>8
  <2>4. CASE Q = {} /\ A = {}
    BY <2>4, <1>1, <1>2
  <2>5. QED
    BY <2>2, <2>3, <2>4

\* A thread that has begun and not ended has a home.
LEMMA SomeHome ==
  ASSUME SchedInv, NEW t \in Threads, state[t] = "allocated", ~retval[t]
  PROVE  Homes(t) # {}
<1>0. TypeOK /\ PlaceInv /\ LifeInv(t) /\ Nobody \notin Threads
  BY ProgFacts DEF SchedInv, TypeOK
<1>1. retval[t] = FALSE
  BY <1>0 DEF TypeOK
<1>2. CASE OnWorker(t)
  BY <1>2 DEF OnWorker, Homes
<1>3. CASE InQueue(t)
  BY <1>3 DEF InQueue, Homes
<1>4. CASE t \in evacuated /\ ~OnWorker(t)
  <2>1. PICK c \in Threads : Joins(t, c) /\ suspended[c] = t
    BY <1>0, <1>4 DEF PlaceInv
  <2>2. RaceInv(c)
    BY DEF SchedInv
  <2>3. ~NotJoined(c) /\ c # Root
    BY <1>0, <2>1, <2>2 DEF RaceInv, NotJoined
  <2>4. ~AboutToSleep(c) /\ ~At(t, "joinGet")
    BY <1>4, <2>1 DEF AboutToSleep, At, OnWorker
  <2>5. ~Over(c)
    <3>1. HasJoined(t, c) => ~Joins(t, c)
      BY <1>0, JoinOnce
    <3>2. QED
      BY <2>1, <2>4, <3>1 DEF Over
  <2>6. Asleep(c)
    BY <2>2, <2>3, <2>4, <2>5 DEF RaceInv
  <2>7. flag[c] = 1 \/ WillResume(c)
    BY <2>6 DEF Asleep, At, WillResume
  <2>8. \A w \in Workers : cur[w] # t
    BY <1>4 DEF OnWorker
  <2>9. <<"asleep", c>> \in Homes(t)
    BY <2>1, <2>7, <2>8, <1>4 DEF Homes
  <2>10. QED
    BY <2>9
<1>5. QED
  BY <1>0, <1>1, <1>2, <1>3, <1>4 DEF LifeInv

\* A continuation is in one place when the invariant holds.
LEMMA InOnePlace ==
  ASSUME SchedInv
  PROVE  OnePlace
<1>1. SUFFICES ASSUME NEW t \in Threads
               PROVE  /\ Cardinality(Homes(t)) <= 1
                      /\ \A w \in Workers : Cardinality({k \in DOMAIN queue[w] : queue[w][k] = t}) <= 1
                      /\ state[t] = "allocated" /\ ~retval[t] => Homes(t) # {}
  BY DEF OnePlace
<1>2. Cardinality(Homes(t)) <= 1
  <2>1. \A g, h \in Homes(t) : g = h
    BY OneHome
  <2>2. QED
    BY <2>1, AtMostOne
<1>3. ASSUME NEW w \in Workers
      PROVE  Cardinality({k \in DOMAIN queue[w] : queue[w][k] = t}) <= 1
  <2>1. PlaceInv
    BY DEF SchedInv
  <2>2. \A x, y \in {k \in DOMAIN queue[w] : queue[w][k] = t} : x = y
    BY <2>1 DEF PlaceInv
  <2>3. QED
    BY <2>2, AtMostOne
<1>4. state[t] = "allocated" /\ ~retval[t] => Homes(t) # {}
  BY SomeHome
<1>5. QED
  BY <1>2, <1>3, <1>4

\* A continuation is never run twice and never lost: fork, steal, join and the end
\* of a thread leave each thread that has begun in one place.
THEOREM ContinuationsInOnePlace == Spec => []OnePlace
<1>1. SchedInv => OnePlace
  BY InOnePlace
<1>2. QED
  BY <1>1, SchedInvariant, PTL

\* What on_die pops is the continuation of the parent.
LEMMA PopsParent ==
  ASSUME SchedInv
  PROVE  PoppedIsParent
<1>0. TypeOK
  BY DEF SchedInv
<1>1. ASSUME NEW w \in Workers, queue[w] # <<>>
      PROVE  queue[w][Len(queue[w])] = Parent[cur[w]]
  <2>0. queue[w] \in Seq(Threads)
    BY <1>0 DEF TypeOK
  <2>1. Len(queue[w]) # 0
    BY <1>1, <2>0
  <2>2. OnStack(w, Len(queue[w])) = queue[w][Len(queue[w])]
    BY <2>1 DEF OnStack
  <2>3. PICK u \in Threads, c \in Threads \ {Root} :
          u = queue[w][Len(queue[w])] /\ c = cur[w] /\ HasForked(u, c)
    BY <1>1, <2>2, StackTop
  <2>4. Forks(u, c)
    BY <1>0, <2>3, ForkOnce
  <2>5. QED
    BY <1>0, <2>3, <2>4, ParentIs
<1>2. ASSUME NEW w \in Workers, pc[w] \in {"sched", "steal", "joinFaa", "dieFaa", "exited"}
      PROVE  queue[w] = <<>>
  <2>1. ControlInv(w)
    BY DEF SchedInv
  <2>2. QED
    BY <1>2, <2>1 DEF ControlInv, Joining, Dying, RootDying
<1>3. QED
  BY <1>1, <1>2 DEF PoppedIsParent

\* Frames are intact where they are used.
LEMMA FramesLive ==
  ASSUME SchedInv, NEW w \in Workers
  PROVE  /\ pc[w] \in {"run", "joinGet"} => cur[w] \in frames[w]
         /\ \A k \in DOMAIN queue[w] : queue[w][k] \in frames[w]
         /\ pc[w] = "steal" => cur[w] \in frames[victim[w]]
<1>0. TypeOK /\ ControlInv(w) /\ StackInv(w) /\ Nobody \notin Workers
  BY ProgFacts DEF SchedInv, TypeOK
<1>1. pc[w] \in {"run", "joinGet"} => cur[w] \in frames[w]
  BY <1>0 DEF ControlInv, StackInv, Joining
<1>2. ASSUME NEW k \in DOMAIN queue[w]
      PROVE  queue[w][k] \in frames[w]
  <2>1. queue[w] \in Seq(Threads)
    BY <1>0 DEF TypeOK
  <2>2. k \in Lowest(w)..Len(queue[w]) /\ k # 0
    BY <2>1 DEF Lowest
  <2>3. OnStack(w, k) = queue[w][k]
    BY <2>2 DEF OnStack
  <2>4. QED
    BY <1>0, <2>2, <2>3 DEF StackInv
<1>3. ASSUME pc[w] = "steal"
      PROVE  cur[w] \in frames[victim[w]]
  <2>1. PICK v \in Workers : v = victim[w] /\ lock[v] = w
    BY <1>0, <1>3 DEF ControlInv, TypeOK
  <2>2. StackInv(v) /\ queue[v] \in Seq(Threads)
    BY <1>0 DEF SchedInv, TypeOK
  <2>3. 0 \in Lowest(v)..Len(queue[v])
    BY <1>0, <2>1, <2>2 DEF Lowest
  <2>4. OnStack(v, 0) = cur[w]
    BY <2>1 DEF OnStack
  <2>5. QED
    BY <2>1, <2>2, <2>3, <2>4 DEF StackInv
<1>4. QED
  BY <1>1, <1>2, <1>3

\* Thread states are live where they are used.
LEMMA StatesLive ==
  ASSUME SchedInv, NEW w \in Workers
  PROVE  /\ pc[w] \in {"diePut", "dieFaa", "dieResume"} => state[cur[w]] = "allocated"
         /\ pc[w] \in {"joinFaa", "joinGet"} => state[Child(w)] = "allocated"
         /\ pc[w] = "joinGet" => retval[Child(w)]
         /\ pc[w] = "dieResume" => suspended[cur[w]] \in evacuated
<1>0. TypeOK /\ ControlInv(w)
  BY DEF SchedInv
<1>1. ASSUME pc[w] \in {"diePut", "dieFaa", "dieResume"}
      PROVE  /\ state[cur[w]] = "allocated"
             /\ pc[w] = "dieResume" => suspended[cur[w]] \in evacuated
  <2>1. PICK u \in Threads : u = cur[w]
    BY <1>0, <1>1 DEF ControlInv, TypeOK, Dying
  <2>2. state[u] = "allocated" /\ At(u, pc[w])
    BY <2>1, Working
  <2>3. RaceInv(u)
    BY DEF SchedInv
  <2>4. pc[w] = "dieResume" => Asleep(u)
    BY <2>2, <2>3 DEF RaceInv
  <2>5. QED
    BY <2>1, <2>2, <2>4 DEF Asleep
<1>2. ASSUME pc[w] \in Joining
      PROVE  /\ state[Child(w)] = "allocated"
             /\ pc[w] = "joinGet" => retval[Child(w)]
  BY <1>2, JoinRaceFacts DEF Late
<1>3. QED
  BY <1>1, <1>2 DEF Joining

\* Frames and states are live when they are used, when the invariant holds.
LEMMA LiveWhenUsed ==
  ASSUME SchedInv
  PROVE  FramesAndStatesLive
BY PopsParent, FramesLive, StatesLive DEF FramesAndStatesLive

\* on_die returns into the frame of the parent, no frame is run, popped or stolen
\* that another one has overwritten, and no thread state is used before it is
\* allocated or after it is freed.
THEOREM FramesAndStatesAreLive == Spec => []FramesAndStatesLive
<1>1. SchedInv => FramesAndStatesLive
  BY LiveWhenUsed
<1>2. QED
  BY <1>1, SchedInvariant, PTL

-----------------------------------------------------------------------------
(* Arithmetic.                                                              *)

\* A set of numbers has a least one.
LEMMA Least ==
  ASSUME NEW S \in SUBSET Nat, S # {}
  PROVE  \E x \in S : \A y \in S : x <= y
<1>1. PICK x \in S : \A y \in S : ~(<<y, x>> \in OpToRel(<, Nat))
  BY NatLessThanWellFounded, WFMin
<1>2. \A y \in S : ~(y < x)
  BY <1>1 DEF OpToRel
<1>3. QED
  BY <1>2

\* Division by 2, and multiples.
LEMMA Halves ==
  ASSUME NEW p \in Nat, p % 2 = 0
  PROVE  p \div 2 \in Nat /\ p = 2 * (p \div 2)
OBVIOUS

\* What divides a number is a factor of it.
LEMMA Divides ==
  ASSUME NEW p \in Nat, NEW d \in Nat \ {0}
  PROVE  p % d = 0 <=> \E q \in Nat : p = d * q
<1>1. ASSUME p % d = 0
      PROVE  p \div d \in Nat /\ p = d * (p \div d)
  BY <1>1
<1>2. ASSUME NEW q \in Nat, p = d * q
      PROVE  p % d = 0
  BY <1>2
<1>3. QED
  BY <1>1, <1>2

\* A power of 2 that is more than 1 is twice a power of 2.
LEMMA Pow2Half ==
  ASSUME NEW p \in Nat, p > 1, IsPow2(p)
  PROVE  p \div 2 \in Nat \ {0} /\ p = 2 * (p \div 2) /\ IsPow2(p \div 2)
<1>1. p % p = 0
  OBVIOUS
<1>2. p % 2 = 0
  BY <1>1 DEF IsPow2
<1>3. p \div 2 \in Nat /\ p = 2 * (p \div 2)
  BY <1>2, Halves
<1>4. PICK h \in Nat : h = p \div 2 /\ p = 2 * h
  BY <1>3
<1>5. ASSUME NEW d \in 2..h, h % d = 0
      PROVE  d % 2 = 0
  <2>1. PICK q \in Nat : h = d * q
    BY <1>5, Divides
  <2>2. p = d * (2 * q)
    BY <2>1, <1>4
  <2>3. p % d = 0
    BY <2>2, Divides
  <2>4. d \in 2..p
    BY <1>4
  <2>5. QED
    BY <2>3, <2>4 DEF IsPow2
<1>6. QED
  BY <1>3, <1>4, <1>5 DEF IsPow2

\* Of two powers of 2, the smaller one divides half of the greater one.
LEMMA Pow2Divides ==
  ASSUME NEW a \in Nat \ {0}, NEW b \in Nat, IsPow2(a), IsPow2(b), a < b
  PROVE  \E q \in Nat : b = 2 * (a * q)
<1> DEFINE Bad == {x \in Nat \ {0} : IsPow2(x) /\ \E y \in Nat : IsPow2(y) /\ x < y /\ \A q \in Nat : y # 2 * (x * q)}
<1>1. SUFFICES ASSUME Bad # {}
               PROVE  FALSE
  OBVIOUS
<1>2. PICK x \in Bad : \A z \in Bad : x <= z
  BY <1>1, Least
<1>3. PICK y \in Nat : IsPow2(y) /\ x < y /\ \A q \in Nat : y # 2 * (x * q)
  OBVIOUS
<1>4. PICK h \in Nat \ {0} : y = 2 * h /\ IsPow2(h)
  BY <1>3, Pow2Half
<1>5. CASE x = 1
  BY <1>3, <1>4, <1>5
<1>6. CASE x # 1
  <2>1. PICK g \in Nat \ {0} : x = 2 * g /\ IsPow2(g)
    BY <1>6, Pow2Half
  <2>2. g < x /\ g < h
    BY <2>1, <1>3, <1>4
  <2>3. g \notin Bad
    BY <1>2, <2>2
  <2>4. PICK q \in Nat : h = 2 * (g * q)
    BY <2>1, <2>2, <2>3, <1>4
  <2>5. y = 2 * (x * q)
    BY <2>1, <2>4, <1>4
  <2>6. QED
    BY <2>5, <1>3
<1>7. QED
  BY <1>5, <1>6

\* In two iterations of different length the same place is not reached.
LEMMA NotBoth ==
  ASSUME NEW c \in Nat, NEW d \in Nat, NEW l \in Nat, NEW m \in Nat, l > 1, l < m,
         IsPow2(l), IsPow2(m), c % l = 0, d % m = 0
  PROVE  c + l \div 2 # d + m \div 2
<1>0. l \in Nat \ {0} /\ m \in Nat \ {0}
  OBVIOUS
<1>1. PICK h \in Nat \ {0} : l = 2 * h /\ l \div 2 = h
  BY Pow2Half
<1>2. PICK q \in Nat : m = 2 * (l * q)
  BY <1>0, Pow2Divides
<1>3. m \div 2 = l * q
  <2>1. PICK z \in Nat : z = l * q
    OBVIOUS
  <2>2. QED
    BY <1>2, <2>1
<1>4. PICK u \in Nat : c = l * u
  BY <1>0, Divides
<1>5. PICK v \in Nat : d = m * v
  BY <1>0, Divides
<1>6. PICK w \in Nat : w = 2 * (q * v) + q
  OBVIOUS
<1>7. d + m \div 2 = l * w
  <2>1. d = l * (2 * (q * v))
    BY <1>2, <1>5
  <2>2. l * (2 * (q * v)) + l * q = l * (2 * (q * v) + q)
    OBVIOUS
  <2>3. QED
    BY <2>1, <2>2, <1>3, <1>6
<1>8. l * u + h # l * w
  <2>1. ASSUME l * u + h = l * w
        PROVE  FALSE
    <3>1. h * (2 * u + 1) = h * (2 * w)
      BY <1>1, <2>1
    <3>2. 2 * u + 1 = 2 * w
      BY <3>1
    <3>3. QED
      BY <3>2
  <2>2. QED
    BY <2>1
<1>9. QED
  BY <1>1, <1>4, <1>7, <1>8

\* A place in the tree is reached from one other place, in one iteration.
LEMMA OneSender ==
  ASSUME NEW a \in Nat, NEW b \in Nat, NEW j \in Nat, NEW k \in Nat,
         j > 1, k > 1, IsPow2(j), IsPow2(k), a % j = 0, b % k = 0,
         a + j \div 2 = b + k \div 2
  PROVE  a = b /\ j = k
<1>1. ~(j < k)
  BY NotBoth
<1>2. ~(k < j)
  BY NotBoth
<1>3. j = k
  BY <1>1, <1>2
<1>4. j \div 2 \in Nat
  BY Pow2Half
<1>5. QED
  BY <1>3, <1>4

\* The remainder of what is less than twice n.
LEMMA Wraps ==
  ASSUME NEW m \in Nat \ {0}, NEW x \in 0..(2 * m - 1)
  PROVE  x % m = (IF x < m THEN x ELSE x - m) /\ x % m \in 0..(m - 1)
<1>1. CASE x < m
  BY <1>1
<1>2. CASE x >= m
  <2>1. PICK y \in 0..(m - 1) : x = m + y
    BY <1>2
  <2>2. QED
    BY <2>1
<1>3. QED
  BY <1>1, <1>2

\* There is a next power of 2.
LEMMA NextPow2Is ==
  ASSUME NEW x \in Nat \ {0}
  PROVE  NextPow2(x) \in Nat \ {0} /\ IsPow2(NextPow2(x))
<1> DEFINE Has(y) == \E p \in 1..(2 * y) : IsPow2(p) /\ y <= p /\ p \div 2 < y
           Bad == {y \in Nat \ {0} : ~Has(y)}
<1>1. SUFFICES Bad = {}
  <2>1. ASSUME Bad = {}
        PROVE  \E p \in 1..(2 * x) : IsPow2(p) /\ x <= p /\ p \div 2 < x
    BY <2>1
  <2>2. QED
    BY <2>1 DEF NextPow2
<1>2. SUFFICES ASSUME Bad # {}
               PROVE  FALSE
  OBVIOUS
<1>3. PICK y \in Bad : \A z \in Bad : y <= z
  BY <1>2, Least
<1>4. CASE y = 1
  <2>1. IsPow2(1) /\ 1 \div 2 = 0
    BY DEF IsPow2
  <2>2. QED
    BY <1>4, <2>1
<1>5. CASE y # 1
  <2>1. PICK h \in Nat \ {0} : h < y /\ y <= 2 * h /\ 2 * h <= y + 1
    <3>1. (y + 1) \div 2 \in Nat \ {0} /\ (y + 1) \div 2 < y /\ y <= 2 * ((y + 1) \div 2) /\ 2 * ((y + 1) \div 2) <= y + 1
      BY <1>5
    <3>2. QED
      BY <3>1
  <2>2. PICK p \in 1..(2 * h) : IsPow2(p) /\ h <= p /\ p \div 2 < h
    BY <1>3, <2>1
  <2>3. PICK t \in Nat : t = 2 * p /\ t \div 2 = p
    OBVIOUS
  <2>4. y <= t /\ p < y /\ t <= 2 * y
    <3>1. CASE p = 1
      BY <3>1, <1>5, <2>1, <2>2, <2>3
    <3>2. CASE p > 1
      <4>1. PICK g \in Nat \ {0} : p = 2 * g /\ p \div 2 = g
        BY <3>2, Pow2Half, <2>2
      <4>2. QED
        BY <4>1, <2>1, <2>2, <2>3
    <3>3. QED
      BY <3>1, <3>2, <2>2
  <2>5. IsPow2(t)
    <3>1. ASSUME NEW d \in 2..t, t % d = 0, d % 2 # 0
          PROVE  FALSE
      <4>1. PICK q \in Nat : t = d * q
        BY <3>1, Divides
      <4>2. PICK e \in Nat : d = 2 * e + 1
        BY <3>1
      <4>3. PICK f \in Nat : q = 2 * f
        <5>1. q % 2 = 0
          <6>1. CASE q % 2 = 1
            <7>1. PICK f \in Nat : q = 2 * f + 1
              BY <6>1
            <7>2. t = 2 * (2 * (e * f) + e + f) + 1
              BY <4>1, <4>2, <7>1
            <7>3. PICK z \in Nat : z = 2 * (e * f) + e + f
              OBVIOUS
            <7>4. 2 * p = 2 * z + 1
              BY <7>2, <7>3, <2>3
            <7>5. QED
              BY <7>4, <7>3
          <6>2. QED
            BY <6>1
        <5>2. QED
          BY <5>1, Halves
      <4>4. p = d * f
        <5>1. 2 * p = 2 * (d * f)
          BY <4>1, <4>3, <2>3
        <5>2. QED
          BY <5>1
      <4>5. p % d = 0
        BY <4>4, Divides
      <4>6. f > 0 /\ d <= p
        BY <4>4, <2>2
      <4>7. p \in Nat /\ d \in 2..p
        BY <4>6, <2>2
      <4>8. QED
        BY <4>5, <4>7, <3>1, <2>2 DEF IsPow2
    <3>2. QED
      BY <3>1 DEF IsPow2
  <2>6. QED
    BY <2>3, <2>4, <2>5
<1>6. QED
  BY <1>4, <1>5

-----------------------------------------------------------------------------
(* The inductive invariant.                                                 *)

\* A rank has a task.
TaskPlaces == {"send", "sendArrived", "barrier1", "executed", "barrier2"}

\* The tree that begins at b: the place of a rank in it, whether s passes the task on in
\* iteration j, and to whom.
Shift(b, s) == (s + n - b) % n
SendsIn(b, s, j) == j > 1 /\ Shift(b, s) % j = 0 /\ Shift(b, s) + j \div 2 < n
SendsTo(b, s, j) == (Shift(b, s) + j \div 2 + b) % n

\* A rank has come to have the task of the current call, or has been told of it.
HasTask(r) == barriers[r] # 2 * calls - 2 \/ pc[r] \in {"send", "sendArrived"}
Pops(r) == pc[r] \in {"popRead", "fetch"}
Told(r) == HasTask(r) \/ arrived[r] = TRUE \/ Pops(r)

\* The type of the state.
CollTypeOK ==
  /\ calls \in Nat
  /\ begin \in [Workers -> Workers]
  /\ i \in [Workers -> Nat]
  /\ copy \in [Workers -> Nat]
  /\ arrived \in [Workers -> BOOLEAN]
  /\ entry \in [Workers -> [from : Workers, begin : Workers]]
  /\ got \in [Workers -> [from : Workers, begin : Workers]]
  /\ barriers \in [Workers -> Nat]
  /\ executed \in [Workers -> Nat]

\* How far a rank is: it may be in the last barrier of the call before when the next
\* call begins.
ProgressInv(r) ==
  /\ barriers[r] \in (2 * calls - 2)..(2 * calls)
  /\ pc[r] \in {"send", "sendArrived"} =>
       barriers[r] = 2 * calls - 2 /\ copy[r] = calls /\ executed[r] = calls - 1
  /\ pc[r] = "barrier1" => barriers[r] = 2 * calls - 1 /\ copy[r] = calls /\ executed[r] = calls - 1
  /\ pc[r] = "executed" => barriers[r] = 2 * calls - 1 /\ copy[r] = calls /\ executed[r] = calls
  /\ pc[r] = "barrier2" => barriers[r] = 2 * copy[r] /\ executed[r] = copy[r]
  /\ pc[r] \notin TaskPlaces => barriers[r] = 2 * executed[r] /\ copy[r] = 0
  /\ executed[r] = calls => \A q \in Workers : barriers[q] >= 2 * calls - 1

\* A worker that is in coll_exec with a thread has made the current call.
CallerInv(w) ==
  cur[w] # Nobody /\ pc[w] \in CollPlaces =>
    /\ cur[w] = Root /\ pc[w] \in TaskPlaces /\ copy[w] = calls
    /\ next[Root] \in DOMAIN Prog[Root] /\ Prog[Root][next[Root]].do = "coll"

\* A call that some rank has not finished has not returned.
CallInv == (\E r \in Workers : barriers[r] # 2 * calls) => \E w \in Workers : cur[w] = Root /\ pc[w] \in TaskPlaces

\* A worker has left the scheduler loop only when rank 0 may.
ExitedInv(r) == pc[r] = "exited" => entered[Rank0] = TRUE

\* Who has a message has not had the task, and has only this message.
MailInv(r) == (arrived[r] = TRUE \/ Pops(r) => ~HasTask(r)) /\ (arrived[r] = TRUE => ~Pops(r))

\* Ranks that have the task agree on the tree and are in its iterations; every other rank
\* that knows of it was told so in the tree, by one that has it.
TreeInv(b) ==
  /\ HasTask(b)
  /\ \A s \in Workers : HasTask(s) => begin[s] = b /\ i[s] # 0 /\ IsPow2(i[s])
  /\ \A r \in Workers : Told(r) /\ r # b =>
       \E s \in Workers : \E j \in Nat : HasTask(s) /\ j > i[s] /\ IsPow2(j) /\ SendsIn(b, s, j) /\ SendsTo(b, s, j) = r
  /\ \A r \in Workers : arrived[r] = TRUE \/ pc[r] = "popRead" =>
       \E s \in Workers : entry[r] = [from |-> s, begin |-> b] /\ HasTask(s)
  /\ \A r \in Workers : pc[r] = "fetch" => \E s \in Workers : got[r] = [from |-> s, begin |-> b] /\ HasTask(s)
  /\ \A s \in Workers : pc[s] = "sendArrived" =>
       SendsIn(b, s, i[s]) /\ entry[SendsTo(b, s, i[s])] = [from |-> s, begin |-> b]

CollInv ==
  /\ CollTypeOK /\ CallInv
  /\ \A r \in Workers : ProgressInv(r) /\ CallerInv(r) /\ ExitedInv(r) /\ MailInv(r)
  /\ calls # 0 => \E b \in Workers : TreeInv(b)

-----------------------------------------------------------------------------
(* The tree.                                                                *)

\* Ranks and their number.
LEMMA Ranks ==
  ASSUME prog \in Programs
  PROVE  n \in Nat \ {0} /\ Workers = 0..(n - 1)
BY ThreadAssumption DEF n, Workers

\* The places of the ranks in the tree.
LEMMA ShiftIs ==
  ASSUME prog \in Programs, NEW b \in Workers
  PROVE  /\ \A s \in Workers : Shift(b, s) = (IF s < b THEN s + n - b ELSE s - b) /\ Shift(b, s) \in 0..(n - 1)
         /\ Shift(b, b) = 0
         /\ \A s, t \in Workers : Shift(b, s) = Shift(b, t) => s = t
<1>0. n \in Nat \ {0} /\ Workers = 0..(n - 1)
  BY Ranks
<1>1. ASSUME NEW s \in Workers
      PROVE  Shift(b, s) = (IF s < b THEN s + n - b ELSE s - b) /\ Shift(b, s) \in 0..(n - 1)
  <2>1. PICK y \in 0..(2 * n - 1) : y = s + n - b
    BY <1>0
  <2>2. y % n = IF y < n THEN y ELSE y - n
    BY <1>0, Wraps
  <2>3. Shift(b, s) = IF y < n THEN y ELSE y - n
    BY <2>1, <2>2 DEF Shift
  <2>4. QED
    BY <1>0, <2>1, <2>3
<1>2. Shift(b, b) = 0
  BY <1>0, <1>1
<1>3. ASSUME NEW s \in Workers, NEW t \in Workers, Shift(b, s) = Shift(b, t)
      PROVE  s = t
  <2>1. (IF s < b THEN s + n - b ELSE s - b) = IF t < b THEN t + n - b ELSE t - b
    BY <1>1, <1>3
  <2>2. QED
    BY <2>1, <1>0
<1>4. QED
  BY <1>1, <1>2, <1>3

\* Whom the task is passed to.
LEMMA SendsToIs ==
  ASSUME prog \in Programs, NEW b \in Workers, NEW s \in Workers, NEW j \in Nat, SendsIn(b, s, j)
  PROVE  /\ SendsTo(b, s, j) \in Workers /\ Shift(b, SendsTo(b, s, j)) = Shift(b, s) + j \div 2
         /\ j \div 2 > 0 /\ j \div 2 < j /\ j \div 2 \in Nat /\ SendsTo(b, s, j) # b
<1>0. n \in Nat \ {0} /\ Workers = 0..(n - 1) /\ Shift(b, s) \in 0..(n - 1)
  BY Ranks, ShiftIs
<1>1. j \div 2 > 0 /\ j \div 2 < j /\ j \div 2 \in Nat
  BY DEF SendsIn
<1>2. PICK x \in 0..(n - 1) : x = Shift(b, s) + j \div 2 /\ x > 0
  BY <1>0, <1>1 DEF SendsIn
<1>3. SendsTo(b, s, j) = (x + b) % n
  BY <1>2 DEF SendsTo
<1>4. PICK y \in 0..(2 * n - 1) : y = x + b
  BY <1>0
<1>5. SendsTo(b, s, j) = (IF x + b < n THEN x + b ELSE x + b - n) /\ SendsTo(b, s, j) \in 0..(n - 1)
  <2>1. y % n = (IF y < n THEN y ELSE y - n) /\ y % n \in 0..(n - 1)
    BY <1>0, Wraps
  <2>2. SendsTo(b, s, j) = y % n
    BY <1>3, <1>4
  <2>3. QED
    BY <2>1, <2>2, <1>0, <1>4
<1>6. PICK t \in Workers : t = SendsTo(b, s, j)
  BY <1>0, <1>5
<1>7. Shift(b, t) = IF t < b THEN t + n - b ELSE t - b
  BY ShiftIs
<1>8. Shift(b, t) = x
  BY <1>0, <1>2, <1>5, <1>6, <1>7
<1>9. t # b
  BY <1>0, <1>2, <1>8, ShiftIs
<1>10. QED
  BY <1>1, <1>2, <1>6, <1>8, <1>9

\* A rank is told of the task by one rank, in one iteration.
LEMMA OneTeller ==
  ASSUME prog \in Programs, NEW b \in Workers, NEW s \in Workers, NEW t \in Workers,
         NEW j \in Nat, NEW k \in Nat, IsPow2(j), IsPow2(k), SendsIn(b, s, j), SendsIn(b, t, k),
         SendsTo(b, s, j) = SendsTo(b, t, k)
  PROVE  s = t /\ j = k
<1>1. Shift(b, s) \in Nat /\ Shift(b, t) \in Nat
  BY Ranks, ShiftIs
<1>2. Shift(b, s) + j \div 2 = Shift(b, t) + k \div 2
  BY SendsToIs
<1>3. Shift(b, s) = Shift(b, t) /\ j = k
  BY <1>1, <1>2, OneSender DEF SendsIn
<1>4. QED
  BY <1>3, ShiftIs

-----------------------------------------------------------------------------
(* The scheduler, when a worker is in a collective task.                    *)

\* A thread goes into, on in or out of a collective task.
LEMMA ThreadOn ==
  ASSUME SchedInv, TypeOK', NEW w \in Workers, NEW u \in Threads, u = cur[w],
         pc[w] \in {"run"} \cup CollPlaces, NEW l \in {"run"} \cup CollPlaces, Goto(w, l),
         UNCHANGED schedVars, next[u] \in DOMAIN Prog[u], Prog[u][next[u]].do = "coll",
         next' = next \/ next' = [next EXCEPT ![u] = @ + 1]
  PROVE  SchedInv'
<1>0. TypeOK /\ PlaceInv /\ ControlInv(w) /\ StackInv(w) /\ prog \in Programs /\ u # Nobody
  BY ProgFacts DEF SchedInv, TypeOK
<1>1. /\ Moves(w, l, u) /\ prog' = prog
      /\ UNCHANGED <<victim, queue, lock, frames, serialized, evacuated, state, flag, retval, suspended>>
  BY <1>0 DEF Moves, Goto, TypeOK, tsVars, schedVars
<1>2. pc[w] \notin {"steal", "joinFaa"} /\ l # "steal" /\ l \notin Watched \cup Dying \cup RootDying \cup Joining
  BY DEF CollPlaces, Watched, Dying, RootDying, Joining
<1>3. pc[w] \notin Watched \cup Joining
  BY DEF CollPlaces, Watched, Joining
<1>4. \A c : Prog[u][next[u]] # ForkOf(c) /\ Prog[u][next[u]] # JoinOf(c)
  BY OperationsDiffer
<1>5. /\ next' \in [Threads -> Nat \ {0}]
      /\ \A x \in Threads : x # u => next'[x] = next[x]
      /\ \A c : /\ HasForked(u, c)' <=> HasForked(u, c)
                /\ HasJoined(u, c)' <=> HasJoined(u, c)
  <2>1. CASE next' = next
    <3>1. next'[u] = next[u] /\ next' \in [Threads -> Nat \ {0}]
      BY <2>1, <1>0 DEF TypeOK
    <3>2. QED
      BY <2>1, <3>1, <1>1, SameNext
  <2>2. CASE next' = [next EXCEPT ![u] = @ + 1]
    BY <2>2, <1>0, <1>1, <1>4, GoesOn
  <2>3. QED
    BY <2>1, <2>2
<1>6. Local(w, l, u)
  <2>1. \A x \in Threads : x # u => \A c : /\ HasForked(x, c)' <=> HasForked(x, c)
                                           /\ HasJoined(x, c)' <=> HasJoined(x, c)
    BY <1>1, <1>5, SameNext
  <2>2. QED
    BY <1>0, <1>1, <1>2, <1>5, <2>1 DEF Local
<1>7. \A c \in Threads : SameState(c)
  BY <1>1 DEF SameState
<1>8. u \notin evacuated /\ ~InQueue(u) /\ OnWorker(u) /\ (\A m : At(u, m) <=> m = pc[w])
  BY <1>2, Working
<1>9. SamePlace(u)
  <2>1. OnWorker(u)' /\ \A m : At(u, m)' <=> m = l
    BY <1>0, <1>6, LocalPlaces
  <2>2. QED
    BY <2>1, <1>2, <1>3, <1>8 DEF SamePlace
<1>10. PlaceInv'
  BY <1>0, <1>1, <1>2, <1>6, <1>8, LocalPlaceInv DEF TypeOK
<1>11. \A x \in Threads : x # u => SameThread(x)
  BY <1>6, LocalPlaces
<1>12. LifeInv(u)' /\ RaceInv(u)'
  <2>1. LifeInv(u) /\ RaceInv(u)
    BY DEF SchedInv
  <2>2. InQueue(u)' <=> InQueue(u)
    BY <1>6, LocalPlaces
  <2>3. retval[u] = FALSE /\ state[u] = "allocated"
    BY <1>2, <1>3, Working DEF Watched
  <2>4. LifeInv(u)'
    <3>1. \A q \in Threads : (HasForked(q, u)' <=> HasForked(q, u)) /\ (HasJoined(q, u) => HasJoined(q, u)')
      BY <1>6 DEF Local
    <3>2. /\ state'[u] = state[u] /\ retval'[u] = retval[u] /\ serialized'[u] = serialized[u]
          /\ HasForked(u, u)' <=> HasForked(u, u)
          /\ OnWorker(u)' <=> OnWorker(u)
          /\ u \in evacuated' <=> u \in evacuated
      BY <1>1, <1>5, <1>9 DEF SamePlace
    <3>3. /\ At(u, "dieFaa")' <=> At(u, "dieFaa")
          /\ At(u, "dieResume")' <=> At(u, "dieResume")
          /\ At(u, "rootFlag")' <=> At(u, "rootFlag")
      BY <1>9 DEF SamePlace, Watched
    <3>4. (\E q \in Threads : HasForked(q, u)') <=> \E q \in Threads : HasForked(q, u)
      BY <3>1
    <3>5. serialized[u] = FALSE
      BY Working
    <3>6. QED
      BY <2>1, <2>2, <2>3, <3>2, <3>3, <3>4, <3>5 DEF LifeInv
  <2>5. RaceInv(u)'
    <3>1. \A p \in Threads : p = suspended[u] => SameThread(p)
      <4>1. suspended[u] # u
        <5>1. ~HasForked(u, u)
          BY <2>1 DEF LifeInv
        <5>2. ~HasJoined(u, u) /\ ~Joins(u, u)
          BY <5>1, <1>0, JoinOnce
        <5>3. suspended[u] = u => Joins(u, u) \/ HasJoined(u, u)
          BY <1>0, <2>1 DEF RaceInv, NotJoined, AboutToSleep, Asleep, Over
        <5>4. QED
          BY <5>2, <5>3
      <4>2. QED
        BY <4>1, <1>11
    <3>2. QED
      BY <2>1, <3>1, <1>0, <1>1, <1>7, <1>9, RaceFrame
  <2>6. QED
    BY <2>4, <2>5
<1>13. pc'[w] = l /\ cur'[w] = u
  BY <1>6, LocalPlaces
<1>14. JoiningInv(w)'
  BY <1>2, <1>13 DEF JoiningInv
<1>15. ControlInv(w)'
  <2>1. lock[w] # Nobody => lock[w] # w /\ pc'[lock[w]] = "steal" /\ victim[lock[w]] = w
    <3>1. ASSUME lock[w] # Nobody
          PROVE  lock[w] \in Workers /\ lock[w] # w /\ pc[lock[w]] = "steal" /\ victim[lock[w]] = w
      BY <3>1, <1>0 DEF ControlInv, TypeOK
    <3>2. QED
      BY <3>1, <1>6, LocalPlaces
  <2>2. l \notin {"sched", "exited", "steal", "diePut", "dieFaa", "dieResume"} \cup Dying \cup RootDying \cup Joining
    BY <1>2 DEF CollPlaces, Dying
  <2>3. QED
    BY <1>0, <1>1, <1>13, <2>1, <2>2 DEF ControlInv
<1>16. \A x \in Threads : x = u => LifeInv(x)' /\ RaceInv(x)'
  BY <1>12
<1>17. QED
  BY <1>0, <1>1, <1>3, <1>6, <1>7, <1>10, <1>13, <1>14, <1>15, <1>16, LocalDone

\* The steps of a collective task keep the types of the scheduler.
LEMMA CollTypeStep ==
  ASSUME TypeOK, NEW r \in Workers, NEW l \in Places \cup CollPlaces, Goto(r, l),
         UNCHANGED schedVars, next' \in [Threads -> Nat \ {0}]
  PROVE  TypeOK'
<1>1. Workers' = Workers
  BY SameProg DEF schedVars
<1>2. pc' \in [Workers -> Places \cup CollPlaces]
  BY DEF TypeOK, Goto
<1>3. QED
  BY <1>1, <1>2 DEF TypeOK, schedVars, tsVars

\* Where a worker is in the steps of a collective task, and what it leaves alone.
CollMove(r) ==
  \E l \in {"run", "sched"} \cup CollPlaces :
    /\ Goto(r, l) /\ UNCHANGED schedVars
    /\ \/ cur[r] = Nobody /\ l # "run" /\ next' = next
       \/ /\ cur[r] \in Threads /\ l # "sched" /\ pc[r] \in {"run"} \cup CollPlaces
          /\ next[cur[r]] \in DOMAIN Prog[cur[r]] /\ Prog[cur[r]][next[cur[r]]].do = "coll"
          /\ next' = next \/ next' = [next EXCEPT ![cur[r]] = @ + 1]

\* Every step of a collective task is such a move.
LEMMA CollMoves ==
  ASSUME SchedInv, CollInv, NEW r \in Workers, CollStep(r)
  PROVE  CollMove(r)
<1>0. TypeOK /\ ControlInv(r) /\ CallerInv(r) /\ cur[r] \in Threads \cup {Nobody} /\ Root \in Threads /\ Nobody \notin Threads
  BY ProgFacts DEF SchedInv, CollInv, TypeOK
<1>1. CASE CollExecCall(r)
  <2>1. cur[r] \in Threads
    BY <1>0, <1>1 DEF ControlInv, CollExecCall, Does
  <2>2. next[cur[r]] \in DOMAIN Prog[cur[r]] /\ Prog[cur[r]][next[cur[r]]].do = "coll" /\ pc[r] = "run"
    BY <1>0, <1>1, <2>1, ProgFacts DEF CollExecCall, Does, TypeOK
  <2>3. QED
    BY <2>1, <2>2, <1>0, <1>1 DEF CollExecCall, CollMove, CollPlaces
<1>2. ASSUME NEW l \in CollPlaces, Goto(r, l), UNCHANGED <<schedVars, next>>, pc[r] \in CollPlaces \cup {"sched"}
      PROVE  CollMove(r)
  <2>1. pc[r] = "sched" => cur[r] = Nobody
    BY <1>0 DEF ControlInv
  <2>2. cur[r] # Nobody => cur[r] = Root /\ next[Root] \in DOMAIN Prog[Root] /\ Prog[Root][next[Root]].do = "coll"
    BY <2>1, <1>0, <1>2 DEF CallerInv
  <2>3. l # "run" /\ l # "sched"
    BY DEF CollPlaces
  <2>4. QED
    BY <1>0, <1>2, <2>1, <2>2, <2>3 DEF CollMove
<1>3. CASE SendSkips(r)
  <2>1. Goto(r, "send")
    BY <1>0, <1>3 DEF SendSkips, Goto, TypeOK
  <2>2. QED
    BY <2>1, <1>2, <1>3 DEF SendSkips, CollPlaces
<1>4. CASE \/ SendEntry(r) \/ SendArrived(r) \/ BarrierEnter(r, "send", "barrier1") \/ Execute(r)
           \/ BarrierEnter(r, "executed", "barrier2") \/ PopClears(r) \/ PopReads(r) \/ Fetch(r)
  BY <1>2, <1>4 DEF SendEntry, SendArrived, BarrierEnter, Execute, PopClears, PopReads, Fetch, CollPlaces
<1>5. CASE Deallocate(r)
  <2>1. CASE cur[r] = Nobody
    BY <2>1, <1>5 DEF Deallocate, CollMove
  <2>2. CASE cur[r] # Nobody
    <3>1. cur[r] = Root /\ next[Root] \in DOMAIN Prog[Root] /\ Prog[Root][next[Root]].do = "coll"
      BY <2>2, <1>0, <1>5 DEF CallerInv, Deallocate, CollPlaces
    <3>2. QED
      BY <2>2, <3>1, <1>0, <1>5 DEF Deallocate, CollMove, CollPlaces
  <2>3. QED
    BY <2>1, <2>2
<1>6. QED
  BY <1>1, <1>3, <1>4, <1>5 DEF CollStep

\* A collective task keeps what the scheduler relies on.
LEMMA CollKeepsSched ==
  ASSUME SchedInv, ExitInv, NEW r \in Workers, CollMove(r)
  PROVE  SchedInv' /\ ExitInv'
<1>0. TypeOK /\ ControlInv(r)
  BY DEF SchedInv
<1>1. PICK l \in {"run", "sched"} \cup CollPlaces :
        /\ Goto(r, l) /\ UNCHANGED schedVars
        /\ \/ cur[r] = Nobody /\ l # "run" /\ next' = next
           \/ /\ cur[r] \in Threads /\ l # "sched" /\ pc[r] \in {"run"} \cup CollPlaces
              /\ next[cur[r]] \in DOMAIN Prog[cur[r]] /\ Prog[cur[r]][next[cur[r]]].do = "coll"
              /\ next' = next \/ next' = [next EXCEPT ![cur[r]] = @ + 1]
  BY DEF CollMove
<1>2. next' \in [Threads -> Nat \ {0}]
  <2>1. next \in [Threads -> Nat \ {0}]
    BY <1>0 DEF TypeOK
  <2>2. next' = next \/ (cur[r] \in Threads /\ next' = [next EXCEPT ![cur[r]] = @ + 1])
    BY <1>1
  <2>3. PICK u : u = cur[r]
    OBVIOUS
  <2>4. QED
    BY <2>1, <2>2, <2>3
<1>3. TypeOK'
  <2>1. l \in Places \cup CollPlaces
    BY DEF Places
  <2>2. QED
    BY <2>1, <1>0, <1>1, <1>2, CollTypeStep
<1>4. CASE cur[r] = Nobody /\ l # "run" /\ next' = next
  <2>1. l \in {"sched", "exited"} \cup CollPlaces
    BY <1>4
  <2>2. /\ pc' = [pc EXCEPT ![r] = l] /\ \A x \in Threads : state'[x] = state[x]
        /\ UNCHANGED <<prog, cur, victim, queue, lock, next, frames, flag, retval, suspended, serialized, evacuated>>
    BY <1>1, <1>4 DEF Goto, schedVars, tsVars
  <2>3. SchedInv'
    BY <1>3, <1>4, <2>1, <2>2, IdleStep
  <2>4. QED
    BY <1>1, <2>3 DEF ExitInv, Rank0, schedVars, tsVars
<1>5. CASE cur[r] \in Threads /\ l # "sched"
  <2>1. PICK u \in Threads : u = cur[r]
    BY <1>5
  <2>2. cur[r] # Nobody
    BY <1>0, <1>5, ProgFacts DEF TypeOK
  <2>3. l \in {"run"} \cup CollPlaces
    BY <1>5
  <2>4. SchedInv'
    BY <1>1, <1>3, <2>1, <2>2, <2>3, ThreadOn
  <2>5. QED
    BY <1>1, <2>4 DEF ExitInv, Rank0, schedVars, tsVars
<1>6. QED
  BY <1>1, <1>4, <1>5

-----------------------------------------------------------------------------
(* Steps that tell nobody of a task.                                        *)

\* What such a step may do to rank q: the rank goes on in its loop, or pops what has
\* arrived.
SameTree(q) ==
  /\ HasTask(q)' <=> HasTask(q)
  /\ Told(q)' => Told(q)
  /\ begin'[q] = begin[q] /\ i[q] \in Nat /\ i'[q] \in Nat
  /\ i'[q] = i[q] \/ (pc'[q] # "sendArrived" /\ i'[q] <= i[q] /\ i'[q] # 0 /\ IsPow2(i'[q]))
  /\ arrived'[q] = TRUE \/ pc'[q] = "popRead" => arrived[q] = TRUE \/ pc[q] = "popRead"
  /\ pc'[q] = "fetch" => \/ pc[q] = "fetch" /\ got'[q] = got[q]
                         \/ pc[q] = "popRead" /\ got'[q] = entry[q]
  /\ pc'[q] = "sendArrived" => pc[q] = "sendArrived"

\* The tree does not depend on the state.
LEMMA TreeConstant ==
  ASSUME prog' = prog
  PROVE  /\ \A b, s, j : SendsIn(b, s, j)' <=> SendsIn(b, s, j)
         /\ \A b, s, j : SendsTo(b, s, j)' = SendsTo(b, s, j)
         /\ Workers' = Workers /\ n' = n /\ Prog' = Prog
<1>1. Workers' = Workers /\ n' = n /\ Prog' = Prog
  BY DEF Workers, n, Prog
<1>2. QED
  BY <1>1 DEF SendsIn, SendsTo, Shift

\* The invariant of the tree, after a step.
LEMMA TreeIs ==
  ASSUME prog' = prog, NEW b \in Workers, HasTask(b)',
         \A s \in Workers : HasTask(s)' => begin'[s] = b /\ i'[s] # 0 /\ IsPow2(i'[s]),
         \A r \in Workers : Told(r)' /\ r # b =>
           \E s \in Workers : \E j \in Nat :
             HasTask(s)' /\ j > i'[s] /\ IsPow2(j) /\ SendsIn(b, s, j) /\ SendsTo(b, s, j) = r,
         \A r \in Workers : arrived'[r] = TRUE \/ pc'[r] = "popRead" =>
           \E s \in Workers : entry'[r] = [from |-> s, begin |-> b] /\ HasTask(s)',
         \A r \in Workers : pc'[r] = "fetch" => \E s \in Workers : got'[r] = [from |-> s, begin |-> b] /\ HasTask(s)',
         \A s \in Workers : pc'[s] = "sendArrived" =>
           SendsIn(b, s, i'[s]) /\ entry'[SendsTo(b, s, i'[s])] = [from |-> s, begin |-> b]
  PROVE  TreeInv(b)'
<1>1. /\ \A s, j : SendsIn(b, s, j)' <=> SendsIn(b, s, j)
      /\ \A s, j : SendsTo(b, s, j)' = SendsTo(b, s, j)
      /\ Workers' = Workers
  BY TreeConstant
<1>2. QED
  BY <1>1 DEF TreeInv

\* What was told stays told.
LEMMA TreeKept ==
  ASSUME prog' = prog, entry' = entry, NEW b \in Workers, TreeInv(b), \A q \in Workers : SameTree(q)
  PROVE  TreeInv(b)'
<1>0. /\ \A s, j : SendsIn(b, s, j)' <=> SendsIn(b, s, j)
      /\ \A s, j : SendsTo(b, s, j)' = SendsTo(b, s, j)
      /\ Workers' = Workers
  BY TreeConstant
<1>1. HasTask(b)'
  BY DEF TreeInv, SameTree
<1>2. \A s \in Workers : HasTask(s)' => begin'[s] = b /\ i'[s] # 0 /\ IsPow2(i'[s])
  BY DEF TreeInv, SameTree
<1>3. ASSUME NEW r \in Workers, Told(r)', r # b
      PROVE  \E s \in Workers : \E j \in Nat : HasTask(s)' /\ j > i'[s] /\ IsPow2(j) /\ SendsIn(b, s, j) /\ SendsTo(b, s, j) = r
  <2>1. Told(r)
    BY <1>3 DEF SameTree
  <2>2. PICK s \in Workers : \E j \in Nat : HasTask(s) /\ j > i[s] /\ IsPow2(j) /\ SendsIn(b, s, j) /\ SendsTo(b, s, j) = r
    BY <2>1, <1>3 DEF TreeInv
  <2>3. PICK j \in Nat : HasTask(s) /\ j > i[s] /\ IsPow2(j) /\ SendsIn(b, s, j) /\ SendsTo(b, s, j) = r
    BY <2>2
  <2>4. SameTree(s)
    OBVIOUS
  <2>5. HasTask(s)' /\ i[s] \in Nat /\ i'[s] \in Nat /\ i'[s] <= i[s]
    BY <2>3, <2>4 DEF SameTree
  <2>6. j > i'[s]
    BY <2>3, <2>5
  <2>7. QED
    BY <2>3, <2>5, <2>6
<1>4. ASSUME NEW r \in Workers, arrived'[r] = TRUE \/ pc'[r] = "popRead"
      PROVE  \E s \in Workers : entry'[r] = [from |-> s, begin |-> b] /\ HasTask(s)'
  <2>1. arrived[r] = TRUE \/ pc[r] = "popRead"
    BY <1>4 DEF SameTree
  <2>2. PICK s \in Workers : entry[r] = [from |-> s, begin |-> b] /\ HasTask(s)
    BY <2>1 DEF TreeInv
  <2>3. QED
    BY <2>2 DEF SameTree
<1>5. ASSUME NEW r \in Workers, pc'[r] = "fetch"
      PROVE  \E s \in Workers : got'[r] = [from |-> s, begin |-> b] /\ HasTask(s)'
  <2>1. PICK s \in Workers : got'[r] = [from |-> s, begin |-> b] /\ HasTask(s)
    BY <1>5 DEF TreeInv, SameTree
  <2>2. QED
    BY <2>1 DEF SameTree
<1>6. ASSUME NEW s \in Workers, pc'[s] = "sendArrived"
      PROVE  SendsIn(b, s, i'[s]) /\ entry'[SendsTo(b, s, i'[s])] = [from |-> s, begin |-> b]
  <2>1. pc[s] = "sendArrived" /\ i'[s] = i[s]
    BY <1>6 DEF SameTree
  <2>2. QED
    BY <2>1 DEF TreeInv
<1>7. QED
  BY <1>1, <1>2, <1>3, <1>4, <1>5, <1>6, TreeIs

-----------------------------------------------------------------------------
(* The steps of the scheduler leave collective tasks alone.                 *)

\* What a step of the scheduler does to what a collective task looks at.
SchedMove(w) ==
  /\ prog' = prog /\ pc[w] \notin CollPlaces /\ pc'[w] \notin CollPlaces
  /\ \A v \in Workers : v # w => cur'[v] = cur[v] /\ pc'[v] = pc[v]
  /\ \A x \in Threads : x # cur[w] => next'[x] = next[x]
  /\ pc'[w] = "exited" => entered[Rank0] = TRUE
  /\ entered[Rank0] = TRUE => entered'[Rank0] = TRUE

\* Every step of the scheduler is such a move, or none.
LEMMA SchedMoves ==
  ASSUME SchedInv, Next
  PROVE  UNCHANGED vars \/ \E w \in Workers : SchedMove(w)
<1>0. TypeOK /\ Rank0 \in Workers /\ entered \in [Workers -> BOOLEAN]
  BY ProgFacts DEF SchedInv, TypeOK
<1>1. ASSUME NEW w \in Workers, NEW l \in Places \ {"exited"}, Goto(w, l), prog' = prog,
             pc[w] \notin CollPlaces, next' = next \/ next' = [next EXCEPT ![cur[w]] = @ + 1],
             cur' = cur \/ \E t : cur' = [cur EXCEPT ![w] = t], entered' = entered
      PROVE  SchedMove(w)
  <2>1. pc'[w] = l /\ \A v \in Workers : v # w => pc'[v] = pc[v]
    BY <1>0, <1>1 DEF Goto, TypeOK
  <2>2. \A v \in Workers : v # w => cur'[v] = cur[v]
    BY <1>0, <1>1 DEF TypeOK
  <2>3. \A x \in Threads : x # cur[w] => next'[x] = next[x]
    BY <1>0, <1>1 DEF TypeOK
  <2>4. l \notin CollPlaces /\ l # "exited"
    BY DEF Places, CollPlaces
  <2>5. QED
    BY <1>1, <2>1, <2>2, <2>3, <2>4 DEF SchedMove
<1>2. \A w \in Workers : pc' = pc => Goto(w, pc[w])
  BY <1>0 DEF Goto, TypeOK
<1>3. ASSUME NEW w \in Workers, Fork(w) \/ JoinSerialized(w)
      PROVE  SchedMove(w)
  <2>1. Goto(w, "run") /\ pc[w] = "run"
    BY <1>2, <1>3 DEF Fork, JoinSerialized, Does
  <2>2. QED
    BY <2>1, <1>1, <1>3 DEF Fork, JoinSerialized, Places, CollPlaces
<1>4. ASSUME NEW w \in Workers, ThreadEnds(w) \/ DieDrifted(w) \/ DiePut(w) \/ DieLosesRace(w) \/ RootPut(w)
      PROVE  SchedMove(w)
  BY <1>1, <1>4 DEF ThreadEnds, DieDrifted, DiePut, DieLosesRace, RootPut, Places, CollPlaces
<1>5. ASSUME NEW w \in Workers, DieSerialized(w) \/ DieResumes(w)
      PROVE  SchedMove(w)
  BY <1>1, <1>5 DEF DieSerialized, DieResumes, Places, CollPlaces
<1>6. ASSUME NEW w \in Workers, DieWinsRace(w) \/ RootFlag(w) \/ JoinWinsRace(w)
      PROVE  SchedMove(w)
  BY <1>1, <1>6 DEF DieWinsRace, RootFlag, JoinWinsRace, ToSched, Places, CollPlaces
<1>7. ASSUME NEW w \in Workers, JoinEnded(w) \/ JoinSuspends(w) \/ JoinLosesRace(w) \/ JoinGets(w)
      PROVE  SchedMove(w)
  BY <1>1, <1>7 DEF JoinEnded, JoinSuspends, JoinLosesRace, JoinGets, Does, Places, CollPlaces
<1>8. ASSUME NEW w \in Workers, StealCopies(w) \/ \E v \in Workers : Steal(w, v)
      PROVE  SchedMove(w)
  BY <1>1, <1>8 DEF StealCopies, Steal, Places, CollPlaces
<1>9. ASSUME NEW w \in Workers, EntersBarrier(w)
      PROVE  SchedMove(w)
  BY <1>0, <1>9 DEF EntersBarrier, SchedMove, CollPlaces
<1>10. ASSUME NEW w \in Workers, Exits(w)
       PROVE  SchedMove(w)
  <2>1. pc'[w] = "exited" /\ (\A v \in Workers : v # w => pc'[v] = pc[v]) /\ pc[w] = "sched"
    BY <1>0, <1>10 DEF Exits, Goto, TypeOK
  <2>2. entered[Rank0] = TRUE
    BY <1>0, <1>10 DEF Exits
  <2>3. QED
    BY <1>10, <2>1, <2>2 DEF Exits, SchedMove, CollPlaces
<1>11. ASSUME NEW w \in Workers, WorkerStep(w)
       PROVE  SchedMove(w)
  BY <1>3, <1>4, <1>5, <1>6, <1>7, <1>8, <1>9, <1>10, <1>11 DEF WorkerStep
<1>12. QED
  BY <1>8, <1>11 DEF Next, StealFails, Done

\* A step of the scheduler keeps the invariant of collective tasks.
LEMMA SchedKeepsColl ==
  ASSUME SchedInv, CollInv, NEW w \in Workers, SchedMove(w), UNCHANGED collVars
  PROVE  CollInv'
<1>0. TypeOK /\ PlaceInv /\ CollTypeOK /\ CallInv /\ prog' = prog /\ Root \in Threads
  BY ProgFacts DEF SchedInv, CollInv, SchedMove, TypeOK
<1>1. Workers' = Workers /\ n' = n /\ Prog' = Prog
  BY <1>0 DEF Workers, n, Prog
<1>2. UNCHANGED <<calls, begin, i, copy, arrived, entry, got, barriers, executed>>
  BY DEF collVars, taskVars, mailVars
<1>3. \A r \in Workers : pc'[r] = pc[r] \/ (r = w /\ pc[r] \notin CollPlaces /\ pc'[r] \notin CollPlaces)
  BY DEF SchedMove
<1>4. \A r \in Workers : \A l \in CollPlaces : pc'[r] = l <=> pc[r] = l
  BY <1>3
<1>5. \A r \in Workers : pc'[r] \in TaskPlaces <=> pc[r] \in TaskPlaces
  BY <1>4 DEF TaskPlaces, CollPlaces
<1>6. \A r \in Workers : (HasTask(r)' <=> HasTask(r)) /\ (Pops(r)' <=> Pops(r)) /\ (Told(r)' <=> Told(r))
  BY <1>1, <1>2, <1>4 DEF HasTask, Pops, Told, CollPlaces
<1>7. CollTypeOK'
  BY <1>0, <1>1, <1>2 DEF CollTypeOK
<1>8. ASSUME NEW r \in Workers
      PROVE  ProgressInv(r)' /\ MailInv(r)' /\ ExitedInv(r)' /\ CallerInv(r)'
  <2>0. ProgressInv(r) /\ MailInv(r) /\ ExitedInv(r) /\ CallerInv(r)
    BY DEF CollInv
  <2>1. ProgressInv(r)'
    <3>1. /\ pc'[r] \in {"send", "sendArrived"} <=> pc[r] \in {"send", "sendArrived"}
          /\ pc'[r] = "barrier1" <=> pc[r] = "barrier1"
          /\ pc'[r] = "executed" <=> pc[r] = "executed"
          /\ pc'[r] = "barrier2" <=> pc[r] = "barrier2"
          /\ pc'[r] \in TaskPlaces <=> pc[r] \in TaskPlaces
      BY <1>4, <1>5 DEF CollPlaces
    <3>2. QED
      BY <1>1, <1>2, <2>0, <3>1 DEF ProgressInv
  <2>2. MailInv(r)'
    BY <1>2, <1>6, <2>0 DEF MailInv
  <2>3. ExitedInv(r)'
    <3>1. Rank0' = Rank0
      BY DEF Rank0
    <3>2. QED
      BY <1>3, <2>0, <3>1 DEF ExitedInv, SchedMove
  <2>4. CallerInv(r)'
    <3>1. ASSUME cur'[r] # Nobody, pc'[r] \in CollPlaces
          PROVE  CallerInv(r)'
      <4>1. r # w /\ cur'[r] = cur[r] /\ pc'[r] = pc[r]
        BY <3>1 DEF SchedMove
      <4>2. cur[r] = Root
        BY <2>0, <3>1, <4>1 DEF CallerInv
      <4>3. cur[w] # Root
        BY <1>0, <4>1, <4>2, <3>1 DEF PlaceInv
      <4>4. next'[Root] = next[Root]
        BY <1>0, <4>3 DEF SchedMove
      <4>5. QED
        BY <1>1, <1>2, <2>0, <4>1, <4>4 DEF CallerInv
    <3>2. QED
      BY <3>1 DEF CallerInv
  <2>5. QED
    BY <2>1, <2>2, <2>3, <2>4
<1>9. CallInv'
  <2>1. ASSUME NEW v \in Workers, cur[v] = Root, pc[v] \in TaskPlaces
        PROVE  cur'[v] = Root /\ pc'[v] \in TaskPlaces
    <3>1. v # w
      BY <2>1 DEF SchedMove, TaskPlaces, CollPlaces
    <3>2. QED
      BY <2>1, <3>1 DEF SchedMove
  <2>2. QED
    BY <1>0, <1>1, <1>2, <2>1 DEF CallInv
<1>10. ASSUME NEW b \in Workers, TreeInv(b)
       PROVE  TreeInv(b)'
  <2>1. ASSUME NEW q \in Workers
        PROVE  SameTree(q)
    <3>1. i[q] \in Nat /\ i'[q] = i[q] /\ begin'[q] = begin[q] /\ got'[q] = got[q]
      BY <1>0, <1>2 DEF CollTypeOK
    <3>2. (arrived'[q] = TRUE <=> arrived[q] = TRUE) /\ (pc'[q] = "popRead" <=> pc[q] = "popRead")
      BY <1>2, <1>4 DEF CollPlaces
    <3>3. (pc'[q] = "fetch" <=> pc[q] = "fetch") /\ (pc'[q] = "sendArrived" <=> pc[q] = "sendArrived")
      BY <1>4 DEF CollPlaces
    <3>4. QED
      BY <1>6, <3>1, <3>2, <3>3 DEF SameTree
  <2>2. QED
    BY <1>0, <1>2, <1>10, <2>1, TreeKept
<1>11. calls' # 0 => \E b \in Workers : TreeInv(b)'
  BY <1>2, <1>10 DEF CollInv
<1>12. QED
  BY <1>1, <1>7, <1>8, <1>9, <1>11 DEF CollInv

\* The same for a step that changes nothing.
LEMMA CollStutter ==
  ASSUME CollInv, UNCHANGED vars, UNCHANGED collVars
  PROVE  CollInv'
<1>1. UNCHANGED <<prog, pc, cur, next, entered>>
  BY DEF vars
<1>2. UNCHANGED <<calls, begin, i, copy, arrived, entry, got, barriers, executed>>
  BY DEF collVars, taskVars, mailVars
<1>3. Workers' = Workers /\ n' = n /\ Prog' = Prog /\ Rank0' = Rank0
  BY <1>1 DEF Workers, n, Prog, Rank0
<1>4. \A r : (HasTask(r)' <=> HasTask(r)) /\ (Pops(r)' <=> Pops(r)) /\ (Told(r)' <=> Told(r))
  BY <1>1, <1>2 DEF HasTask, Pops, Told
<1>5. CollTypeOK' <=> CollTypeOK
  BY <1>2, <1>3 DEF CollTypeOK
<1>6. CallInv' <=> CallInv
  BY <1>1, <1>2, <1>3 DEF CallInv
<1>7. \A r : /\ ProgressInv(r)' <=> ProgressInv(r)
             /\ CallerInv(r)' <=> CallerInv(r)
             /\ ExitedInv(r)' <=> ExitedInv(r)
             /\ MailInv(r)' <=> MailInv(r)
  BY <1>1, <1>2, <1>3, <1>4 DEF ProgressInv, CallerInv, ExitedInv, MailInv
<1>8. ASSUME NEW b \in Workers, TreeInv(b)
      PROVE  TreeInv(b)'
  <2>1. \A q \in Workers : i[q] \in Nat
    BY DEF CollInv, CollTypeOK
  <2>2. \A q \in Workers : SameTree(q)
    BY <1>1, <1>2, <1>4, <2>1 DEF SameTree
  <2>3. QED
    BY <1>1, <1>2, <1>8, <2>2, TreeKept
<1>9. QED
  BY <1>2, <1>3, <1>5, <1>6, <1>7, <1>8 DEF CollInv

-----------------------------------------------------------------------------
(* The steps of a collective task.                                          *)

\* Rank r goes on at l, in the task or on its way to it.
Inside(r, l) ==
  /\ Goto(r, l) /\ UNCHANGED <<schedVars, next, calls>>
  /\ l \in CollPlaces /\ pc[r] \in CollPlaces \cup {"sched"}
  /\ pc[r] \in TaskPlaces => l \in TaskPlaces /\ copy'[r] = copy[r]
  /\ barriers'[r] = barriers[r] \/ (barriers'[r] = barriers[r] + 1 /\ barriers[r] # 2 * calls)
  /\ \A q \in Workers : q # r => copy'[q] = copy[q] /\ barriers'[q] = barriers[q] /\ executed'[q] = executed[q]

\* What such a step keeps: the other ranks, the call and its caller.
LEMMA InsideKept ==
  ASSUME SchedInv, CollInv, NEW r \in Workers, NEW l, Inside(r, l)
  PROVE  /\ prog' = prog /\ Workers' = Workers /\ pc'[r] = l /\ calls' = calls
         /\ CallInv' /\ CallerInv(r)' /\ ExitedInv(r)'
         /\ \A q \in Workers : q # r =>
              /\ pc'[q] = pc[q] /\ ProgressInv(q)' /\ CallerInv(q)' /\ ExitedInv(q)'
              /\ HasTask(q)' <=> HasTask(q)
              /\ Pops(q)' <=> Pops(q)
<1>0. TypeOK /\ ControlInv(r) /\ CollTypeOK /\ CallInv
  BY DEF SchedInv, CollInv
<1>1. prog' = prog /\ cur' = cur /\ next' = next /\ entered' = entered /\ calls' = calls
  BY DEF Inside, schedVars
<1>2. Workers' = Workers /\ Prog' = Prog /\ Rank0' = Rank0
  BY <1>1, SameProg DEF Rank0
<1>3. pc'[r] = l /\ \A q \in Workers : q # r => pc'[q] = pc[q]
  BY <1>0 DEF Inside, Goto, TypeOK
<1>4. \A q \in Workers : barriers'[q] \in Nat /\ barriers[q] \in Nat /\ barriers'[q] >= barriers[q]
  <2>1. \A q \in Workers : barriers[q] \in Nat
    BY <1>0 DEF CollTypeOK
  <2>2. barriers'[r] = barriers[r] \/ barriers'[r] = barriers[r] + 1
    BY DEF Inside
  <2>3. \A q \in Workers : q # r => barriers'[q] = barriers[q]
    BY DEF Inside
  <2>4. QED
    BY <2>1, <2>2, <2>3
<1>5. CallerInv(r)' /\ ExitedInv(r)'
  <2>1. CallerInv(r)
    BY DEF CollInv
  <2>2. pc[r] = "sched" => cur[r] = Nobody
    BY <1>0 DEF ControlInv
  <2>3. CallerInv(r)'
    BY <1>1, <1>2, <1>3, <2>1, <2>2 DEF Inside, CallerInv
  <2>4. QED
    BY <1>3, <2>3 DEF Inside, ExitedInv, CollPlaces
<1>6. ASSUME NEW q \in Workers, q # r
      PROVE  /\ pc'[q] = pc[q] /\ ProgressInv(q)' /\ CallerInv(q)' /\ ExitedInv(q)'
             /\ HasTask(q)' <=> HasTask(q)
             /\ Pops(q)' <=> Pops(q)
  <2>1. ProgressInv(q) /\ CallerInv(q) /\ ExitedInv(q)
    BY DEF CollInv
  <2>2. pc'[q] = pc[q] /\ copy'[q] = copy[q] /\ barriers'[q] = barriers[q] /\ executed'[q] = executed[q]
    BY <1>3, <1>6 DEF Inside
  <2>3. CallerInv(q)' /\ ExitedInv(q)'
    BY <1>1, <1>2, <2>1, <2>2 DEF CallerInv, ExitedInv
  <2>4. (HasTask(q)' <=> HasTask(q)) /\ (Pops(q)' <=> Pops(q))
    BY <1>1, <2>2 DEF HasTask, Pops
  <2>5. executed[q] = calls => \A x \in Workers : barriers'[x] >= 2 * calls - 1
    <3>1. 2 * calls - 1 \in Int
      BY <1>0 DEF CollTypeOK
    <3>2. ASSUME executed[q] = calls, NEW x \in Workers
          PROVE  barriers'[x] >= 2 * calls - 1
      <4>1. barriers[x] >= 2 * calls - 1
        BY <2>1, <3>2 DEF ProgressInv
      <4>2. QED
        BY <4>1, <3>1, <1>4
    <3>3. QED
      BY <3>2
  <2>6. ProgressInv(q)'
    BY <1>1, <1>2, <2>1, <2>2, <2>5 DEF ProgressInv
  <2>7. QED
    BY <2>2, <2>3, <2>4, <2>6
<1>7. CallInv'
  <2>1. (\E q \in Workers : barriers'[q] # 2 * calls) => \E q \in Workers : barriers[q] # 2 * calls
    BY DEF Inside
  <2>2. ASSUME NEW w \in Workers, cur[w] = Root, pc[w] \in TaskPlaces
        PROVE  cur'[w] = Root /\ pc'[w] \in TaskPlaces
    BY <1>1, <1>3, <2>2 DEF Inside
  <2>3. QED
    BY <1>0, <1>1, <1>2, <2>1, <2>2 DEF CallInv
<1>8. QED
  BY <1>1, <1>2, <1>3, <1>5, <1>6, <1>7

\* What is left to show of such a step.
LEMMA InsideDone ==
  ASSUME SchedInv, CollInv, NEW r \in Workers, NEW l, Inside(r, l), CollTypeOK', ProgressInv(r)',
         \A q \in Workers : MailInv(q)', calls # 0 => \E b \in Workers : TreeInv(b)'
  PROVE  CollInv'
<1>1. /\ prog' = prog /\ Workers' = Workers /\ calls' = calls
      /\ CallInv' /\ CallerInv(r)' /\ ExitedInv(r)'
      /\ \A q \in Workers : q # r => ProgressInv(q)' /\ CallerInv(q)' /\ ExitedInv(q)'
  BY InsideKept
<1>2. \A q \in Workers : ProgressInv(q)' /\ CallerInv(q)' /\ ExitedInv(q)'
  BY <1>1
<1>3. QED
  BY <1>1, <1>2 DEF CollInv

\* A rank that is not yet in the call keeps the others in it.
LEMMA HasCopy ==
  ASSUME CollInv, NEW r \in Workers, NEW s \in Workers, ~HasTask(r), HasTask(s)
  PROVE  calls # 0 /\ copy[s] = calls /\ barriers[r] = 2 * calls - 2
<1>0. /\ ProgressInv(s) /\ calls \in Nat /\ barriers[s] \in Nat /\ barriers[r] \in Nat
      /\ copy[s] \in Nat /\ executed[s] \in Nat
  BY DEF CollInv, CollTypeOK
<1>1. barriers[r] = 2 * calls - 2 /\ calls # 0
  BY <1>0 DEF HasTask
<1>2. executed[s] # calls
  BY <1>0, <1>1 DEF ProgressInv
<1>3. pc[s] # "executed" /\ pc[s] # "barrier2" /\ pc[s] \in TaskPlaces
  <2>1. barriers[s] = 2 * executed[s] /\ pc[s] \notin {"send", "sendArrived"} => FALSE
    BY <1>0, <1>1, <1>2 DEF ProgressInv, HasTask
  <2>2. QED
    BY <2>1, <1>0, <1>2 DEF ProgressInv, TaskPlaces
<1>4. QED
  BY <1>0, <1>1, <1>3 DEF ProgressInv, TaskPlaces

\* Whom r is about to tell has not been told.
LEMMA NotTold ==
  ASSUME SchedInv, CollInv, NEW b \in Workers, TreeInv(b), NEW r \in Workers, HasTask(r), SendsIn(b, r, i[r])
  PROVE  SendsTo(b, r, i[r]) \in Workers /\ ~Told(SendsTo(b, r, i[r]))
<1>0. prog \in Programs /\ \A s \in Workers : i[s] \in Nat
  BY DEF SchedInv, TypeOK, CollInv, CollTypeOK
<1>1. PICK t \in Workers : t = SendsTo(b, r, i[r]) /\ t # b
  BY <1>0, SendsToIs
<1>2. ASSUME Told(t)
      PROVE  FALSE
  <2>1. PICK s \in Workers : \E j \in Nat : HasTask(s) /\ j > i[s] /\ IsPow2(j) /\ SendsIn(b, s, j) /\ SendsTo(b, s, j) = t
    BY <1>1, <1>2 DEF TreeInv
  <2>2. PICK j \in Nat : j > i[s] /\ IsPow2(j) /\ SendsIn(b, s, j) /\ SendsTo(b, s, j) = t
    BY <2>1
  <2>3. IsPow2(i[r])
    BY DEF TreeInv
  <2>4. s = r /\ j = i[r]
    BY <1>0, <1>1, <2>2, <2>3, OneTeller
  <2>5. QED
    BY <1>0, <2>2, <2>4
<1>3. QED
  BY <1>1, <1>2

\* The sends of the code, in the tree.
LEMMA SendsInTree ==
  ASSUME NEW b, NEW r, begin[r] = b
  PROVE  (i[r] > 1 /\ Sends(r) <=> SendsIn(b, r, i[r])) /\ Target(r) = SendsTo(b, r, i[r])
BY DEF Sends, Target, Shifted, SendsIn, SendsTo, Shift

\* mailbox put, the entry: nobody else's entry is overwritten.
LEMMA SendEntryStep ==
  ASSUME SchedInv, CollInv, NEW r \in Workers, SendEntry(r)
  PROVE  CollInv'
<1>0. CollTypeOK /\ ProgressInv(r) /\ prog \in Programs /\ TypeOK
  BY DEF CollInv, SchedInv, TypeOK
<1>1. Inside(r, "sendArrived") /\ UNCHANGED <<begin, i, copy, arrived, got, barriers, executed>>
  BY DEF SendEntry, Inside, taskVars, CollPlaces, TaskPlaces
<1>2. /\ prog' = prog /\ Workers' = Workers /\ pc'[r] = "sendArrived" /\ calls' = calls
      /\ \A q \in Workers : q # r => /\ pc'[q] = pc[q]
                                     /\ HasTask(q)' <=> HasTask(q)
                                     /\ Pops(q)' <=> Pops(q)
  BY <1>1, InsideKept
<1>3. pc[r] = "send" /\ HasTask(r) /\ HasTask(r)' /\ ~Pops(r) /\ ~Pops(r)'
  BY <1>2 DEF SendEntry, HasTask, Pops
<1>4. \A q \in Workers : (HasTask(q)' <=> HasTask(q)) /\ (Pops(q)' <=> Pops(q)) /\ (Told(q)' <=> Told(q))
  BY <1>1, <1>2, <1>3 DEF Told
<1>5. calls # 0
  BY <1>0, <1>3 DEF ProgressInv, CollTypeOK
<1>6. PICK b \in Workers : TreeInv(b)
  BY <1>5 DEF CollInv
<1>7. begin[r] = b /\ IsPow2(i[r])
  BY <1>3, <1>6 DEF TreeInv
<1>8. PICK t : t = SendsTo(b, r, i[r])
  OBVIOUS
<1>9. SendsIn(b, r, i[r]) /\ Target(r) = t
  BY <1>7, <1>8, SendsInTree DEF SendEntry
<1>10. t \in Workers /\ ~Told(t)
  BY <1>3, <1>6, <1>8, <1>9, NotTold
<1>11. entry'[t] = [from |-> r, begin |-> b] /\ \A q \in Workers : q # t => entry'[q] = entry[q]
  BY <1>0, <1>7, <1>9, <1>10 DEF SendEntry, CollTypeOK
<1>12. CollTypeOK'
  <2>1. [from |-> r, begin |-> b] \in [from : Workers, begin : Workers]
    OBVIOUS
  <2>2. entry' = [entry EXCEPT ![t] = [from |-> r, begin |-> b]]
    BY <1>7, <1>9 DEF SendEntry
  <2>3. entry' \in [Workers -> [from : Workers, begin : Workers]]
    BY <1>0, <2>1, <2>2 DEF CollTypeOK
  <2>4. QED
    BY <1>0, <1>1, <1>2, <2>3 DEF CollTypeOK
<1>13. ProgressInv(r)'
  BY <1>0, <1>1, <1>2, <1>3 DEF ProgressInv, TaskPlaces
<1>14. ASSUME NEW q \in Workers
       PROVE  MailInv(q)'
  <2>1. MailInv(q)
    BY DEF CollInv
  <2>2. QED
    BY <1>1, <1>4, <2>1 DEF MailInv
<1>15. TreeInv(b)'
  <2>1. HasTask(b)'
    BY <1>4, <1>6 DEF TreeInv
  <2>2. \A s \in Workers : HasTask(s)' => begin'[s] = b /\ i'[s] # 0 /\ IsPow2(i'[s])
    BY <1>1, <1>4, <1>6 DEF TreeInv
  <2>3. \A q \in Workers : Told(q)' /\ q # b =>
          \E s \in Workers : \E j \in Nat :
            HasTask(s)' /\ j > i'[s] /\ IsPow2(j) /\ SendsIn(b, s, j) /\ SendsTo(b, s, j) = q
    BY <1>1, <1>4, <1>6 DEF TreeInv
  <2>4. ASSUME NEW q \in Workers, arrived'[q] = TRUE \/ pc'[q] = "popRead"
        PROVE  \E s \in Workers : entry'[q] = [from |-> s, begin |-> b] /\ HasTask(s)'
    <3>1. arrived[q] = TRUE \/ pc[q] = "popRead"
      BY <1>1, <1>2, <2>4
    <3>2. Told(q)
      BY <3>1 DEF Told, Pops
    <3>3. PICK s \in Workers : entry[q] = [from |-> s, begin |-> b] /\ HasTask(s)
      BY <3>1, <1>6 DEF TreeInv
    <3>4. q # t
      BY <3>2, <1>10
    <3>5. QED
      BY <3>3, <3>4, <1>4, <1>11
  <2>5. ASSUME NEW q \in Workers, pc'[q] = "fetch"
        PROVE  \E s \in Workers : got'[q] = [from |-> s, begin |-> b] /\ HasTask(s)'
    <3>1. pc[q] = "fetch"
      BY <1>2, <2>5
    <3>2. QED
      BY <3>1, <1>1, <1>4, <1>6 DEF TreeInv
  <2>6. ASSUME NEW s \in Workers, pc'[s] = "sendArrived"
        PROVE  SendsIn(b, s, i'[s]) /\ entry'[SendsTo(b, s, i'[s])] = [from |-> s, begin |-> b]
    <3>1. CASE s = r
      BY <3>1, <1>1, <1>8, <1>9, <1>11
    <3>2. CASE s # r
      <4>1. pc[s] = "sendArrived" /\ HasTask(s)
        BY <3>2, <1>2, <2>6 DEF HasTask
      <4>2. SendsIn(b, s, i[s]) /\ entry[SendsTo(b, s, i[s])] = [from |-> s, begin |-> b] /\ IsPow2(i[s])
        BY <4>1, <1>6 DEF TreeInv
      <4>3. i[s] \in Nat /\ i[r] \in Nat
        BY <1>0 DEF CollTypeOK
      <4>4. SendsTo(b, s, i[s]) \in Workers
        BY <4>2, <4>3, <1>0, SendsToIs
      <4>5. SendsTo(b, s, i[s]) # t
        BY <4>2, <4>3, <1>0, <1>7, <1>8, <1>9, <3>2, OneTeller
      <4>6. QED
        BY <4>2, <4>4, <4>5, <1>1, <1>11
    <3>3. QED
      BY <3>1, <3>2
  <2>7. QED
    BY <1>2, <2>1, <2>2, <2>3, <2>4, <2>5, <2>6, TreeIs
<1>16. QED
  BY <1>1, <1>12, <1>13, <1>14, <1>15, InsideDone

\* mailbox put, arrived: the entry is still there, and its rank is told by r alone.
LEMMA SendArrivedStep ==
  ASSUME SchedInv, CollInv, NEW r \in Workers, SendArrived(r)
  PROVE  CollInv'
<1>0. CollTypeOK /\ ProgressInv(r) /\ prog \in Programs /\ TypeOK
  BY DEF CollInv, SchedInv, TypeOK
<1>1. Inside(r, "send") /\ UNCHANGED <<begin, copy, entry, got, barriers, executed>>
  BY DEF SendArrived, Inside, CollPlaces, TaskPlaces
<1>2. /\ prog' = prog /\ Workers' = Workers /\ pc'[r] = "send" /\ calls' = calls
      /\ \A q \in Workers : q # r => /\ pc'[q] = pc[q]
                                     /\ HasTask(q)' <=> HasTask(q)
                                     /\ Pops(q)' <=> Pops(q)
  BY <1>1, InsideKept
<1>3. pc[r] = "sendArrived" /\ HasTask(r) /\ HasTask(r)' /\ ~Pops(r) /\ ~Pops(r)'
  BY <1>2 DEF SendArrived, HasTask, Pops
<1>4. \A q \in Workers : (HasTask(q)' <=> HasTask(q)) /\ (Pops(q)' <=> Pops(q))
  BY <1>2, <1>3
<1>5. calls # 0
  BY <1>0, <1>3 DEF ProgressInv, CollTypeOK
<1>6. PICK b \in Workers : TreeInv(b)
  BY <1>5 DEF CollInv
<1>7. begin[r] = b /\ IsPow2(i[r]) /\ SendsIn(b, r, i[r]) /\ i[r] \in Nat
  BY <1>0, <1>3, <1>6 DEF TreeInv, CollTypeOK
<1>8. PICK t : t = SendsTo(b, r, i[r])
  OBVIOUS
<1>9. entry[t] = [from |-> r, begin |-> b] /\ Target(r) = t
  BY <1>3, <1>6, <1>7, <1>8, SendsInTree DEF TreeInv
<1>10. t \in Workers /\ ~Told(t)
  BY <1>3, <1>6, <1>7, <1>8, NotTold
<1>11. arrived'[t] = TRUE /\ \A q \in Workers : q # t => arrived'[q] = arrived[q]
  BY <1>0, <1>9, <1>10 DEF SendArrived, CollTypeOK
<1>12. \A q \in Workers : q # t => (Told(q)' <=> Told(q))
  BY <1>4, <1>11 DEF Told
<1>13. /\ i'[r] \in Nat /\ i'[r] < i[r] /\ i'[r] # 0 /\ IsPow2(i'[r])
       /\ \A q \in Workers : q # r => i'[q] = i[q]
  <2>1. i'[r] = i[r] \div 2 /\ \A q \in Workers : q # r => i'[q] = i[q]
    BY <1>0 DEF SendArrived, CollTypeOK
  <2>2. i[r] > 1
    BY <1>7 DEF SendsIn
  <2>3. i[r] \div 2 \in Nat \ {0} /\ i[r] = 2 * (i[r] \div 2) /\ IsPow2(i[r] \div 2)
    BY <1>7, <2>2, Pow2Half
  <2>4. i[r] \div 2 < i[r]
    BY <1>7, <2>2
  <2>5. QED
    BY <2>1, <2>3, <2>4
<1>14. CollTypeOK'
  <2>1. i' \in [Workers -> Nat]
    BY <1>0, <1>13 DEF SendArrived, CollTypeOK
  <2>2. arrived' \in [Workers -> BOOLEAN]
    BY <1>0 DEF SendArrived, CollTypeOK
  <2>3. QED
    BY <1>0, <1>1, <1>2, <2>1, <2>2 DEF CollTypeOK
<1>15. ProgressInv(r)'
  BY <1>0, <1>1, <1>2, <1>3 DEF ProgressInv, TaskPlaces
<1>16. ASSUME NEW q \in Workers
       PROVE  MailInv(q)'
  <2>1. MailInv(q)
    BY DEF CollInv
  <2>2. CASE q = t
    BY <2>2, <1>4, <1>10 DEF MailInv, Told
  <2>3. CASE q # t
    BY <2>1, <2>3, <1>4, <1>11 DEF MailInv
  <2>4. QED
    BY <2>2, <2>3
<1>17. TreeInv(b)'
  <2>1. HasTask(b)'
    BY <1>4, <1>6 DEF TreeInv
  <2>2. \A s \in Workers : HasTask(s)' => begin'[s] = b /\ i'[s] # 0 /\ IsPow2(i'[s])
    BY <1>1, <1>4, <1>6, <1>13 DEF TreeInv
  <2>3. ASSUME NEW q \in Workers, Told(q)', q # b
        PROVE  \E s \in Workers : \E j \in Nat :
                 HasTask(s)' /\ j > i'[s] /\ IsPow2(j) /\ SendsIn(b, s, j) /\ SendsTo(b, s, j) = q
    <3>1. CASE q = t
      <4>1. HasTask(r)' /\ i[r] \in Nat /\ i[r] > i'[r] /\ IsPow2(i[r]) /\ SendsIn(b, r, i[r]) /\ SendsTo(b, r, i[r]) = q
        BY <3>1, <1>3, <1>7, <1>8, <1>13
      <4>2. QED
        BY <4>1
    <3>2. CASE q # t
      <4>1. PICK s \in Workers : \E j \in Nat : HasTask(s) /\ j > i[s] /\ IsPow2(j) /\ SendsIn(b, s, j) /\ SendsTo(b, s, j) = q
        BY <3>2, <1>6, <1>12, <2>3 DEF TreeInv
      <4>2. PICK j \in Nat : HasTask(s) /\ j > i[s] /\ IsPow2(j) /\ SendsIn(b, s, j) /\ SendsTo(b, s, j) = q
        BY <4>1
      <4>3. i[s] \in Nat /\ i'[s] \in Nat /\ i'[s] <= i[s]
        BY <1>0, <1>13 DEF CollTypeOK
      <4>4. j > i'[s]
        BY <4>2, <4>3
      <4>5. QED
        BY <4>2, <4>4, <1>4
    <3>3. QED
      BY <3>1, <3>2
  <2>4. ASSUME NEW q \in Workers, arrived'[q] = TRUE \/ pc'[q] = "popRead"
        PROVE  \E s \in Workers : entry'[q] = [from |-> s, begin |-> b] /\ HasTask(s)'
    <3>1. CASE q = t
      BY <3>1, <1>1, <1>3, <1>9
    <3>2. CASE q # t
      <4>1. arrived[q] = TRUE \/ pc[q] = "popRead"
        BY <3>2, <1>2, <1>11, <2>4
      <4>2. PICK s \in Workers : entry[q] = [from |-> s, begin |-> b] /\ HasTask(s)
        BY <4>1, <1>6 DEF TreeInv
      <4>3. QED
        BY <4>2, <1>1, <1>4
    <3>3. QED
      BY <3>1, <3>2
  <2>5. ASSUME NEW q \in Workers, pc'[q] = "fetch"
        PROVE  \E s \in Workers : got'[q] = [from |-> s, begin |-> b] /\ HasTask(s)'
    <3>1. pc[q] = "fetch"
      BY <1>2, <2>5
    <3>2. QED
      BY <3>1, <1>1, <1>4, <1>6 DEF TreeInv
  <2>6. ASSUME NEW s \in Workers, pc'[s] = "sendArrived"
        PROVE  SendsIn(b, s, i'[s]) /\ entry'[SendsTo(b, s, i'[s])] = [from |-> s, begin |-> b]
    <3>1. s # r /\ pc[s] = "sendArrived"
      BY <1>2, <2>6
    <3>2. QED
      BY <3>1, <1>1, <1>6, <1>13 DEF TreeInv
  <2>7. QED
    BY <1>2, <2>1, <2>2, <2>3, <2>4, <2>5, <2>6, TreeIs
<1>18. QED
  BY <1>1, <1>14, <1>15, <1>16, <1>17, InsideDone

\* A step that tells nobody, when all ranks keep their task.
LEMMA QuietDone ==
  ASSUME SchedInv, CollInv, NEW r \in Workers, NEW l, Inside(r, l), CollTypeOK', ProgressInv(r)',
         UNCHANGED <<begin, entry>>, SameTree(r), MailInv(r)',
         \A q \in Workers : q # r => arrived'[q] = arrived[q] /\ got'[q] = got[q] /\ i'[q] = i[q]
  PROVE  CollInv'
<1>0. CollTypeOK
  BY DEF CollInv
<1>1. /\ prog' = prog /\ Workers' = Workers /\ calls' = calls
      /\ \A q \in Workers : q # r => /\ pc'[q] = pc[q]
                                     /\ HasTask(q)' <=> HasTask(q)
                                     /\ Pops(q)' <=> Pops(q)
  BY InsideKept
<1>2. ASSUME NEW q \in Workers, q # r
      PROVE  SameTree(q) /\ MailInv(q)'
  <2>1. MailInv(q) /\ i[q] \in Nat
    BY <1>0 DEF CollInv, CollTypeOK
  <2>2. (Told(q)' <=> Told(q)) /\ (arrived'[q] = TRUE <=> arrived[q] = TRUE)
    BY <1>1, <1>2 DEF Told
  <2>3. SameTree(q)
    BY <1>1, <1>2, <2>1, <2>2 DEF SameTree
  <2>4. QED
    BY <1>1, <1>2, <2>1, <2>2, <2>3 DEF MailInv
<1>3. \A q \in Workers : SameTree(q) /\ MailInv(q)'
  BY <1>2
<1>4. ASSUME calls # 0
      PROVE  \E b \in Workers : TreeInv(b)'
  <2>1. PICK b \in Workers : TreeInv(b)
    BY <1>4 DEF CollInv
  <2>2. TreeInv(b)'
    BY <1>1, <1>3, <2>1, TreeKept
  <2>3. QED
    BY <2>2
<1>5. QED
  BY <1>3, <1>4, InsideDone

\* An iteration in which r tells nobody.
LEMMA SendSkipsStep ==
  ASSUME SchedInv, CollInv, NEW r \in Workers, SendSkips(r)
  PROVE  CollInv'
<1>0. CollTypeOK /\ ProgressInv(r) /\ MailInv(r) /\ TypeOK
  BY DEF CollInv, SchedInv
<1>1. Inside(r, "send") /\ pc[r] = "send" /\ UNCHANGED <<begin, copy, arrived, entry, got, barriers, executed>>
  <2>1. Goto(r, "send")
    BY <1>0 DEF SendSkips, Goto, TypeOK
  <2>2. QED
    BY <2>1 DEF SendSkips, Inside, mailVars, CollPlaces, TaskPlaces
<1>2. prog' = prog /\ Workers' = Workers /\ pc'[r] = "send" /\ calls' = calls
  BY <1>1, InsideKept
<1>3. calls # 0 /\ HasTask(r)
  BY <1>0, <1>1 DEF ProgressInv, CollTypeOK, HasTask
<1>4. i[r] \in Nat /\ i[r] > 1 /\ IsPow2(i[r])
  BY <1>0, <1>3 DEF SendSkips, CollInv, TreeInv, CollTypeOK
<1>5. /\ i'[r] \in Nat /\ i'[r] <= i[r] /\ i'[r] # 0 /\ IsPow2(i'[r])
      /\ \A q \in Workers : q # r => i'[q] = i[q]
  <2>1. i'[r] = i[r] \div 2 /\ \A q \in Workers : q # r => i'[q] = i[q]
    BY <1>0 DEF SendSkips, CollTypeOK
  <2>2. i[r] \div 2 \in Nat \ {0} /\ i[r] = 2 * (i[r] \div 2) /\ IsPow2(i[r] \div 2)
    BY <1>4, Pow2Half
  <2>3. i[r] \div 2 <= i[r]
    BY <1>4
  <2>4. QED
    BY <2>1, <2>2, <2>3
<1>6. CollTypeOK'
  <2>1. i' \in [Workers -> Nat]
    BY <1>0, <1>5 DEF SendSkips, CollTypeOK
  <2>2. QED
    BY <1>0, <1>1, <1>2, <2>1 DEF CollTypeOK
<1>7. ProgressInv(r)'
  BY <1>0, <1>1, <1>2 DEF ProgressInv, TaskPlaces
<1>8. HasTask(r)' /\ ~Pops(r)' /\ ~Pops(r) /\ arrived'[r] = arrived[r]
  BY <1>1, <1>2 DEF HasTask, Pops
<1>9. SameTree(r) /\ MailInv(r)'
  BY <1>0, <1>1, <1>2, <1>3, <1>4, <1>5, <1>8 DEF SameTree, MailInv, Told
<1>10. QED
  BY <1>1, <1>5, <1>6, <1>7, <1>9, QuietDone

\* A step that changes neither mailboxes nor the loop.
LEMMA StillDone ==
  ASSUME SchedInv, CollInv, NEW r \in Workers, NEW l, Inside(r, l), CollTypeOK', ProgressInv(r)',
         UNCHANGED <<begin, i, arrived, entry, got>>, HasTask(r)' <=> HasTask(r),
         pc[r] \in TaskPlaces, l \in TaskPlaces, l # "sendArrived"
  PROVE  CollInv'
<1>0. CollTypeOK /\ MailInv(r) /\ i[r] \in Nat
  BY DEF CollInv, CollTypeOK
<1>1. pc'[r] = l
  BY InsideKept
<1>2. ~Pops(r)' /\ ~Pops(r)
  BY <1>1 DEF Pops, TaskPlaces
<1>3. (Told(r)' <=> Told(r)) /\ (arrived'[r] = TRUE <=> arrived[r] = TRUE)
  BY <1>2 DEF Told
<1>4. MailInv(r)'
  BY <1>0, <1>2, <1>3 DEF MailInv
<1>5. pc'[r] # "popRead" /\ pc'[r] # "fetch"
  BY <1>1 DEF TaskPlaces
<1>6. SameTree(r)
  BY <1>0, <1>1, <1>3, <1>5 DEF SameTree
<1>7. QED
  BY <1>4, <1>6, QuietDone

\* The two barriers, and the execution.
LEMMA BarrierStep ==
  ASSUME SchedInv, CollInv, NEW r \in Workers,
         BarrierEnter(r, "send", "barrier1") \/ BarrierEnter(r, "executed", "barrier2")
  PROVE  CollInv'
<1>0. CollTypeOK /\ ProgressInv(r) /\ TypeOK /\ calls \in Nat /\ barriers[r] \in Nat
  BY DEF CollInv, SchedInv, CollTypeOK
<1>1. PICK l \in {"barrier1", "barrier2"} :
        /\ pc[r] = (IF l = "barrier1" THEN "send" ELSE "executed") /\ Goto(r, l)
        /\ barriers' = [barriers EXCEPT ![r] = @ + 1]
        /\ UNCHANGED <<schedVars, next, calls, taskVars, mailVars, executed>>
  BY DEF BarrierEnter
<1>2. barriers'[r] = barriers[r] + 1 /\ \A q \in Workers : q # r => barriers'[q] = barriers[q]
  BY <1>0, <1>1 DEF CollTypeOK
<1>3. barriers[r] = IF l = "barrier1" THEN 2 * calls - 2 ELSE 2 * calls - 1
  BY <1>0, <1>1 DEF ProgressInv
<1>4. barriers[r] # 2 * calls
  BY <1>0, <1>3
<1>5. Inside(r, l)
  BY <1>1, <1>2, <1>4 DEF Inside, taskVars, CollPlaces, TaskPlaces
<1>6. pc'[r] = l /\ calls' = calls /\ Workers' = Workers /\ prog' = prog
  BY <1>5, InsideKept
<1>7. HasTask(r)' /\ HasTask(r)
  <2>1. barriers'[r] # 2 * calls - 2
    BY <1>0, <1>2, <1>3
  <2>2. l = "barrier2" => barriers[r] # 2 * calls - 2
    BY <1>0, <1>3
  <2>3. QED
    BY <2>1, <2>2, <1>1, <1>6 DEF HasTask
<1>8. CollTypeOK'
  <2>1. barriers' \in [Workers -> Nat]
    BY <1>0, <1>1 DEF CollTypeOK
  <2>2. QED
    BY <1>0, <1>1, <1>6, <2>1 DEF CollTypeOK, taskVars, mailVars
<1>9. ProgressInv(r)'
  <2>1. executed'[r] = executed[r] /\ copy'[r] = copy[r] /\ copy[r] = calls
    BY <1>0, <1>1 DEF ProgressInv, taskVars
  <2>2. barriers'[r] = (IF l = "barrier1" THEN 2 * calls - 1 ELSE 2 * calls) /\ barriers'[r] \in (2 * calls - 2)..(2 * calls)
    BY <1>0, <1>2, <1>3
  <2>3. executed[r] = IF l = "barrier1" THEN calls - 1 ELSE calls
    BY <1>0, <1>1 DEF ProgressInv
  <2>4. executed[r] = calls => \A q \in Workers : barriers'[q] >= 2 * calls - 1
    <3>1. ASSUME executed[r] = calls, NEW q \in Workers
          PROVE  barriers'[q] >= 2 * calls - 1
      <4>1. barriers[q] >= 2 * calls - 1 /\ barriers[q] \in Nat
        BY <3>1, <1>0 DEF ProgressInv, CollTypeOK
      <4>2. CASE q = r
        BY <4>1, <4>2, <1>0, <1>2
      <4>3. CASE q # r
        BY <4>1, <4>3, <1>2
      <4>4. QED
        BY <4>2, <4>3
    <3>2. QED
      BY <3>1
  <2>5. CASE l = "barrier1"
    BY <2>5, <1>0, <1>6, <2>1, <2>2, <2>3, <2>4 DEF ProgressInv, TaskPlaces
  <2>6. CASE l = "barrier2"
    BY <2>6, <1>0, <1>6, <2>1, <2>2, <2>3, <2>4 DEF ProgressInv, TaskPlaces
  <2>7. QED
    BY <2>5, <2>6
<1>10. pc[r] \in TaskPlaces /\ l \in TaskPlaces /\ l # "sendArrived" /\ UNCHANGED <<begin, i, arrived, entry, got>>
  BY <1>1 DEF TaskPlaces, taskVars, mailVars
<1>11. QED
  BY <1>5, <1>7, <1>8, <1>9, <1>10, StillDone

\* The task is executed when every rank is in the first barrier.
LEMMA ExecuteStep ==
  ASSUME SchedInv, CollInv, NEW r \in Workers, Execute(r)
  PROVE  CollInv'
<1>0. CollTypeOK /\ ProgressInv(r) /\ TypeOK /\ calls \in Nat /\ barriers[r] \in Nat
  BY DEF CollInv, SchedInv, CollTypeOK
<1>1. Inside(r, "executed") /\ pc[r] = "barrier1" /\ UNCHANGED <<begin, i, copy, arrived, entry, got, barriers>>
  <2>1. \A q \in Workers : q # r => executed'[q] = executed[q]
    BY <1>0 DEF Execute, CollTypeOK
  <2>2. QED
    BY <2>1 DEF Execute, Inside, taskVars, mailVars, CollPlaces, TaskPlaces
<1>2. pc'[r] = "executed" /\ calls' = calls /\ Workers' = Workers /\ prog' = prog
  BY <1>1, InsideKept
<1>3. barriers[r] = 2 * calls - 1 /\ copy[r] = calls /\ executed'[r] = calls
  BY <1>0, <1>1 DEF Execute, ProgressInv, CollTypeOK
<1>4. HasTask(r) /\ HasTask(r)'
  BY <1>0, <1>1, <1>2, <1>3 DEF HasTask
<1>5. CollTypeOK'
  <2>1. executed' \in [Workers -> Nat]
    BY <1>0, <1>3 DEF Execute, CollTypeOK
  <2>2. QED
    BY <1>0, <1>1, <1>2, <2>1 DEF CollTypeOK
<1>6. ProgressInv(r)'
  <2>1. \A q \in Workers : barriers[q] >= 2 * calls - 1
    BY <1>3 DEF Execute, Resolved
  <2>2. 2 * calls - 1 \in (2 * calls - 2)..(2 * calls)
    BY <1>0
  <2>3. QED
    BY <1>1, <1>2, <1>3, <2>1, <2>2 DEF ProgressInv, TaskPlaces
<1>7. QED
  BY <1>1, <1>4, <1>5, <1>6, StillDone DEF TaskPlaces

\* mailbox pop: the entry cannot be overwritten while it is read.
LEMMA PopStep ==
  ASSUME SchedInv, CollInv, NEW r \in Workers, PopClears(r) \/ PopReads(r)
  PROVE  CollInv'
<1>0. CollTypeOK /\ ProgressInv(r) /\ MailInv(r) /\ TypeOK /\ i[r] \in Nat
  BY DEF CollInv, SchedInv, CollTypeOK
<1>1. CASE PopClears(r)
  <2>1. Inside(r, "popRead") /\ pc[r] = "sched" /\ UNCHANGED <<begin, i, copy, entry, got, barriers, executed>>
    BY <1>1 DEF PopClears, Inside, taskVars, CollPlaces, TaskPlaces
  <2>2. pc'[r] = "popRead" /\ calls' = calls /\ Workers' = Workers /\ prog' = prog
    BY <2>1, InsideKept
  <2>3. arrived[r] = TRUE /\ arrived'[r] = FALSE /\ \A q \in Workers : q # r => arrived'[q] = arrived[q]
    BY <1>0, <1>1 DEF PopClears, CollTypeOK
  <2>4. CollTypeOK'
    <3>1. arrived' \in [Workers -> BOOLEAN]
      BY <1>0, <1>1 DEF PopClears, CollTypeOK
    <3>2. QED
      BY <1>0, <2>1, <2>2, <3>1 DEF CollTypeOK
  <2>5. ProgressInv(r)'
    BY <1>0, <2>1, <2>2 DEF ProgressInv, TaskPlaces
  <2>6. (HasTask(r)' <=> HasTask(r)) /\ ~HasTask(r)
    BY <1>0, <2>1, <2>2, <2>3 DEF HasTask, MailInv
  <2>7. MailInv(r)'
    BY <2>3, <2>6 DEF MailInv
  <2>8. Told(r)
    BY <2>3 DEF Told
  <2>9. SameTree(r)
    BY <1>0, <2>1, <2>2, <2>3, <2>6, <2>8 DEF SameTree
  <2>10. QED
    BY <2>1, <2>3, <2>4, <2>5, <2>7, <2>9, QuietDone
<1>2. CASE PopReads(r)
  <2>1. Inside(r, "fetch") /\ pc[r] = "popRead" /\ UNCHANGED <<begin, i, copy, arrived, entry, barriers, executed>>
    BY <1>2 DEF PopReads, Inside, taskVars, CollPlaces, TaskPlaces
  <2>2. pc'[r] = "fetch" /\ calls' = calls /\ Workers' = Workers /\ prog' = prog
    BY <2>1, InsideKept
  <2>3. got'[r] = entry[r] /\ \A q \in Workers : q # r => got'[q] = got[q]
    BY <1>0, <1>2 DEF PopReads, CollTypeOK
  <2>4. CollTypeOK'
    <3>1. got' \in [Workers -> [from : Workers, begin : Workers]]
      BY <1>0, <1>2 DEF PopReads, CollTypeOK
    <3>2. QED
      BY <1>0, <2>1, <2>2, <3>1 DEF CollTypeOK
  <2>5. ProgressInv(r)'
    BY <1>0, <2>1, <2>2 DEF ProgressInv, TaskPlaces
  <2>6. (HasTask(r)' <=> HasTask(r)) /\ Pops(r) /\ Pops(r)' /\ (arrived'[r] = TRUE <=> arrived[r] = TRUE)
    BY <2>1, <2>2 DEF HasTask, Pops
  <2>7. MailInv(r)'
    BY <1>0, <2>6 DEF MailInv
  <2>8. Told(r)
    BY <2>6 DEF Told
  <2>9. SameTree(r)
    BY <1>0, <2>1, <2>2, <2>3, <2>6, <2>8 DEF SameTree
  <2>10. QED
    BY <2>1, <2>3, <2>4, <2>5, <2>7, <2>9, QuietDone
<1>3. QED
  BY <1>1, <1>2

\* The task is copied while its sender has it.
LEMMA FetchStep ==
  ASSUME SchedInv, CollInv, NEW r \in Workers, Fetch(r)
  PROVE  CollInv'
<1>0. CollTypeOK /\ ProgressInv(r) /\ MailInv(r) /\ TypeOK /\ prog \in Programs /\ calls \in Nat /\ executed[r] \in Nat
  BY DEF CollInv, SchedInv, TypeOK, CollTypeOK
<1>1. Inside(r, "send") /\ pc[r] = "fetch" /\ UNCHANGED <<arrived, entry, got, barriers, executed>>
  <2>1. \A q \in Workers : q # r => copy'[q] = copy[q]
    BY <1>0 DEF Fetch, CollTypeOK
  <2>2. QED
    BY <2>1 DEF Fetch, Inside, mailVars, CollPlaces, TaskPlaces
<1>2. /\ prog' = prog /\ Workers' = Workers /\ pc'[r] = "send" /\ calls' = calls
      /\ \A q \in Workers : q # r => /\ pc'[q] = pc[q]
                                     /\ HasTask(q)' <=> HasTask(q)
                                     /\ Pops(q)' <=> Pops(q)
  BY <1>1, InsideKept
<1>3. Pops(r) /\ ~HasTask(r) /\ Told(r) /\ ~(arrived[r] = TRUE) /\ HasTask(r)' /\ ~Pops(r)'
  BY <1>0, <1>1, <1>2 DEF Pops, MailInv, Told, HasTask
<1>4. calls # 0 /\ barriers[r] = 2 * calls - 2
  BY <1>0, <1>3 DEF HasTask, CollTypeOK
<1>5. PICK b \in Workers : TreeInv(b)
  BY <1>4 DEF CollInv
<1>6. PICK s \in Workers : got[r] = [from |-> s, begin |-> b] /\ HasTask(s)
  BY <1>1, <1>5 DEF TreeInv
<1>7. copy[s] = calls
  BY <1>3, <1>6, HasCopy
<1>8. PICK m \in Nat \ {0} : m = NextPow2(n) /\ IsPow2(m)
  BY <1>0, Ranks, NextPow2Is
<1>9. /\ copy' = [copy EXCEPT ![r] = calls] /\ begin' = [begin EXCEPT ![r] = b] /\ i' = [i EXCEPT ![r] = m]
  <2>1. got[r].from = s /\ got[r].begin = b
    BY <1>6
  <2>2. copy' = [copy EXCEPT ![r] = calls]
    BY <2>1, <1>7 DEF Fetch
  <2>3. begin' = [begin EXCEPT ![r] = b]
    BY <2>1 DEF Fetch
  <2>4. i' = [i EXCEPT ![r] = m]
    BY <1>8 DEF Fetch
  <2>5. QED
    BY <2>2, <2>3, <2>4
<1>10. /\ copy'[r] = calls /\ begin'[r] = b /\ i'[r] = m
       /\ \A q \in Workers : q # r => begin'[q] = begin[q] /\ i'[q] = i[q]
  BY <1>0, <1>9 DEF CollTypeOK
<1>11. CollTypeOK'
  BY <1>0, <1>1, <1>2, <1>9 DEF CollTypeOK
<1>12. ProgressInv(r)'
  <2>1. executed[r] = calls - 1 /\ executed[r] # calls /\ 2 * calls - 2 \in (2 * calls - 2)..(2 * calls)
    BY <1>0, <1>1, <1>4 DEF ProgressInv, TaskPlaces
  <2>2. QED
    BY <2>1, <1>1, <1>2, <1>4, <1>10 DEF ProgressInv, TaskPlaces
<1>13. ASSUME NEW q \in Workers
       PROVE  MailInv(q)'
  <2>1. MailInv(q)
    BY DEF CollInv
  <2>2. CASE q = r
    BY <2>2, <1>1, <1>3 DEF MailInv
  <2>3. CASE q # r
    BY <2>1, <2>3, <1>1, <1>2 DEF MailInv
  <2>4. QED
    BY <2>2, <2>3
<1>14. TreeInv(b)'
  <2>0. \A q \in Workers : (HasTask(q) => HasTask(q)' /\ i'[q] = i[q] /\ begin'[q] = begin[q]) /\ (Told(q)' => Told(q))
    BY <1>1, <1>2, <1>3, <1>10 DEF Told
  <2>1. HasTask(b)'
    BY <1>5, <2>0 DEF TreeInv
  <2>2. ASSUME NEW q \in Workers, HasTask(q)'
        PROVE  begin'[q] = b /\ i'[q] # 0 /\ IsPow2(i'[q])
    <3>1. CASE q = r
      BY <3>1, <1>8, <1>10
    <3>2. CASE q # r
      BY <3>2, <2>2, <1>2, <1>5, <1>10 DEF TreeInv
    <3>3. QED
      BY <3>1, <3>2
  <2>3. \A q \in Workers : Told(q)' /\ q # b =>
          \E x \in Workers : \E j \in Nat :
            HasTask(x)' /\ j > i'[x] /\ IsPow2(j) /\ SendsIn(b, x, j) /\ SendsTo(b, x, j) = q
    BY <1>5, <2>0 DEF TreeInv
  <2>4. ASSUME NEW q \in Workers, arrived'[q] = TRUE \/ pc'[q] = "popRead"
        PROVE  \E x \in Workers : entry'[q] = [from |-> x, begin |-> b] /\ HasTask(x)'
    <3>1. arrived[q] = TRUE \/ pc[q] = "popRead"
      BY <1>1, <1>2, <2>4
    <3>2. PICK x \in Workers : entry[q] = [from |-> x, begin |-> b] /\ HasTask(x)
      BY <3>1, <1>5 DEF TreeInv
    <3>3. QED
      BY <3>2, <1>1, <2>0
  <2>5. ASSUME NEW q \in Workers, pc'[q] = "fetch"
        PROVE  \E x \in Workers : got'[q] = [from |-> x, begin |-> b] /\ HasTask(x)'
    <3>1. pc[q] = "fetch"
      BY <1>2, <2>5
    <3>2. PICK x \in Workers : got[q] = [from |-> x, begin |-> b] /\ HasTask(x)
      BY <3>1, <1>5 DEF TreeInv
    <3>3. QED
      BY <3>2, <1>1, <2>0
  <2>6. ASSUME NEW q \in Workers, pc'[q] = "sendArrived"
        PROVE  SendsIn(b, q, i'[q]) /\ entry'[SendsTo(b, q, i'[q])] = [from |-> q, begin |-> b]
    <3>1. q # r /\ pc[q] = "sendArrived"
      BY <1>2, <2>6
    <3>2. QED
      BY <3>1, <1>1, <1>5, <1>10 DEF TreeInv
  <2>7. QED
    BY <1>2, <2>1, <2>2, <2>3, <2>4, <2>5, <2>6, TreeIs
<1>15. QED
  BY <1>1, <1>11, <1>12, <1>13, <1>14, InsideDone

\* The copy is freed when every rank has executed the task.
LEMMA DeallocateStep ==
  ASSUME SchedInv, CollInv, NEW r \in Workers, Deallocate(r)
  PROVE  CollInv'
<1>0. CollTypeOK /\ ProgressInv(r) /\ MailInv(r) /\ CallerInv(r) /\ CallInv /\ TypeOK /\ PlaceInv /\ Root \in Threads
  BY ProgFacts DEF CollInv, SchedInv, TypeOK
<1>1. /\ pc[r] = "barrier2" /\ UNCHANGED <<prog, cur, entered, calls, begin, i, arrived, entry, got, barriers, executed>>
      /\ copy' = [copy EXCEPT ![r] = 0]
  BY DEF Deallocate, schedVars, mailVars
<1>2. Workers' = Workers /\ Prog' = Prog /\ Rank0' = Rank0
  BY <1>1, SameProg DEF Rank0
<1>3. pc'[r] \in {"sched", "run"} /\ \A q \in Workers : q # r => pc'[q] = pc[q]
  BY <1>0 DEF Deallocate, Goto, TypeOK
<1>4. copy'[r] = 0 /\ \A q \in Workers : q # r => copy'[q] = copy[q]
  BY <1>0, <1>1 DEF CollTypeOK
<1>5. \A q \in Workers : /\ HasTask(q)' <=> HasTask(q)
                         /\ Pops(q)' <=> Pops(q)
                         /\ Told(q)' <=> Told(q)
  BY <1>1, <1>3 DEF HasTask, Pops, Told
<1>6. CollTypeOK'
  BY <1>0, <1>1, <1>2 DEF CollTypeOK
<1>7. ASSUME NEW q \in Workers
      PROVE  ProgressInv(q)' /\ MailInv(q)' /\ ExitedInv(q)'
  <2>1. ProgressInv(q) /\ MailInv(q) /\ ExitedInv(q)
    BY DEF CollInv
  <2>2. MailInv(q)'
    BY <1>1, <1>5, <2>1 DEF MailInv
  <2>3. ExitedInv(q)'
    BY <1>1, <1>2, <1>3, <2>1 DEF ExitedInv
  <2>4. CASE q = r
    <3>1. ProgressInv(q)'
      BY <2>1, <2>4, <1>1, <1>2, <1>3, <1>4 DEF ProgressInv, TaskPlaces
    <3>2. QED
      BY <3>1, <2>2, <2>3
  <2>5. CASE q # r
    <3>1. ProgressInv(q)'
      BY <2>1, <2>5, <1>1, <1>2, <1>3, <1>4 DEF ProgressInv
    <3>2. QED
      BY <3>1, <2>2, <2>3
  <2>6. QED
    BY <2>4, <2>5
<1>8. ASSUME NEW q \in Workers
      PROVE  CallerInv(q)'
  <2>1. CASE q = r
    BY <2>1, <1>3 DEF CallerInv, CollPlaces
  <2>2. ASSUME q # r, cur[q] # Nobody, pc[q] \in CollPlaces
        PROVE  CallerInv(q)'
    <3>1. CallerInv(q)
      BY DEF CollInv
    <3>2. cur[q] = Root
      BY <2>2, <3>1 DEF CallerInv
    <3>3. cur[r] # Root
      BY <1>0, <2>2, <3>2 DEF PlaceInv
    <3>4. next'[Root] = next[Root]
      BY <1>0, <3>3 DEF Deallocate, TypeOK
    <3>5. QED
      BY <2>2, <3>1, <3>4, <1>1, <1>2, <1>3, <1>4 DEF CallerInv
  <2>3. CASE q # r /\ ~(cur[q] # Nobody /\ pc[q] \in CollPlaces)
    BY <2>3, <1>1, <1>3 DEF CallerInv
  <2>4. QED
    BY <2>1, <2>2, <2>3
<1>9. CallInv'
  <2>1. CASE cur[r] = Root
    <3>1. barriers[r] = 2 * calls
      <4>1. Root # Nobody
        BY <1>0, ProgFacts DEF TypeOK
      <4>2. QED
        BY <2>1, <4>1, <1>0, <1>1 DEF CallerInv, ProgressInv, CollPlaces
    <3>2. ASSUME NEW q \in Workers
          PROVE  barriers[q] = 2 * calls
      <4>1. barriers[q] >= 2 * calls
        BY <3>1 DEF Deallocate, Resolved
      <4>2. barriers[q] \in (2 * calls - 2)..(2 * calls) /\ calls \in Nat
        BY <1>0 DEF CollInv, ProgressInv, CollTypeOK
      <4>3. QED
        BY <4>1, <4>2
    <3>3. QED
      BY <3>2, <1>1, <1>2 DEF CallInv
  <2>2. CASE cur[r] # Root
    <3>1. ASSUME NEW w \in Workers, cur[w] = Root, pc[w] \in TaskPlaces
          PROVE  cur'[w] = Root /\ pc'[w] \in TaskPlaces
      BY <2>2, <3>1, <1>1, <1>3
    <3>2. QED
      BY <3>1, <1>0, <1>1, <1>2 DEF CallInv
  <2>3. QED
    BY <2>1, <2>2
<1>10. ASSUME calls # 0
       PROVE  \E b \in Workers : TreeInv(b)'
  <2>1. PICK b \in Workers : TreeInv(b)
    BY <1>10 DEF CollInv
  <2>2. ASSUME NEW q \in Workers
        PROVE  SameTree(q)
    <3>1. i[q] \in Nat /\ i'[q] = i[q] /\ begin'[q] = begin[q] /\ got'[q] = got[q]
      BY <1>0, <1>1 DEF CollTypeOK
    <3>2. arrived'[q] = TRUE <=> arrived[q] = TRUE
      BY <1>1
    <3>3. pc'[q] = pc[q] \/ pc'[q] \in {"sched", "run"}
      BY <1>3
    <3>4. QED
      BY <3>1, <3>2, <3>3, <1>5 DEF SameTree
  <2>3. TreeInv(b)'
    BY <1>1, <2>1, <2>2, TreeKept
  <2>4. QED
    BY <2>3
<1>11. QED
  BY <1>1, <1>2, <1>6, <1>7, <1>8, <1>9, <1>10 DEF CollInv

\* coll_exec: the calls before have ended everywhere.
LEMMA CallStep ==
  ASSUME SchedInv, CollInv, NEW r \in Workers, CollExecCall(r)
  PROVE  CollInv'
<1>0. CollTypeOK /\ CallInv /\ TypeOK /\ PlaceInv /\ ControlInv(r) /\ prog \in Programs /\ Root \in Threads /\ Nobody \notin Threads /\ calls \in Nat
  BY ProgFacts DEF CollInv, SchedInv, TypeOK, CollTypeOK
<1>1. /\ pc[r] = "run" /\ UNCHANGED <<prog, cur, next, entered, arrived, entry, got, barriers, executed>>
      /\ calls' = calls + 1 /\ copy' = [copy EXCEPT ![r] = calls + 1] /\ begin' = [begin EXCEPT ![r] = r]
  BY DEF CollExecCall, Does, schedVars, mailVars
<1>2. Workers' = Workers /\ Prog' = Prog /\ Rank0' = Rank0
  BY <1>1, SameProg DEF Rank0
<1>3. cur[r] = Root /\ next[Root] \in DOMAIN Prog[Root] /\ Prog[Root][next[Root]].do = "coll"
  <2>1. PICK u \in Threads : u = cur[r]
    BY <1>0, <1>1 DEF ControlInv, TypeOK
  <2>2. next[u] \in DOMAIN Prog[u] /\ Prog[u][next[u]].do = "coll"
    BY <1>0, <2>1, ProgFacts DEF CollExecCall, Does, TypeOK
  <2>3. u = Root
    BY <1>0, <2>2, CollAssumption DEF Prog
  <2>4. QED
    BY <2>1, <2>2, <2>3
<1>4. ASSUME NEW q \in Workers
      PROVE  /\ barriers[q] = 2 * calls /\ barriers[q] # 2 * calls - 2
             /\ pc[q] \notin {"send", "sendArrived", "barrier1", "executed"}
             /\ ~Pops(q) /\ ~(arrived[q] = TRUE)
  <2>1. ~\E w \in Workers : cur[w] = Root /\ pc[w] \in TaskPlaces
    <3>1. \A w \in Workers : cur[w] = Root => w = r
      BY <1>0, <1>3 DEF PlaceInv
    <3>2. QED
      BY <3>1, <1>1 DEF TaskPlaces
  <2>2. barriers[q] = 2 * calls
    BY <1>0, <2>1 DEF CallInv
  <2>3. barriers[q] # 2 * calls - 2 /\ barriers[q] # 2 * calls - 1
    BY <1>0, <2>2
  <2>4. HasTask(q)
    BY <2>3 DEF HasTask
  <2>5. ProgressInv(q) /\ MailInv(q)
    BY DEF CollInv
  <2>6. QED
    BY <2>2, <2>3, <2>4, <2>5 DEF ProgressInv, MailInv
<1>5. pc'[r] = "send" /\ \A q \in Workers : q # r => pc'[q] = pc[q]
  BY <1>0 DEF CollExecCall, Goto, TypeOK
<1>6. PICK m \in Nat \ {0} : m = NextPow2(n) /\ IsPow2(m)
  BY <1>0, Ranks, NextPow2Is
<1>7. i' = [i EXCEPT ![r] = m]
  BY <1>6 DEF CollExecCall
<1>8. copy'[r] = calls' /\ begin'[r] = r /\ i'[r] = m /\ \A q \in Workers : q # r => copy'[q] = copy[q]
  BY <1>0, <1>1, <1>7 DEF CollTypeOK
<1>9. CollTypeOK'
  BY <1>0, <1>1, <1>2, <1>7 DEF CollTypeOK
<1>10. 2 * calls' - 2 = 2 * calls /\ calls' - 1 = calls /\ calls' # calls /\ 2 * calls \in (2 * calls' - 2)..(2 * calls') /\ calls' \in Nat
  BY <1>0, <1>1
<1>11. ASSUME NEW q \in Workers
       PROVE  /\ HasTask(q)' <=> q = r
              /\ Told(q)' <=> q = r
              /\ ~Pops(q)' /\ ~(arrived'[q] = TRUE)
  <2>1. ~Pops(q)' /\ ~(arrived'[q] = TRUE)
    BY <1>1, <1>4, <1>5 DEF Pops
  <2>2. HasTask(q)' <=> q = r
    BY <1>1, <1>4, <1>5, <1>10 DEF HasTask
  <2>3. QED
    BY <2>1, <2>2 DEF Told
<1>12. ASSUME NEW q \in Workers
       PROVE  ProgressInv(q)' /\ MailInv(q)' /\ ExitedInv(q)' /\ CallerInv(q)'
  <2>1. ProgressInv(q) /\ ExitedInv(q) /\ CallerInv(q) /\ barriers[q] = 2 * calls /\ executed[q] \in Nat
    BY <1>0, <1>4 DEF CollInv, CollTypeOK
  <2>2. MailInv(q)'
    BY <1>11 DEF MailInv
  <2>3. ExitedInv(q)'
    BY <1>1, <1>2, <1>5, <2>1 DEF ExitedInv
  <2>4. executed[q] = calls
    <3>1. CASE pc[q] = "barrier2"
      <4>1. copy[q] \in Nat /\ 2 * copy[q] = 2 * calls /\ executed[q] = copy[q]
        BY <3>1, <1>0, <2>1 DEF ProgressInv, CollTypeOK
      <4>2. QED
        BY <4>1, <1>0
    <3>2. CASE pc[q] # "barrier2"
      <4>1. pc[q] \notin TaskPlaces
        BY <3>2, <1>4 DEF TaskPlaces
      <4>2. 2 * executed[q] = 2 * calls
        BY <4>1, <2>1 DEF ProgressInv
      <4>3. QED
        BY <4>2, <1>0, <2>1
    <3>3. QED
      BY <3>1, <3>2
  <2>5. CASE q = r
    <3>1. ProgressInv(q)'
      BY <2>1, <2>4, <2>5, <1>1, <1>2, <1>5, <1>8, <1>10 DEF ProgressInv, TaskPlaces
    <3>2. CallerInv(q)'
      BY <2>5, <1>1, <1>2, <1>3, <1>5, <1>8 DEF CallerInv, TaskPlaces
    <3>3. QED
      BY <3>1, <3>2, <2>2, <2>3
  <2>6. CASE q # r
    <3>1. ProgressInv(q)'
      BY <2>1, <2>4, <2>6, <1>1, <1>2, <1>4, <1>5, <1>8, <1>10 DEF ProgressInv, TaskPlaces
    <3>2. cur[q] # Root
      BY <2>6, <1>0, <1>3 DEF PlaceInv
    <3>3. CallerInv(q)'
      BY <2>1, <2>6, <3>2, <1>1, <1>5 DEF CallerInv
    <3>4. QED
      BY <3>1, <3>3, <2>2, <2>3
  <2>7. QED
    BY <2>5, <2>6
<1>13. CallInv'
  BY <1>1, <1>2, <1>3, <1>5 DEF CallInv, TaskPlaces
<1>14. TreeInv(r)'
  <2>1. ASSUME NEW q \in Workers
        PROVE  pc'[q] # "popRead" /\ pc'[q] # "fetch" /\ pc'[q] # "sendArrived" /\ ~(arrived'[q] = TRUE)
    BY <1>4, <1>5, <1>11 DEF Pops
  <2>2. \A s \in Workers : HasTask(s)' => begin'[s] = r /\ i'[s] # 0 /\ IsPow2(i'[s])
    BY <1>6, <1>8, <1>11
  <2>3. HasTask(r)' /\ \A q \in Workers : q # r => ~Told(q)'
    BY <1>11
  <2>4. QED
    BY <1>1, <2>1, <2>2, <2>3, TreeIs
<1>15. QED
  BY <1>2, <1>9, <1>12, <1>13, <1>14 DEF CollInv

-----------------------------------------------------------------------------
(* The invariant, and what it says.                                         *)

\* The invariant holds when root_exec begins.
LEMMA CollStart ==
  ASSUME CollInit
  PROVE  SchedInv /\ ExitInv /\ CollInv
<1>1. SchedInv /\ ExitInv
  BY SchedInit DEF CollInit
<1>2. Rank0 \in Workers /\ Root # Nobody
  BY <1>1, ProgFacts DEF SchedInv, TypeOK
<1>3. /\ calls = 0 /\ \A r \in Workers : /\ barriers[r] = 0 /\ executed[r] = 0 /\ copy[r] = 0 /\ arrived[r] = FALSE
                                         /\ pc[r] \in {"run", "sched"}
  BY DEF CollInit, Init
<1>4. CollTypeOK
  <2>1. NoEntry \in [from : Workers, begin : Workers]
    BY <1>2 DEF NoEntry, Rank0
  <2>2. QED
    BY <1>2, <2>1 DEF CollInit, CollTypeOK, Rank0
<1>5. \A r \in Workers : barriers[r] = 2 * calls
  BY <1>3
<1>6. CallInv
  BY <1>5 DEF CallInv
<1>7. ASSUME NEW r \in Workers
      PROVE  ProgressInv(r) /\ CallerInv(r) /\ ExitedInv(r) /\ MailInv(r)
  <2>1. ProgressInv(r)
    BY <1>3 DEF ProgressInv, TaskPlaces
  <2>2. CallerInv(r) /\ ExitedInv(r) /\ MailInv(r)
    BY <1>3 DEF CallerInv, ExitedInv, MailInv, CollPlaces, Pops
  <2>3. QED
    BY <2>1, <2>2
<1>8. QED
  BY <1>1, <1>3, <1>4, <1>6, <1>7 DEF CollInv

\* Every step keeps it.
LEMMA CollNextStep ==
  ASSUME SchedInv, ExitInv, CollInv, [CollNext]_allVars
  PROVE  SchedInv' /\ ExitInv' /\ CollInv'
<1>1. ASSUME UNCHANGED allVars
      PROVE  SchedInv' /\ ExitInv' /\ CollInv'
  <2>1. UNCHANGED vars /\ UNCHANGED collVars
    BY <1>1 DEF allVars
  <2>2. SchedInv' /\ ExitInv'
    BY <2>1, SchedStep
  <2>3. CollInv'
    BY <2>1, CollStutter
  <2>4. QED
    BY <2>2, <2>3
<1>2. ASSUME Next, UNCHANGED collVars
      PROVE  SchedInv' /\ ExitInv' /\ CollInv'
  <2>1. SchedInv' /\ ExitInv'
    BY <1>2, SchedStep
  <2>2. CASE UNCHANGED vars
    BY <2>1, <2>2, <1>2, CollStutter
  <2>3. CASE \E w \in Workers : SchedMove(w)
    BY <2>1, <2>3, <1>2, SchedKeepsColl
  <2>4. QED
    BY <2>2, <2>3, <1>2, SchedMoves
<1>3. ASSUME NEW r \in Workers, CollStep(r)
      PROVE  SchedInv' /\ ExitInv' /\ CollInv'
  <2>1. SchedInv' /\ ExitInv'
    BY <1>3, CollMoves, CollKeepsSched
  <2>2. CollInv'
    <3>1. CASE CollExecCall(r)
      BY <3>1, CallStep
    <3>2. CASE SendEntry(r)
      BY <3>2, SendEntryStep
    <3>3. CASE SendArrived(r)
      BY <3>3, SendArrivedStep
    <3>4. CASE SendSkips(r)
      BY <3>4, SendSkipsStep
    <3>5. CASE BarrierEnter(r, "send", "barrier1") \/ BarrierEnter(r, "executed", "barrier2")
      BY <3>5, BarrierStep
    <3>6. CASE Execute(r)
      BY <3>6, ExecuteStep
    <3>7. CASE Deallocate(r)
      BY <3>7, DeallocateStep
    <3>8. CASE PopClears(r) \/ PopReads(r)
      BY <3>8, PopStep
    <3>9. CASE Fetch(r)
      BY <3>9, FetchStep
    <3>10. QED
      BY <1>3, <3>1, <3>2, <3>3, <3>4, <3>5, <3>6, <3>7, <3>8, <3>9 DEF CollStep
  <2>3. QED
    BY <2>1, <2>2
<1>4. QED
  BY <1>1, <1>2, <1>3 DEF CollNext

\* The scheduler and the collective tasks in it keep their invariants, for any number of
\* ranks, whatever is stolen and wherever the root thread is.
THEOREM CollInvariant == CollSpec => [](SchedInv /\ ExitInv /\ CollInv)
<1>1. CollInit => SchedInv /\ ExitInv /\ CollInv
  BY CollStart
<1>2. SchedInv /\ ExitInv /\ CollInv /\ [CollNext]_allVars => (SchedInv /\ ExitInv /\ CollInv)'
  BY CollNextStep
<1>3. QED
  BY <1>1, <1>2, PTL DEF CollSpec

-----------------------------------------------------------------------------
(* What the invariant says of collective tasks.                             *)

\* While collective tasks are executed, a continuation is still in one place (OnePlace).
THEOREM CollOnePlace == CollSpec => []OnePlace
<1>1. SchedInv => OnePlace
  BY InOnePlace
<1>2. QED
  BY <1>1, CollInvariant, PTL

\* Nor does a collective task touch a frame or a state that is used later
\* (FramesAndStatesLive).
THEOREM CollFramesLive == CollSpec => []FramesAndStatesLive
<1>1. SchedInv => FramesAndStatesLive
  BY LiveWhenUsed
<1>2. QED
  BY <1>1, CollInvariant, PTL

\* The sender has the task of the current call when it is copied.
LEMMA FetchedIsCurrent ==
  ASSUME CollInv, NEW r \in Workers, pc[r] = "fetch"
  PROVE  copy[got[r].from] = calls
<1>1. ~HasTask(r)
  BY DEF CollInv, MailInv, Pops
<1>2. calls # 0
  <2>1. barriers[r] = 2 * calls - 2 /\ barriers[r] \in Nat /\ calls \in Nat
    BY <1>1 DEF HasTask, CollInv, CollTypeOK
  <2>2. QED
    BY <2>1
<1>3. PICK b \in Workers : TreeInv(b)
  BY <1>2 DEF CollInv
<1>4. PICK s \in Workers : got[r] = [from |-> s, begin |-> b] /\ HasTask(s)
  BY <1>3 DEF TreeInv
<1>5. copy[s] = calls
  BY <1>1, <1>4, HasCopy
<1>6. got[r].from = s
  BY <1>4
<1>7. QED
  BY <1>5, <1>6

\* The mailbox that put writes to is empty.
LEMMA MailboxEmpty ==
  ASSUME SchedInv, CollInv, NEW r \in Workers, (pc[r] = "send" /\ i[r] > 1 /\ Sends(r)) \/ pc[r] = "sendArrived"
  PROVE  ~arrived[Target(r)]
<1>1. HasTask(r)
  BY DEF HasTask
<1>2. calls # 0
  <2>1. barriers[r] = 2 * calls - 2 /\ barriers[r] \in Nat /\ calls \in Nat
    BY DEF CollInv, ProgressInv, CollTypeOK
  <2>2. QED
    BY <2>1
<1>3. PICK b \in Workers : TreeInv(b)
  BY <1>2 DEF CollInv
<1>4. begin[r] = b
  BY <1>1, <1>3 DEF TreeInv
<1>5. (i[r] > 1 /\ Sends(r) <=> SendsIn(b, r, i[r])) /\ Target(r) = SendsTo(b, r, i[r])
  BY <1>4, SendsInTree
<1>6. SendsIn(b, r, i[r])
  <2>1. CASE pc[r] = "sendArrived"
    BY <2>1, <1>3 DEF TreeInv
  <2>2. QED
    BY <2>1, <1>5
<1>7. Target(r) \in Workers /\ ~Told(Target(r))
  BY <1>1, <1>3, <1>5, <1>6, NotTold
<1>8. PICK t \in Workers : t = Target(r) /\ ~Told(t)
  BY <1>7
<1>9. arrived[t] \in BOOLEAN /\ arrived[t] # TRUE
  BY <1>8 DEF Told, CollInv, CollTypeOK
<1>10. QED
  BY <1>8, <1>9

\* The root thread is over when a rank leaves the scheduler loop, and so is every call.
LEMMA ExitedHasExecuted ==
  ASSUME SchedInv, ExitInv, CollInv, NEW r \in Workers, pc[r] = "exited"
  PROVE  executed[r] = calls
<1>0. ProgressInv(r) /\ CallInv /\ RaceInv(Root) /\ Root \in Threads
  BY ProgFacts DEF CollInv, SchedInv, TypeOK
<1>1. entered[Rank0] = TRUE
  BY DEF CollInv, ExitedInv
<1>2. flag[Root] # 0
  BY <1>1 DEF ExitInv
<1>3. ~OnWorker(Root)
  BY <1>0, <1>2 DEF RaceInv, Late
<1>4. ~ \E w \in Workers : cur[w] = Root /\ pc[w] \in TaskPlaces
  BY <1>3 DEF OnWorker
<1>5. barriers[r] = 2 * calls
  BY <1>0, <1>4 DEF CallInv
<1>6. barriers[r] = 2 * executed[r]
  BY <1>0 DEF ProgressInv, TaskPlaces
<1>7. calls \in Nat /\ executed[r] \in Nat
  BY DEF CollInv, CollTypeOK
<1>8. QED
  BY <1>5, <1>6, <1>7

\* A rank copies the task of the current call while its sender has it, puts only into empty
\* mailboxes, and leaves the scheduler loop when it has executed every task
\* (FetchesTheTask).
THEOREM TasksAreFetched == CollSpec => []FetchesTheTask
<1>1. SchedInv /\ ExitInv /\ CollInv => FetchesTheTask
  BY FetchedIsCurrent, MailboxEmpty, ExitedHasExecuted DEF FetchesTheTask
<1>2. QED
  BY <1>1, CollInvariant, PTL

\* Past the second barrier, every rank has executed the task.
LEMMA AllExecuted ==
  ASSUME CollInv, NEW r \in Workers, Deallocate(r), NEW q \in Workers
  PROVE  executed[q] = copy[r]
<1>0. /\ ProgressInv(r) /\ ProgressInv(q) /\ calls \in Nat /\ copy[r] \in Nat /\ copy[q] \in Nat
      /\ executed[q] \in Nat /\ barriers[q] \in Nat /\ barriers[r] \in Nat /\ pc[r] = "barrier2"
  BY DEF CollInv, CollTypeOK, Deallocate
<1>1. barriers[r] = 2 * copy[r] /\ barriers[r] \in (2 * calls - 2)..(2 * calls)
  BY <1>0 DEF ProgressInv
<1>2. barriers[q] >= barriers[r] /\ barriers[q] \in (2 * calls - 2)..(2 * calls)
  BY <1>0 DEF Deallocate, Resolved, ProgressInv
<1>3. executed[q] = calls => barriers[r] >= 2 * calls - 1
  BY <1>0 DEF ProgressInv
<1>4. CASE copy[r] = calls
  <2>1. barriers[q] = 2 * calls
    BY <1>0, <1>1, <1>2, <1>4
  <2>2. barriers[q] = 2 * executed[q]
    BY <1>0, <2>1 DEF ProgressInv, TaskPlaces
  <2>3. QED
    BY <1>0, <1>4, <2>1, <2>2
<1>5. CASE copy[r] = calls - 1
  <2>1. executed[q] # calls
    BY <1>0, <1>1, <1>3, <1>5
  <2>2. executed[q] = calls - 1 \/ barriers[q] = 2 * executed[q]
    BY <1>0, <2>1 DEF ProgressInv, TaskPlaces
  <2>3. QED
    BY <1>0, <1>2, <1>5, <2>1, <2>2
<1>6. QED
  BY <1>0, <1>1, <1>4, <1>5

\* Only Deallocate leaves the second barrier.
LEMMA LeavesBarrier ==
  ASSUME SchedInv, CollInv, CollNext, NEW r \in Workers, pc[r] = "barrier2", pc'[r] # "barrier2"
  PROVE  Deallocate(r)
<1>0. pc \in [Workers -> Places \cup CollPlaces]
  BY DEF SchedInv, TypeOK
<1>1. ~(Next /\ UNCHANGED collVars)
  <2>1. SUFFICES ASSUME Next
                 PROVE  FALSE
    OBVIOUS
  <2>2. ~UNCHANGED vars
    BY DEF vars
  <2>3. PICK w \in Workers : SchedMove(w)
    BY <2>1, <2>2, SchedMoves
  <2>4. QED
    BY <2>3 DEF SchedMove, CollPlaces
<1>2. PICK q \in Workers : CollStep(q)
  BY <1>1 DEF CollNext
<1>3. q = r
  <2>1. CollMove(q)
    BY <1>2, CollMoves
  <2>2. QED
    BY <1>0, <2>1 DEF CollMove, Goto
<1>4. QED
  BY <1>2, <1>3 DEF CollStep, CollExecCall, Does, SendEntry, SendArrived, SendSkips, BarrierEnter, Execute,
     PopClears, PopReads, Fetch

\* A rank is past the second barrier only when every rank has executed the task of its call
\* (ReturnsWhenAllExecuted).
THEOREM ReturnsAfterAll == CollSpec => ReturnsWhenAllExecuted
<1>1. SchedInv /\ CollInv /\ [CollNext]_allVars =>
        [\A r \in Workers : pc[r] = "barrier2" /\ pc'[r] # "barrier2" =>
           \A q \in Workers : executed[q] = copy[r]]_allVars
  BY LeavesBarrier, AllExecuted
<1>2. QED
  BY <1>1, CollInvariant, PTL DEF CollSpec, ReturnsWhenAllExecuted
=============================================================================
