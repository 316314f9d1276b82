------------------------------ MODULE CollExec ------------------------------
(***************************************************************************)
(* coll_exec of scheduler_randws (include/ityr/ito/sched/randws.hpp): the  *)
(* root thread has a task executed by every rank.  The task is passed on   *)
(* along a binomial tree through one-slot mailboxes (sched/util.hpp); each *)
(* rank copies it from the rank that passed it, and frees its copy after   *)
(* the last of the two barriers around the execution.                      *)
(*                                                                         *)
(* The barriers are blocking ones; the ibarrier that a rank may have       *)
(* outstanding to leave the scheduler loop does not match them.            *)
(*                                                                         *)
(* The scheduler is RandWs: the root thread may have been stolen by any    *)
(* rank, and a rank finds the task when it is in the scheduler loop.       *)
(***************************************************************************)
EXTENDS RandWs

\* coll_exec checks that it is called by the root thread.
ASSUME CollAssumption ==
  \A p \in Programs, t \in Threads : \A k \in DOMAIN p.body[t] :
    p.body[t][k].do = "coll" => t = Root

VARIABLES
  begin,        \* ct.begin_rank of the task that a rank has
  i,            \* the loop variable of execute_coll_task
  copy,         \* copy[r]: which call's task r has allocated, 0 for none
  arrived, entry, \* the mailbox
  got,          \* what pop returned
  calls,        \* calls of coll_exec so far
  barriers,     \* barriers a rank has entered
  executed      \* executed[r]: calls whose task r has executed

taskVars == <<begin, i, copy>>
mailVars == <<arrived, entry, got>>
collVars == <<calls, taskVars, mailVars, barriers, executed>>
allVars == <<vars, collVars>>

\* What coll_exec leaves alone, but for pc and next.
schedVars == <<prog, cur, victim, queue, lock, frames, tsVars, evacuated, entered>>

n == prog.ranks
NoEntry == [from |-> 0, begin |-> 0]

\* What divides a power of 2 is even, but for 1.
IsPow2(p) == \A d \in 2..p : p % d = 0 => d % 2 = 0

\* next_pow2, of x > 0.
NextPow2(x) == CHOOSE p \in 1..(2 * x) : IsPow2(p) /\ x <= p /\ p \div 2 < x

CollInit ==
  /\ Init
  /\ calls = 0
  /\ begin = [r \in Workers |-> 0]
  /\ i = [r \in Workers |-> 0]
  /\ copy = [r \in Workers |-> 0]
  /\ arrived = [r \in Workers |-> FALSE]
  /\ entry = [r \in Workers |-> NoEntry]
  /\ got = [r \in Workers |-> NoEntry]
  /\ barriers = [r \in Workers |-> 0]
  /\ executed = [r \in Workers |-> 0]

-----------------------------------------------------------------------------

\* coll_exec, by the root thread: the task is allocated on the calling rank.
CollExecCall(r) ==
  /\ Does(r, "coll")
  /\ calls' = calls + 1
  /\ copy' = [copy EXCEPT ![r] = calls + 1]
  /\ begin' = [begin EXCEPT ![r] = r]
  /\ i' = [i EXCEPT ![r] = NextPow2(n)]
  /\ Goto(r, "send")
  /\ UNCHANGED <<schedVars, next, mailVars, barriers, executed>>

Shifted(r) == (r + n - begin[r]) % n

\* Mutant: the target rank is not shifted back to the begin rank.
TargetUnshifted(r) == Shifted(r) + i[r] \div 2

\* The rank that r passes the task to in iteration i.
Target(r) == (Shifted(r) + i[r] \div 2 + begin[r]) % n

\* Mutant: off by one at the last rank.
SendsToPastEnd(r) == Shifted(r) % i[r] = 0 /\ Shifted(r) + i[r] \div 2 <= n

Sends(r) == Shifted(r) % i[r] = 0 /\ Shifted(r) + i[r] \div 2 < n

\* mailbox put: the entry, then arrived.
SendEntry(r) ==
  /\ pc[r] = "send" /\ i[r] > 1 /\ Sends(r)
  /\ entry' = [entry EXCEPT ![Target(r)] = [from |-> r, begin |-> begin[r]]]
  /\ Goto(r, "sendArrived")
  /\ UNCHANGED <<schedVars, next, calls, taskVars, arrived, got, barriers, executed>>

SendArrived(r) ==
  /\ pc[r] = "sendArrived"
  /\ arrived' = [arrived EXCEPT ![Target(r)] = TRUE]
  /\ i' = [i EXCEPT ![r] = @ \div 2]
  /\ Goto(r, "send")
  /\ UNCHANGED <<schedVars, next, calls, begin, copy, entry, got, barriers, executed>>

SendSkips(r) ==
  /\ pc[r] = "send" /\ i[r] > 1 /\ ~Sends(r)
  /\ i' = [i EXCEPT ![r] = @ \div 2]
  /\ UNCHANGED <<schedVars, pc, next, calls, begin, copy, mailVars, barriers, executed>>

\* The two barriers and the execution between them.
BarrierEnter(r, from, to) ==
  /\ pc[r] = from
  /\ from = "send" => i[r] <= 1
  /\ barriers' = [barriers EXCEPT ![r] = @ + 1]
  /\ Goto(r, to)
  /\ UNCHANGED <<schedVars, next, calls, taskVars, mailVars, executed>>

Resolved(r) == \A q \in Workers : barriers[q] >= barriers[r]

Execute(r) ==
  /\ pc[r] = "barrier1" /\ Resolved(r)
  /\ executed' = [executed EXCEPT ![r] = copy[r]]
  /\ Goto(r, "executed")
  /\ UNCHANGED <<schedVars, next, calls, taskVars, mailVars, barriers>>

\* Mutant: the copy is freed without waiting for the second barrier.
DeallocateEarly(r) ==
  /\ pc[r] = "barrier2"
  /\ copy' = [copy EXCEPT ![r] = 0]
  /\ \/ cur[r] = Nobody /\ Goto(r, "sched") /\ UNCHANGED next
     \/ cur[r] # Nobody /\ Goto(r, "run") /\ next' = [next EXCEPT ![cur[r]] = @ + 1]
  /\ UNCHANGED <<schedVars, calls, begin, i, mailVars, barriers, executed>>

Deallocate(r) ==
  /\ pc[r] = "barrier2" /\ Resolved(r)
  /\ copy' = [copy EXCEPT ![r] = 0]
  /\ \/ cur[r] = Nobody /\ Goto(r, "sched") /\ UNCHANGED next
     \/ cur[r] # Nobody /\ Goto(r, "run") /\ next' = [next EXCEPT ![cur[r]] = @ + 1]
  /\ UNCHANGED <<schedVars, calls, begin, i, mailVars, barriers, executed>>

\* mailbox pop, in the scheduler loop: arrived is cleared before the entry is
\* read.
PopClears(r) ==
  /\ pc[r] = "sched" /\ arrived[r]
  /\ arrived' = [arrived EXCEPT ![r] = FALSE]
  /\ Goto(r, "popRead")
  /\ UNCHANGED <<schedVars, next, calls, taskVars, entry, got, barriers, executed>>

PopReads(r) ==
  /\ pc[r] = "popRead"
  /\ got' = [got EXCEPT ![r] = entry[r]]
  /\ Goto(r, "fetch")
  /\ UNCHANGED <<schedVars, next, calls, taskVars, arrived, entry, barriers, executed>>

\* execute_coll_task_if_arrived: the task is copied from the sender.
Fetch(r) ==
  /\ pc[r] = "fetch"
  /\ copy' = [copy EXCEPT ![r] = copy[got[r].from]]
  /\ begin' = [begin EXCEPT ![r] = got[r].begin]
  /\ i' = [i EXCEPT ![r] = NextPow2(n)]
  /\ Goto(r, "send")
  /\ UNCHANGED <<schedVars, next, calls, mailVars, barriers, executed>>

CollStep(r) ==
  \/ CollExecCall(r) \/ SendEntry(r) \/ SendArrived(r) \/ SendSkips(r)
  \/ BarrierEnter(r, "send", "barrier1") \/ Execute(r)
  \/ BarrierEnter(r, "executed", "barrier2") \/ Deallocate(r)
  \/ PopClears(r) \/ PopReads(r) \/ Fetch(r)

CollNext ==
  \/ Next /\ UNCHANGED collVars
  \/ \E r \in Workers : CollStep(r)

CollSpec == CollInit /\ [][CollNext]_allVars

\* Every worker goes on with what it does, and looks into its mailbox again and
\* again while it is in the scheduler loop; no steal ever has to succeed.
CollFairSpec ==
  CollSpec /\ \A w \in 0..(MaxRanks - 1) :
    WF_allVars(w \in Workers /\ (CollStep(w) \/ (WorkerStep(w) /\ UNCHANGED collVars)))

-----------------------------------------------------------------------------
(* Properties.                                                              *)

\* A rank copies the task of the current call, from memory that is allocated,
\* and no rank leaves the scheduler loop before it has executed every task.  The
\* mailbox that put writes to is empty, as it checks.
FetchesTheTask ==
  \A r \in Workers :
    /\ pc[r] = "fetch" => copy[got[r].from] = calls
    /\ (pc[r] = "send" /\ i[r] > 1 /\ Sends(r)) \/ pc[r] = "sendArrived" => ~arrived[Target(r)]
    /\ pc[r] = "exited" => executed[r] = calls

\* Whoever is past the second barrier knows that every rank has executed the
\* task of the call, and so has the caller when coll_exec returns.
ReturnsWhenAllExecuted ==
  [][\A r \in Workers : pc[r] = "barrier2" /\ pc'[r] # "barrier2" =>
       \A q \in Workers : executed[q] = copy[r]]_allVars
=============================================================================
