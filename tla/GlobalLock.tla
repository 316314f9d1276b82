----------------------------- MODULE GlobalLock -----------------------------
(***************************************************************************)
(* One lock word of ityr::common::global_lock                              *)
(* (include/ityr/common/global_lock.hpp): an int in an MPI window on which *)
(* trylock is a compare-and-swap, priolock and unlock are fetch-and-adds.  *)
(*                                                                         *)
(*   value     - the int in the window                                     *)
(*   status[p] - what process p is doing with the lock:                    *)
(*                 "idle"   not using it                                   *)
(*                 "spin"   inside lock(), between two failed trylocks     *)
(*                 "wait"   inside priolock(), after its fetch-and-add and *)
(*                          before it has read the value 1                 *)
(*                 "held"   in its critical section                        *)
(*                                                                         *)
(* Every RMA atomic is one step.  The failing read of priolock's loop      *)
(* changes nothing, so the loop is the single step that leaves it.         *)
(***************************************************************************)
EXTENDS Integers

CONSTANT Procs

VARIABLES value, status

vars == <<value, status>>

Statuses == {"idle", "spin", "wait", "held"}

Init ==
  /\ value = 0
  /\ status = [p \in Procs |-> "idle"]

\* The compare-and-swap 0 -> 1 of trylock, and what the caller's status
\* becomes when it succeeds (old value 0) and when it does not.
Cas(p, onFailure) ==
  IF value = 0
  THEN /\ value' = 1
       /\ status' = [status EXCEPT ![p] = "held"]
  ELSE /\ value' = value
       /\ status' = [status EXCEPT ![p] = onFailure]

\* trylock: one attempt, the caller goes on without the lock if it fails.
Trylock(p) ==
  /\ status[p] = "idle"
  /\ Cas(p, "idle")

\* lock: the first trylock of the loop, and the later ones.
Lock(p) ==
  /\ status[p] \in {"idle", "spin"}
  /\ Cas(p, "spin")

\* "Only one process can call this priority lock at the same time": the
\* obligation of the callers, stated on the call itself.
NobodyElseInPriolock(p) == \A q \in Procs \ {p} : status[q] # "wait"

\* Mutant: priolock that enters as soon as it has added itself.
PriolockNoWait(p) ==
  /\ status[p] = "idle"
  /\ NobodyElseInPriolock(p)
  /\ value' = value + 1
  /\ status' = [status EXCEPT ![p] = "held"]

\* priolock: fetch-and-add 1; the lock is held at once if the old value was 0.
Priolock(p) ==
  /\ status[p] = "idle"
  /\ NobodyElseInPriolock(p)
  /\ value' = value + 1
  /\ status' = [status EXCEPT ![p] = IF value = 0 THEN "held" ELSE "wait"]

\* The end of priolock's waiting loop: the value read is 1.
PriolockWaited(p) ==
  /\ status[p] = "wait"
  /\ value = 1
  /\ status' = [status EXCEPT ![p] = "held"]
  /\ UNCHANGED value

\* unlock: fetch-and-add -1.
Unlock(p) ==
  /\ status[p] = "held"
  /\ value' = value - 1
  /\ status' = [status EXCEPT ![p] = "idle"]

Next ==
  \E p \in Procs :
    \/ Trylock(p)
    \/ Lock(p)
    \/ Priolock(p)
    \/ PriolockWaited(p)
    \/ Unlock(p)

Spec == Init /\ [][Next]_vars

-----------------------------------------------------------------------------
Holders == {p \in Procs : status[p] = "held"}

Waiters == {p \in Procs : status[p] = "wait"}

\* The lock word is an int in the range trylock asserts with
\* ITYR_CHECK(0 <= result) and ITYR_CHECK(result <= 2).
TypeOK ==
  /\ value \in 0..2
  /\ status \in [Procs -> Statuses]

\* At most one process is in its critical section, whether it came in by
\* trylock, by lock or by priolock.
MutualExclusion == \A p, q \in Holders : p = q

\* At most one process is inside priolock (from the callers' obligation).
OneWaiter == \A p, q \in Waiters : p = q

\* The lock word counts the holder and the process inside priolock: the value
\* 1 that ends priolock's loop can only mean that the holder has gone.
ValueCounts ==
  value = (IF Holders = {} THEN 0 ELSE 1) + (IF Waiters = {} THEN 0 ELSE 1)

\* The inductive invariant.
LockInv == TypeOK /\ MutualExclusion /\ OneWaiter /\ ValueCounts

\* Priority: from its fetch-and-add to the end of its loop, a process inside
\* priolock is overtaken by nobody - no trylock, lock or priolock of another
\* process can succeed before it.
NobodyOvertakes ==
  [][\A p \in Waiters : \A q \in Procs \ {p} :
        status'[q] = "held" => status[q] = "held"]_vars
=============================================================================
