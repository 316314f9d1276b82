-------------------------- MODULE GlobalLockProofs --------------------------
(***************************************************************************)
(* Safety of the lock word for every set of processes.                     *)
(***************************************************************************)
EXTENDS GlobalLock, TLAPS

\* The lock word starts at 0 with every process idle.
LEMMA InitLockInv == Init => LockInv
  BY DEF Init, LockInv, TypeOK, MutualExclusion, OneWaiter, ValueCounts,
         Holders, Waiters, Statuses

\* A compare-and-swap that finds 0 finds no holder and nobody in priolock; one
\* that finds another value changes neither the holder nor the waiter.
LEMMA CasPreserves ==
  ASSUME LockInv, NEW p \in Procs, NEW s \in {"idle", "spin"},
         status[p] \in {"idle", "spin"}, Cas(p, s)
  PROVE  LockInv'
<1> USE DEF LockInv, TypeOK, Statuses
<1>1. CASE value = 0
  <2>1. value' = 1 /\ status' = [status EXCEPT ![p] = "held"]
    BY <1>1 DEF Cas
  <2>2. Holders = {} /\ Waiters = {}
    BY <1>1 DEF ValueCounts
  <2>3. Holders' = {p} /\ Waiters' = {}
    BY <2>1, <2>2 DEF Holders, Waiters
  <2>4. QED
    BY <2>1, <2>3 DEF MutualExclusion, OneWaiter, ValueCounts
<1>2. CASE value # 0
  <2>1. value' = value /\ status' = [status EXCEPT ![p] = s]
    BY <1>2 DEF Cas
  <2>2. Holders' = Holders /\ Waiters' = Waiters
    BY <2>1 DEF Holders, Waiters
  <2>3. QED
    BY <2>1, <2>2 DEF MutualExclusion, OneWaiter, ValueCounts
<1>3. QED
  BY <1>1, <1>2

\* Every step of every process preserves the invariant.
LEMMA NextLockInv == LockInv /\ [Next]_vars => LockInv'
<1> SUFFICES ASSUME LockInv, [Next]_vars
             PROVE  LockInv'
  OBVIOUS
<1>0. TypeOK /\ MutualExclusion /\ OneWaiter /\ ValueCounts
  BY DEF LockInv
<1>1. ASSUME NEW p \in Procs, Trylock(p)
      PROVE  LockInv'
  BY <1>1, CasPreserves DEF Trylock
<1>2. ASSUME NEW p \in Procs, Lock(p)
      PROVE  LockInv'
  BY <1>2, CasPreserves DEF Lock
<1>3. ASSUME NEW p \in Procs, Priolock(p)
      PROVE  LockInv'
  <2>1. Waiters = {}
    BY <1>3 DEF Priolock, NobodyElseInPriolock, Waiters
  <2>2. CASE value = 0
    <3>1. Holders = {}
      BY <1>0, <2>2 DEF ValueCounts
    <3>2. Holders' = {p} /\ Waiters' = {} /\ value' = 1
      BY <1>0, <1>3, <2>1, <2>2, <3>1 DEF Priolock, Holders, Waiters, TypeOK
    <3>3. QED
      BY <1>0, <1>3, <3>2
      DEF Priolock, LockInv, TypeOK, Statuses, MutualExclusion, OneWaiter, ValueCounts
  <2>3. CASE value # 0
    <3>1. value = 1 /\ Holders # {}
      BY <1>0, <2>1, <2>3 DEF ValueCounts, TypeOK
    <3>2. Holders' = Holders /\ Waiters' = {p} /\ value' = 2
      BY <1>0, <1>3, <2>1, <2>3, <3>1 DEF Priolock, Holders, Waiters, TypeOK
    <3>3. QED
      BY <1>0, <1>3, <3>1, <3>2
      DEF Priolock, LockInv, TypeOK, Statuses, MutualExclusion, OneWaiter, ValueCounts
  <2>4. QED
    BY <2>2, <2>3
<1>4. ASSUME NEW p \in Procs, PriolockWaited(p)
      PROVE  LockInv'
  <2>1. p \in Waiters /\ value = 1
    BY <1>4 DEF PriolockWaited, Waiters
  <2>2. Holders = {} /\ Waiters = {p}
    BY <1>0, <2>1 DEF ValueCounts, OneWaiter
  <2>3. Holders' = {p} /\ Waiters' = {} /\ value' = 1
    BY <1>0, <1>4, <2>2 DEF PriolockWaited, Holders, Waiters, TypeOK
  <2>4. QED
    BY <1>0, <1>4, <2>3
    DEF PriolockWaited, LockInv, TypeOK, Statuses, MutualExclusion, OneWaiter, ValueCounts
<1>5. ASSUME NEW p \in Procs, Unlock(p)
      PROVE  LockInv'
  <2>1. Holders = {p}
    BY <1>0, <1>5 DEF Unlock, Holders, MutualExclusion
  <2>2. Holders' = {} /\ Waiters' = Waiters /\ value' = value - 1
    BY <1>0, <1>5, <2>1 DEF Unlock, Holders, Waiters, TypeOK
  <2>3. value = 1 + (IF Waiters = {} THEN 0 ELSE 1)
    BY <1>0, <2>1 DEF ValueCounts
  <2>4. QED
    BY <1>0, <1>5, <2>2, <2>3
    DEF Unlock, LockInv, TypeOK, Statuses, MutualExclusion, OneWaiter, ValueCounts
<1>6. CASE UNCHANGED vars
  BY <1>0, <1>6
  DEF vars, LockInv, TypeOK, MutualExclusion, OneWaiter, ValueCounts, Holders, Waiters
<1>7. QED
  BY <1>1, <1>2, <1>3, <1>4, <1>5, <1>6 DEF Next

\* The inductive invariant holds in every behaviour.
THEOREM LockInvariant == Spec => []LockInv
  BY InitLockInv, NextLockInv, PTL DEF Spec

\* The lock word stays in 0..2, the range trylock asserts.
THEOREM TypeCorrect == Spec => []TypeOK
<1>1. LockInv => TypeOK
  BY DEF LockInv
<1>2. QED
  BY <1>1, LockInvariant, PTL

\* trylock, lock and priolock exclude each other for any number of processes.
THEOREM Exclusion == Spec => []MutualExclusion
<1>1. LockInv => MutualExclusion
  BY DEF LockInv
<1>2. QED
  BY <1>1, LockInvariant, PTL

\* The lock word counts the holder and the process inside priolock.
THEOREM Accounting == Spec => []ValueCounts
<1>1. LockInv => ValueCounts
  BY DEF LockInv
<1>2. QED
  BY <1>1, LockInvariant, PTL

\* A process inside priolock is overtaken by nobody: while it waits the value
\* is not 0, so no CAS and no other fetch-and-add can take the lock.
THEOREM Priority == Spec => NobodyOvertakes
<1>1. ASSUME LockInv, [Next]_vars
      PROVE  [\A p \in Waiters : \A q \in Procs \ {p} :
                 status'[q] = "held" => status[q] = "held"]_vars
  <2> SUFFICES ASSUME Next,
                      NEW p \in Waiters, NEW q \in Procs \ {p}, status'[q] = "held"
               PROVE  status[q] = "held"
    BY <1>1
  <2>1. value # 0 /\ p \in Procs /\ status[p] = "wait" /\ status \in [Procs -> Statuses]
    BY <1>1 DEF LockInv, ValueCounts, TypeOK, Waiters
  <2>2. \A r \in Waiters : r = p
    BY <1>1 DEF LockInv, OneWaiter
  <2>3. PICK r \in Procs : \/ Trylock(r) \/ Lock(r) \/ Priolock(r)
                           \/ PriolockWaited(r) \/ Unlock(r)
    BY DEF Next
  <2>4. CASE Trylock(r)
    BY <2>1, <2>4 DEF Trylock, Cas
  <2>5. CASE Lock(r)
    BY <2>1, <2>5 DEF Lock, Cas
  <2>6. CASE Priolock(r)
    BY <2>1, <2>6 DEF Priolock
  <2>7. CASE PriolockWaited(r)
    BY <2>1, <2>2, <2>7 DEF PriolockWaited, Waiters
  <2>8. CASE Unlock(r)
    BY <2>1, <2>8 DEF Unlock
  <2>9. QED
    BY <2>3, <2>4, <2>5, <2>6, <2>7, <2>8
<1>2. QED
  BY <1>1, LockInvariant, PTL DEF Spec, NobodyOvertakes
=============================================================================
