---------------------------- MODULE WsQueueProofs ----------------------------
(***************************************************************************)
(* The work-stealing queue is a linearizable deque for every number of     *)
(* thieves, every array size and any number of entries, with and without   *)
(* pass.                                                                   *)
(***************************************************************************)
EXTENDS WsQueue, TLAPS

LP == INSTANCE GlobalLockProofs
        WITH Procs <- {Owner} \cup Thieves, value <- lockValue, status <- lockStatus

-----------------------------------------------------------------------------
(* The inductive invariant.                                                 *)

\* Where a thief or passer is inside its critical section.
CriticalPcs == {"steal", "stealTop", "stealGet", "stealUndo", "stolen", "unlock",
                "pass", "passBase", "passRetry"}

\* Where the owner has asked for the lock, and where it has it for sure.
LockingPcs == {"pushMove", "popMove", "popSlow", "visiting"}
LockedPcs == {"pushUnlock", "popMoveUnlock", "unlock", "thrown"}

OwnerPcs == LockingPcs \cup LockedPcs \cup
  {"idle", "pushLock", "pushWrite", "pushTop", "popRebalance", "pop", "popBase",
   "popTake", "popRestore", "popLock", "visit"}

ThiefPcs == CriticalPcs \cup {"idle", "stealLock", "passLock"}

Values == 0..MaxEntries

TypeOK ==
  /\ enablePass \in BOOLEAN /\ localEmpty \in BOOLEAN /\ weak \in BOOLEAN
  /\ top \in Int /\ base \in Int
  /\ slots \in [0..(NEntries - 1) -> Values]
  /\ opc \in OwnerPcs /\ arg \in Values
  /\ tpc \in [Thieves -> ThiefPcs]
  /\ tb \in [Thieves -> Int]
  /\ held \in [Thieves -> Values]
  /\ next \in Nat \ {0}

\* Who is in a critical section holds the lock.
LockUse ==
  /\ \A p \in Thieves : (tpc[p] \in CriticalPcs) <=> (lockStatus[p] = "held")
  /\ opc \in LockedPcs => lockStatus[Owner] = "held"

\* The abstract window lies in the array, and a pop that has found base <= top
\* has an entry in it.
WindowInside ==
  /\ 0 <= AbsBase /\ AbsBase <= AbsTop /\ AbsTop <= NEntries
  /\ opc = "popTake" => AbsBase <= top

\* What the owner knows of top and of its argument inside a call.
OwnerInv ==
  /\ opc \in {"pushLock", "pushMove"} => top = NEntries
  /\ opc \in {"pushUnlock", "pushWrite", "pushTop", "popRebalance", "popMove"} => top < NEntries
  /\ opc \in {"pushLock", "pushMove", "pushUnlock", "pushWrite", "pushTop"} => arg \in Entries
  /\ opc = "pushTop" => slots[top] = arg

\* What a thief or passer knows inside its critical section: base is the one it
\* read, and the slot it has taken or filled has not been overwritten.
ThiefInv ==
  \A p \in Thieves :
    /\ tpc[p] \in {"stealTop", "stealGet", "stealUndo", "stolen"} => tb[p] = base - 1 /\ 0 <= tb[p]
    /\ tpc[p] = "stolen" => held[p] = slots[tb[p]]
    /\ tpc[p] \in {"passLock", "pass", "passBase", "passRetry"} => enablePass /\ held[p] \in Entries
    /\ tpc[p] = "passBase" => tb[p] = base /\ 0 < base /\ slots[base - 1] = held[p]

\* local_empty_ is set only without pass, and then nothing is left or taken.
EmptyInv ==
  localEmpty => /\ ~enablePass /\ AbsBase = AbsTop
                /\ \A p \in Thieves : tpc[p] \notin {"stealGet", "stolen"}

QueueInv ==
  /\ TypeOK /\ LP!LockInv /\ LockUse
  /\ WindowInside /\ OwnerInv /\ ThiefInv /\ EmptyInv

-----------------------------------------------------------------------------
(* The queue invariant holds in every behaviour.                            *)

\* The lock word behaves as GlobalLock, whatever else a step does.
LEMMA LockStep ==
  ASSUME LP!LockInv, LP!Next \/ UNCHANGED lockVars
  PROVE  LP!LockInv'
BY LP!NextLockInv DEF LP!vars, lockVars

\* A thief in its critical section is alone on the queue.
LEMMA ThiefAlone ==
  ASSUME QueueInv, NEW p \in Thieves, tpc[p] \in CriticalPcs
  PROVE  /\ lockStatus[Owner] # "held"
         /\ \A q \in Thieves : q # p => tpc[q] \notin CriticalPcs
         /\ AbsBase = IF tpc[p] \in {"stealTop", "stealUndo"} THEN base - 1 ELSE base
<1> USE OwnerAssumption DEF QueueInv, LockUse
<1>1. \A q \in Thieves : q # p => tpc[q] \notin CriticalPcs
  BY DEF LP!LockInv, LP!MutualExclusion, LP!Holders
<1>2. lockStatus[Owner] # "held"
  BY DEF LP!LockInv, LP!MutualExclusion, LP!Holders
<1>3. QED
  BY <1>1, <1>2 DEF AbsBase, CriticalPcs

\* When the owner has the lock no thief is between its fetch-and-add and the
\* end of its steal.
LEMMA OwnerAlone ==
  ASSUME QueueInv, lockStatus[Owner] = "held"
  PROVE  /\ \A q \in Thieves : tpc[q] \notin CriticalPcs
         /\ AbsBase = base
<1> USE OwnerAssumption DEF QueueInv, LockUse
<1>1. \A q \in Thieves : tpc[q] \notin CriticalPcs
  BY DEF LP!LockInv, LP!MutualExclusion, LP!Holders
<1>2. QED
  BY <1>1 DEF AbsBase, CriticalPcs

\* A new queue is empty and unlocked, and nobody is in a call.
LEMMA InitQueueInv == Init => QueueInv
<1> SUFFICES ASSUME Init PROVE QueueInv
  OBVIOUS
<1> USE SizeAssumption, OwnerAssumption DEF Init, InitialPos
<1>1. LP!LockInv
  BY LP!InitLockInv DEF L!Init, LP!Init
<1>a. enablePass \in BOOLEAN
  BY Zenon
<1>b. InitialPos \in Int
  BY <1>a
<1>2. TypeOK
  BY <1>a, <1>b DEF TypeOK, OwnerPcs, ThiefPcs, Values, NoEntry
<1>3. LockUse
  BY DEF LockUse, L!Init, CriticalPcs, LockedPcs
<1>4. AbsBase = InitialPos /\ AbsTop = InitialPos /\ InitialPos \in 0..NEntries
  BY DEF AbsBase, AbsTop
<1>5. WindowInside /\ OwnerInv /\ ThiefInv /\ EmptyInv
  BY <1>4 DEF WindowInside, OwnerInv, ThiefInv, EmptyInv
<1>6. QED
  BY <1>1, <1>2, <1>3, <1>5 DEF QueueInv

\* Every step preserves the invariant.
LEMMA NextQueueInv == QueueInv /\ [Next]_vars => QueueInv'
<1> SUFFICES ASSUME QueueInv, [Next]_vars
             PROVE  QueueInv'
  OBVIOUS
<1> USE SizeAssumption, OwnerAssumption
    DEF lockVars, queueVars, callVars, thiefVars, ownerState, OwnerGoto, OwnerHolds, ThiefGoto
<1>0. /\ TypeOK /\ LP!LockInv /\ LockUse
      /\ WindowInside /\ OwnerInv /\ ThiefInv /\ EmptyInv
  BY DEF QueueInv
<1>a. AbsBase \in Int /\ base - 1 <= AbsBase /\ AbsBase <= base
  BY <1>0 DEF AbsBase, TypeOK
<1>1. ASSUME PushCall, UNCHANGED enablePass
      PROVE  QueueInv'
  <2>1. TypeOK'
    BY <1>0, <1>1 DEF PushCall, TypeOK, OwnerPcs, LockingPcs, LockedPcs, Values, NoEntry
  <2>2. LP!LockInv'
    BY <1>0, <1>1, LockStep DEF PushCall
  <2>3. LockUse'
    BY <1>0, <1>1 DEF PushCall, LockUse, LockedPcs
  <2>4. AbsBase' = AbsBase
    BY <1>1 DEF PushCall, AbsBase
  <2>5. WindowInside'
    BY <1>0, <1>1, <2>4, <1>a DEF PushCall, WindowInside, AbsTop, TypeOK
  <2>6. OwnerInv'
    BY <1>0, <1>a, <1>1 DEF PushCall, OwnerInv, TypeOK, Entries, WindowInside, AbsTop
  <2>7. ThiefInv'
    BY <1>0, <1>1 DEF PushCall, ThiefInv
  <2>8. EmptyInv'
    BY <1>0, <1>1, <2>4, <1>a DEF PushCall, EmptyInv, AbsTop
  <2>9. QED
    BY <2>1, <2>2, <2>3, <2>5, <2>6, <2>7, <2>8 DEF QueueInv
<1>2. ASSUME PushWrite, UNCHANGED enablePass
      PROVE  QueueInv'
  <2>1. TypeOK'
    BY <1>0, <1>2 DEF PushWrite, TypeOK, OwnerPcs, LockingPcs, LockedPcs, Values, NoEntry
  <2>2. LP!LockInv'
    BY <1>0, <1>2, LockStep DEF PushWrite
  <2>3. LockUse'
    BY <1>0, <1>2 DEF PushWrite, LockUse, LockedPcs
  <2>4. AbsBase' = AbsBase
    BY <1>2 DEF PushWrite, AbsBase
  <2>5. WindowInside'
    BY <1>0, <1>2, <2>4, <1>a DEF PushWrite, WindowInside, AbsTop, TypeOK
  <2>6. OwnerInv'
    BY <1>0, <1>a, <1>2 DEF PushWrite, OwnerInv, TypeOK, Entries, WindowInside, AbsTop
  <2>7. ThiefInv'
    <3>1. ASSUME NEW p \in Thieves, tpc[p] \in {"stolen", "passBase"}
          PROVE  AbsBase = base /\ base <= top
      BY <1>0, <1>2, <3>1, ThiefAlone DEF PushWrite, WindowInside, AbsTop, CriticalPcs
    <3>2. QED
      BY <1>0, <1>2, <3>1 DEF PushWrite, ThiefInv, TypeOK
  <2>8. EmptyInv'
    BY <1>0, <1>2, <2>4, <1>a DEF PushWrite, EmptyInv, AbsTop
  <2>9. QED
    BY <2>1, <2>2, <2>3, <2>5, <2>6, <2>7, <2>8 DEF QueueInv
<1>3. ASSUME PushTop, UNCHANGED enablePass
      PROVE  QueueInv'
  <2>1. TypeOK'
    <3>1. localEmpty' \in BOOLEAN
      BY <1>3, Zenon DEF PushTop
    <3>2. QED
      BY <1>0, <1>3, <3>1 DEF PushTop, TypeOK, OwnerPcs, LockingPcs, LockedPcs, Values, NoEntry
  <2>2. LP!LockInv'
    BY <1>0, <1>3, LockStep DEF PushTop
  <2>3. LockUse'
    BY <1>0, <1>3 DEF PushTop, LockUse, LockedPcs
  <2>4. AbsBase' = AbsBase
    BY <1>3 DEF PushTop, AbsBase
  <2>5. WindowInside'
    BY <1>0, <1>3, <2>4, <1>a DEF PushTop, WindowInside, AbsTop, TypeOK, OwnerInv
  <2>6. OwnerInv'
    BY <1>0, <1>a, <1>3 DEF PushTop, OwnerInv, TypeOK, Entries
  <2>7. ThiefInv'
    BY <1>0, <1>3 DEF PushTop, ThiefInv
  <2>8. EmptyInv'
    BY <1>0, <1>3, <2>4, <1>a DEF PushTop, EmptyInv, AbsTop
  <2>9. QED
    BY <2>1, <2>2, <2>3, <2>5, <2>6, <2>7, <2>8 DEF QueueInv
<1>4. ASSUME PopCall, UNCHANGED enablePass
      PROVE  QueueInv'
  <2>1. TypeOK'
    BY <1>0, <1>4 DEF PopCall, TypeOK, OwnerPcs, LockingPcs, LockedPcs, Values, NoEntry
  <2>2. LP!LockInv'
    BY <1>0, <1>4, LockStep DEF PopCall
  <2>3. LockUse'
    BY <1>0, <1>4 DEF PopCall, LockUse, LockedPcs
  <2>4. AbsBase' = AbsBase
    BY <1>4 DEF PopCall, AbsBase
  <2>5. WindowInside'
    BY <1>0, <1>4, <2>4, <1>a DEF PopCall, WindowInside, AbsTop, TypeOK
  <2>6. OwnerInv'
    BY <1>0, <1>a, <1>4 DEF PopCall, OwnerInv, TypeOK, Entries, WindowInside, AbsTop, Margin
  <2>7. ThiefInv'
    BY <1>0, <1>4 DEF PopCall, ThiefInv
  <2>8. EmptyInv'
    BY <1>0, <1>4, <2>4, <1>a DEF PopCall, EmptyInv, AbsTop
  <2>9. QED
    BY <2>1, <2>2, <2>3, <2>5, <2>6, <2>7, <2>8 DEF QueueInv
<1>5. ASSUME PopReturnsNull, UNCHANGED enablePass
      PROVE  QueueInv'
  <2>1. TypeOK'
    BY <1>0, <1>5 DEF PopReturnsNull, TypeOK, OwnerPcs, LockingPcs, LockedPcs, Values, NoEntry
  <2>2. LP!LockInv'
    BY <1>0, <1>5, LockStep DEF PopReturnsNull
  <2>3. LockUse'
    BY <1>0, <1>5 DEF PopReturnsNull, LockUse, LockedPcs
  <2>4. AbsBase' = AbsBase
    BY <1>5 DEF PopReturnsNull, AbsBase
  <2>5. WindowInside'
    BY <1>0, <1>5, <2>4, <1>a DEF PopReturnsNull, WindowInside, AbsTop, TypeOK
  <2>6. OwnerInv'
    BY <1>0, <1>a, <1>5 DEF PopReturnsNull, OwnerInv, TypeOK, Entries
  <2>7. ThiefInv'
    BY <1>0, <1>5 DEF PopReturnsNull, ThiefInv
  <2>8. EmptyInv'
    BY <1>0, <1>5, <2>4, <1>a DEF PopReturnsNull, EmptyInv, AbsTop
  <2>9. QED
    BY <2>1, <2>2, <2>3, <2>5, <2>6, <2>7, <2>8 DEF QueueInv
<1>6. ASSUME PopDecrement, UNCHANGED enablePass
      PROVE  QueueInv'
  <2>1. TypeOK'
    BY <1>0, <1>6 DEF PopDecrement, TypeOK, OwnerPcs, LockingPcs, LockedPcs, Values, NoEntry
  <2>2. LP!LockInv'
    BY <1>0, <1>6, LockStep DEF PopDecrement
  <2>3. LockUse'
    BY <1>0, <1>6 DEF PopDecrement, LockUse, LockedPcs
  <2>4. AbsBase' = AbsBase
    BY <1>6 DEF PopDecrement, AbsBase
  <2>5. WindowInside'
    BY <1>0, <1>6, <2>4, <1>a DEF PopDecrement, WindowInside, AbsTop, TypeOK
  <2>6. OwnerInv'
    BY <1>0, <1>a, <1>6 DEF PopDecrement, OwnerInv, TypeOK, Entries
  <2>7. ThiefInv'
    BY <1>0, <1>6 DEF PopDecrement, ThiefInv
  <2>8. EmptyInv'
    BY <1>0, <1>6, <2>4, <1>a DEF PopDecrement, EmptyInv, AbsTop
  <2>9. QED
    BY <2>1, <2>2, <2>3, <2>5, <2>6, <2>7, <2>8 DEF QueueInv
<1>7. ASSUME PopReadBase, UNCHANGED enablePass
      PROVE  QueueInv'
  <2>1. TypeOK'
    BY <1>0, <1>7 DEF PopReadBase, TypeOK, OwnerPcs, LockingPcs, LockedPcs, Values, NoEntry
  <2>2. LP!LockInv'
    BY <1>0, <1>7, LockStep DEF PopReadBase
  <2>3. LockUse'
    BY <1>0, <1>7 DEF PopReadBase, LockUse, LockedPcs
  <2>4. AbsBase' = AbsBase
    BY <1>7 DEF PopReadBase, AbsBase
  <2>5. WindowInside'
    BY <1>0, <1>7, <2>4, <1>a DEF PopReadBase, WindowInside, AbsTop, TypeOK
  <2>6. OwnerInv'
    BY <1>0, <1>a, <1>7 DEF PopReadBase, OwnerInv, TypeOK, Entries
  <2>7. ThiefInv'
    BY <1>0, <1>7 DEF PopReadBase, ThiefInv
  <2>8. EmptyInv'
    BY <1>0, <1>7, <2>4, <1>a DEF PopReadBase, EmptyInv, AbsTop
  <2>9. QED
    BY <2>1, <2>2, <2>3, <2>5, <2>6, <2>7, <2>8 DEF QueueInv
<1>8. ASSUME PopTake, UNCHANGED enablePass
      PROVE  QueueInv'
  <2>1. TypeOK'
    BY <1>0, <1>8 DEF PopTake, TypeOK, OwnerPcs, LockingPcs, LockedPcs, Values, NoEntry
  <2>2. LP!LockInv'
    BY <1>0, <1>8, LockStep DEF PopTake
  <2>3. LockUse'
    BY <1>0, <1>8 DEF PopTake, LockUse, LockedPcs
  <2>4. AbsBase' = AbsBase
    BY <1>8 DEF PopTake, AbsBase
  <2>5. WindowInside'
    BY <1>0, <1>8, <2>4, <1>a DEF PopTake, WindowInside, AbsTop, TypeOK
  <2>6. OwnerInv'
    BY <1>0, <1>a, <1>8 DEF PopTake, OwnerInv, TypeOK, Entries
  <2>7. ThiefInv'
    BY <1>0, <1>8 DEF PopTake, ThiefInv
  <2>8. EmptyInv'
    BY <1>0, <1>8, <2>4, <1>a DEF PopTake, EmptyInv, AbsTop, WindowInside, TypeOK
  <2>9. QED
    BY <2>1, <2>2, <2>3, <2>5, <2>6, <2>7, <2>8 DEF QueueInv
<1>9. ASSUME PopRestore, UNCHANGED enablePass
      PROVE  QueueInv'
  <2>1. TypeOK'
    BY <1>0, <1>9 DEF PopRestore, TypeOK, OwnerPcs, LockingPcs, LockedPcs, Values, NoEntry
  <2>2. LP!LockInv'
    BY <1>0, <1>9, LockStep DEF PopRestore
  <2>3. LockUse'
    BY <1>0, <1>9 DEF PopRestore, LockUse, LockedPcs
  <2>4. AbsBase' = AbsBase
    BY <1>9 DEF PopRestore, AbsBase
  <2>5. WindowInside'
    BY <1>0, <1>9, <2>4, <1>a DEF PopRestore, WindowInside, AbsTop, TypeOK
  <2>6. OwnerInv'
    BY <1>0, <1>a, <1>9 DEF PopRestore, OwnerInv, TypeOK, Entries
  <2>7. ThiefInv'
    BY <1>0, <1>9 DEF PopRestore, ThiefInv
  <2>8. EmptyInv'
    BY <1>0, <1>9, <2>4, <1>a DEF PopRestore, EmptyInv, AbsTop
  <2>9. QED
    BY <2>1, <2>2, <2>3, <2>5, <2>6, <2>7, <2>8 DEF QueueInv
<1>10. ASSUME VisitCall, UNCHANGED enablePass
      PROVE  QueueInv'
  <2>1. TypeOK'
    BY <1>0, <1>10 DEF VisitCall, TypeOK, OwnerPcs, LockingPcs, LockedPcs, Values, NoEntry
  <2>2. LP!LockInv'
    BY <1>0, <1>10, LockStep DEF VisitCall
  <2>3. LockUse'
    BY <1>0, <1>10 DEF VisitCall, LockUse, LockedPcs
  <2>4. AbsBase' = AbsBase
    BY <1>10 DEF VisitCall, AbsBase
  <2>5. WindowInside'
    BY <1>0, <1>10, <2>4, <1>a DEF VisitCall, WindowInside, AbsTop, TypeOK
  <2>6. OwnerInv'
    BY <1>0, <1>a, <1>10 DEF VisitCall, OwnerInv, TypeOK, Entries
  <2>7. ThiefInv'
    BY <1>0, <1>10 DEF VisitCall, ThiefInv
  <2>8. EmptyInv'
    BY <1>0, <1>10, <2>4, <1>a DEF VisitCall, EmptyInv, AbsTop
  <2>9. QED
    BY <2>1, <2>2, <2>3, <2>5, <2>6, <2>7, <2>8 DEF QueueInv
<1>11. ASSUME VisitReturns, UNCHANGED enablePass
      PROVE  QueueInv'
  <2>1. TypeOK'
    BY <1>0, <1>11 DEF VisitReturns, TypeOK, OwnerPcs, LockingPcs, LockedPcs, Values, NoEntry
  <2>2. LP!LockInv'
    BY <1>0, <1>11, LockStep DEF VisitReturns
  <2>3. LockUse'
    BY <1>0, <1>11 DEF VisitReturns, LockUse, LockedPcs
  <2>4. AbsBase' = AbsBase
    BY <1>11 DEF VisitReturns, AbsBase
  <2>5. WindowInside'
    BY <1>0, <1>11, <2>4, <1>a DEF VisitReturns, WindowInside, AbsTop, TypeOK
  <2>6. OwnerInv'
    BY <1>0, <1>a, <1>11 DEF VisitReturns, OwnerInv, TypeOK, Entries
  <2>7. ThiefInv'
    BY <1>0, <1>11 DEF VisitReturns, ThiefInv
  <2>8. EmptyInv'
    BY <1>0, <1>11, <2>4, <1>a DEF VisitReturns, EmptyInv, AbsTop
  <2>9. QED
    BY <2>1, <2>2, <2>3, <2>5, <2>6, <2>7, <2>8 DEF QueueInv
\* priolock and unlock of the owner: only the lock word and opc change.
<1>12. ASSUME \/ OwnerPriolock("pushLock", "pushMove") \/ OwnerPriolock("popRebalance", "popMove")
              \/ OwnerPriolock("popLock", "popSlow") \/ VisitLock,
              UNCHANGED enablePass
       PROVE  QueueInv'
  <2>1. TypeOK'
    BY <1>0, <1>12 DEF OwnerPriolock, VisitLock, TypeOK, OwnerPcs, LockingPcs
  <2>2. LP!LockInv'
    BY <1>0, <1>12, LockStep
    DEF OwnerPriolock, VisitLock, LP!Next, L!Priolock, LP!Priolock, L!NobodyElseInPriolock, LP!NobodyElseInPriolock
  <2>3. LockUse'
    BY <1>0, <1>12 DEF OwnerPriolock, VisitLock, L!Priolock, LockUse, LockedPcs, LP!LockInv, LP!TypeOK
  <2>4. AbsBase' = AbsBase /\ AbsTop' = AbsTop
    BY <1>12 DEF OwnerPriolock, VisitLock, AbsBase, AbsTop
  <2>5. WindowInside' /\ OwnerInv' /\ ThiefInv' /\ EmptyInv'
    BY <1>0, <1>12, <2>4 DEF OwnerPriolock, VisitLock, WindowInside, OwnerInv, ThiefInv, EmptyInv
  <2>6. QED
    BY <2>1, <2>2, <2>3, <2>5 DEF QueueInv
<1>13. ASSUME OwnerWaited, UNCHANGED enablePass
       PROVE  QueueInv'
  <2>1. TypeOK'
    BY <1>0, <1>13 DEF OwnerWaited, TypeOK
  <2>2. LP!LockInv'
    BY <1>0, <1>13, LockStep DEF OwnerWaited, LP!Next, L!PriolockWaited, LP!PriolockWaited
  <2>3. LockUse'
    BY <1>0, <1>13 DEF OwnerWaited, L!PriolockWaited, LockUse, LP!LockInv, LP!TypeOK
  <2>4. AbsBase' = AbsBase /\ AbsTop' = AbsTop
    BY <1>13 DEF OwnerWaited, AbsBase, AbsTop
  <2>5. WindowInside' /\ OwnerInv' /\ ThiefInv' /\ EmptyInv'
    BY <1>0, <1>13, <2>4 DEF OwnerWaited, WindowInside, OwnerInv, ThiefInv, EmptyInv
  <2>6. QED
    BY <2>1, <2>2, <2>3, <2>5 DEF QueueInv
<1>14. ASSUME \/ OwnerUnlock("pushUnlock", "pushWrite") \/ OwnerUnlock("popMoveUnlock", "pop")
              \/ OwnerUnlock("unlock", "idle"),
              UNCHANGED enablePass
       PROVE  QueueInv'
  <2>1. TypeOK'
    BY <1>0, <1>14 DEF OwnerUnlock, TypeOK, OwnerPcs
  <2>2. LP!LockInv'
    BY <1>0, <1>14, LockStep DEF OwnerUnlock, LP!Next, L!Unlock, LP!Unlock
  <2>3. LockUse'
    BY <1>0, <1>14 DEF OwnerUnlock, L!Unlock, LockUse, LockedPcs, LP!LockInv, LP!TypeOK
  <2>4. AbsBase' = AbsBase /\ AbsTop' = AbsTop
    BY <1>14 DEF OwnerUnlock, AbsBase, AbsTop
  <2>5. WindowInside' /\ OwnerInv' /\ ThiefInv' /\ EmptyInv'
    BY <1>0, <1>14, <2>4 DEF OwnerUnlock, WindowInside, OwnerInv, ThiefInv, EmptyInv
  <2>6. QED
    BY <2>1, <2>2, <2>3, <2>5 DEF QueueInv
\* What the owner does with the lock.
<1>15. ASSUME PushMove, UNCHANGED enablePass
       PROVE  QueueInv'
  <2>0. AbsBase = base /\ AbsTop = top /\ AbsTop' = top' /\ \A q \in Thieves : tpc[q] \notin CriticalPcs
    BY <1>0, <1>15, OwnerAlone DEF PushMove, AbsTop
  <2>a. base \in 0..NEntries /\ top \in 0..NEntries /\ base <= top
    BY <1>0, <2>0 DEF WindowInside, TypeOK
  <2>1. TypeOK'
    BY <1>0, <1>15, <2>a DEF PushMove, MoveEntries, MoveOverflows, TypeOK, OwnerPcs, LockedPcs
  <2>2. LP!LockInv'
    BY <1>0, <1>15, LockStep DEF PushMove
  <2>3. LockUse'
    BY <1>0, <1>15 DEF PushMove, LockUse
  <2>4. AbsBase' = base'
    BY <1>15, <2>0 DEF PushMove, AbsBase, CriticalPcs
  <2>5. WindowInside'
    BY <1>0, <1>15, <2>0, <2>4, <2>a DEF PushMove, MoveEntries, MoveOverflows, WindowInside
  <2>6. OwnerInv'
    BY <1>0, <1>15, <2>a DEF PushMove, MoveEntries, MoveOverflows, OwnerInv
  <2>7. ThiefInv'
    BY <1>0, <1>15, <2>0 DEF PushMove, ThiefInv, CriticalPcs
  <2>8. EmptyInv'
    BY <1>0, <1>15, <2>0, <2>4, <2>a DEF PushMove, MoveEntries, MoveOverflows, EmptyInv, CriticalPcs
  <2>9. QED
    BY <2>1, <2>2, <2>3, <2>5, <2>6, <2>7, <2>8 DEF QueueInv
<1>16. ASSUME PopRebalance, UNCHANGED enablePass
       PROVE  QueueInv'
  <2>0. AbsBase = base /\ AbsTop = top /\ AbsTop' = top' /\ \A q \in Thieves : tpc[q] \notin CriticalPcs
    BY <1>0, <1>16, OwnerAlone DEF PopRebalance, AbsTop
  <2>a. base \in 0..NEntries /\ top \in 0..NEntries /\ base <= top
    BY <1>0, <2>0 DEF WindowInside, TypeOK
  <2>b. (NEntries - top + 1) \div 2 \in 0..NEntries
    BY <2>a
  <2>1. TypeOK'
    BY <1>0, <1>16, <2>a, <2>b DEF PopRebalance, MoveEntries, MoveOverflows, TypeOK, OwnerPcs, LockedPcs
  <2>2. LP!LockInv'
    BY <1>0, <1>16, LockStep DEF PopRebalance
  <2>3. LockUse'
    BY <1>0, <1>16 DEF PopRebalance, LockUse
  <2>4. AbsBase' = base'
    BY <1>16, <2>0 DEF PopRebalance, AbsBase, CriticalPcs
  <2>5. WindowInside'
    BY <1>0, <1>16, <2>0, <2>4, <2>a, <2>b DEF PopRebalance, MoveEntries, MoveOverflows, WindowInside
  <2>6. OwnerInv'
    BY <1>0, <1>16, <2>a, <2>b DEF PopRebalance, MoveEntries, MoveOverflows, OwnerInv
  <2>7. ThiefInv'
    BY <1>0, <1>16, <2>0 DEF PopRebalance, ThiefInv, CriticalPcs
  <2>8. EmptyInv'
    BY <1>0, <1>16, <2>0, <2>4, <2>a, <2>b DEF PopRebalance, MoveEntries, MoveOverflows, EmptyInv, CriticalPcs
  <2>9. QED
    BY <2>1, <2>2, <2>3, <2>5, <2>6, <2>7, <2>8 DEF QueueInv
<1>17. ASSUME PopSlow, UNCHANGED enablePass
       PROVE  QueueInv'
  <2>0. AbsBase = base /\ AbsTop = top /\ AbsTop' = top' /\ \A q \in Thieves : tpc[q] \notin CriticalPcs
    BY <1>0, <1>17, OwnerAlone DEF PopSlow, AbsTop
  <2>a. base \in 0..NEntries /\ top \in 0..NEntries /\ base <= top /\ InitialPos \in 0..NEntries
    BY <1>0, <2>0 DEF WindowInside, TypeOK, InitialPos
  <2>b. \/ base < top - 1 /\ top' = top - 1 /\ base' = base /\ (localEmpty' => localEmpty)
        \/ top' = InitialPos /\ base' = InitialPos
    BY <1>17, Zenon DEF PopSlow
  <2>c. localEmpty' \in BOOLEAN /\ (localEmpty' => localEmpty \/ ~enablePass)
    BY <1>0, <1>17, Zenon DEF PopSlow, TypeOK
  <2>d. opc' = "unlock" /\ UNCHANGED <<lockVars, slots, callVars, thiefVars, next, enablePass>>
    BY <1>17, Zenon DEF PopSlow
  <2>1. TypeOK'
    BY <1>0, <2>a, <2>b, <2>c, <2>d DEF TypeOK, OwnerPcs, LockedPcs
  <2>2. LP!LockInv'
    BY <1>0, <1>17, LockStep DEF PopSlow
  <2>3. LockUse'
    BY <1>0, <1>17 DEF PopSlow, LockUse
  <2>4. AbsBase' = base'
    BY <1>17, <2>0 DEF PopSlow, AbsBase, CriticalPcs
  <2>5. WindowInside'
    BY <2>0, <2>4, <2>a, <2>b, <2>d DEF WindowInside
  <2>6. OwnerInv'
    BY <2>d DEF OwnerInv
  <2>7. ThiefInv'
    BY <1>0, <2>d, <2>0 DEF ThiefInv, CriticalPcs
  <2>8. EmptyInv'
    <3>0. localEmpty => base = top
      BY <1>0, <2>0, Zenon DEF EmptyInv
    <3>1. localEmpty' => ~enablePass'
      BY <1>0, <2>c, <2>d, Zenon DEF EmptyInv
    <3>2. localEmpty' => base' = top'
      BY <2>a, <2>b, <3>0
    <3>3. \A p \in Thieves : tpc'[p] \notin {"stealGet", "stolen"}
      BY <2>0, <2>d DEF CriticalPcs
    <3>4. QED
      BY <2>0, <2>4, <3>1, <3>2, <3>3, Zenon DEF EmptyInv
  <2>9. QED
    BY <2>1, <2>2, <2>3, <2>5, <2>6, <2>7, <2>8 DEF QueueInv
<1>18. ASSUME VisitEntries, UNCHANGED enablePass
       PROVE  QueueInv'
  <2>0. AbsBase = base /\ AbsTop = top /\ AbsTop' = top' /\ \A q \in Thieves : tpc[q] \notin CriticalPcs
    BY <1>0, <1>18, OwnerAlone DEF VisitEntries, AbsTop
  <2>a. base \in 0..NEntries /\ top \in 0..NEntries /\ base <= top
    BY <1>0, <2>0 DEF WindowInside, TypeOK
  <2>1. TypeOK'
    BY <1>0, <1>18, <2>a DEF VisitEntries, TypeOK, OwnerPcs, LockedPcs
  <2>2. LP!LockInv'
    BY <1>0, <1>18, LockStep DEF VisitEntries
  <2>3. LockUse'
    BY <1>0, <1>18 DEF VisitEntries, LockUse
  <2>4. AbsBase' = base'
    BY <1>18, <2>0 DEF VisitEntries, AbsBase, CriticalPcs
  <2>5. WindowInside'
    BY <1>0, <1>18, <2>0, <2>4, <2>a DEF VisitEntries, WindowInside
  <2>6. OwnerInv'
    BY <1>0, <1>18, <2>a DEF VisitEntries, OwnerInv
  <2>7. ThiefInv'
    BY <1>0, <1>18, <2>0 DEF VisitEntries, ThiefInv, CriticalPcs
  <2>8. EmptyInv'
    BY <1>0, <1>18, <2>0, <2>4, <2>a DEF VisitEntries, EmptyInv, CriticalPcs
  <2>9. QED
    BY <2>1, <2>2, <2>3, <2>5, <2>6, <2>7, <2>8 DEF QueueInv
\* The lock attempts of thieves and passers.
<1>19. ASSUME NEW p \in Thieves, StealLock(p), UNCHANGED enablePass
       PROVE  QueueInv'
  <2>0. /\ tpc[p] \in {"idle", "stealLock"}
        /\ tpc' = [tpc EXCEPT ![p] = tpc'[p]] /\ tpc'[p] \in {"idle", "steal", "stealLock"}
        /\ UNCHANGED <<top, base, slots, opc, weak, arg, ret, localEmpty, tb, held, next, enablePass>>
    BY <1>0, <1>19 DEF StealLock, TypeOK
  <2>1. TypeOK'
    BY <1>0, <2>0 DEF TypeOK, ThiefPcs, CriticalPcs
  <2>2. LP!LockInv'
    BY <1>0, <1>19, LockStep
    DEF StealLock, LP!Next, L!Trylock, LP!Trylock, L!Lock, LP!Lock, L!Cas, LP!Cas
  <2>3. LockUse'
    BY <1>0, <1>19
    DEF StealLock, L!Trylock, L!Lock, L!Cas, LockUse, LP!LockInv, LP!TypeOK, TypeOK, CriticalPcs
  <2>4. AbsBase' = AbsBase /\ AbsTop' = AbsTop
    BY <1>0, <2>0 DEF AbsBase, AbsTop, TypeOK
  <2>5. WindowInside' /\ OwnerInv' /\ ThiefInv' /\ EmptyInv'
    BY <1>0, <2>0, <2>4 DEF WindowInside, OwnerInv, ThiefInv, EmptyInv, TypeOK
  <2>6. QED
    BY <2>1, <2>2, <2>3, <2>5 DEF QueueInv
<1>20. ASSUME NEW p \in Thieves, PassCall(p), UNCHANGED enablePass
       PROVE  QueueInv'
  <2>1. TypeOK'
    BY <1>0, <1>20 DEF PassCall, TypeOK, ThiefPcs, Values
  <2>2. LP!LockInv'
    BY <1>0, <1>20, LockStep DEF PassCall
  <2>3. LockUse'
    BY <1>0, <1>20 DEF PassCall, LockUse, TypeOK, CriticalPcs
  <2>4. AbsBase' = AbsBase /\ AbsTop' = AbsTop
    BY <1>0, <1>20 DEF PassCall, AbsBase, AbsTop, TypeOK
  <2>5. WindowInside' /\ OwnerInv' /\ EmptyInv'
    BY <1>0, <1>20, <2>4 DEF PassCall, WindowInside, OwnerInv, EmptyInv, TypeOK
  <2>6. ThiefInv'
    BY <1>0, <1>20 DEF PassCall, ThiefInv, TypeOK, Entries
  <2>7. QED
    BY <2>1, <2>2, <2>3, <2>5, <2>6 DEF QueueInv
<1>21. ASSUME NEW p \in Thieves, PassLock(p), UNCHANGED enablePass
       PROVE  QueueInv'
  <2>0. /\ tpc[p] = "passLock"
        /\ tpc' = [tpc EXCEPT ![p] = tpc'[p]] /\ tpc'[p] \in {"pass", "passLock"}
        /\ UNCHANGED <<top, base, slots, opc, weak, arg, ret, localEmpty, tb, held, next, enablePass>>
    BY <1>0, <1>21 DEF PassLock, TypeOK
  <2>1. TypeOK'
    BY <1>0, <2>0 DEF TypeOK, ThiefPcs, CriticalPcs
  <2>2. LP!LockInv'
    BY <1>0, <1>21, LockStep DEF PassLock, LP!Next, L!Lock, LP!Lock, L!Cas, LP!Cas
  <2>3. LockUse'
    BY <1>0, <1>21
    DEF PassLock, L!Lock, L!Cas, LockUse, LP!LockInv, LP!TypeOK, TypeOK, CriticalPcs
  <2>4. AbsBase' = AbsBase /\ AbsTop' = AbsTop
    BY <1>0, <2>0 DEF AbsBase, AbsTop, TypeOK
  <2>5. WindowInside' /\ OwnerInv' /\ ThiefInv' /\ EmptyInv'
    BY <1>0, <2>0, <2>4 DEF WindowInside, OwnerInv, ThiefInv, EmptyInv, TypeOK
  <2>6. QED
    BY <2>1, <2>2, <2>3, <2>5 DEF QueueInv
\* What a thief or passer does with the lock.
<1>22. ASSUME NEW p \in Thieves, StealBase(p), UNCHANGED enablePass
       PROVE  QueueInv'
  <2>0. /\ AbsBase = (IF tpc[p] \in {"stealTop", "stealUndo"} THEN base - 1 ELSE base)
        /\ \A q \in Thieves : q # p => tpc[q] \notin CriticalPcs
    BY <1>22, ThiefAlone DEF StealBase, CriticalPcs
  <2>1. TypeOK'
    BY <1>0, <1>22, <2>0 DEF StealBase, TypeOK, ThiefPcs, CriticalPcs, Values, NoEntry
  <2>2. LP!LockInv'
    BY <1>0, <1>22, LockStep DEF StealBase
  <2>3. LockUse'
    BY <1>0, <1>22 DEF StealBase, LockUse, TypeOK, CriticalPcs
  <2>4. /\ AbsBase' = (IF tpc'[p] \in {"stealTop", "stealUndo"} THEN base' - 1 ELSE base')
        /\ \A q \in Thieves : q # p => tpc'[q] = tpc[q] /\ tb'[q] = tb[q] /\ held'[q] = held[q]
    BY <1>0, <1>22, <2>0 DEF StealBase, AbsBase, TypeOK, CriticalPcs
  <2>5. WindowInside'
    BY <1>0, <1>22, <2>0, <2>4 DEF StealBase, WindowInside, AbsTop, TypeOK, ThiefInv
  <2>6. OwnerInv'
    BY <1>0, <1>22, <2>0 DEF StealBase, OwnerInv
  <2>7. ThiefInv'
    BY <1>0, <1>22, <2>0, <2>4 DEF StealBase, ThiefInv, TypeOK, CriticalPcs, WindowInside, AbsTop
  <2>8. EmptyInv'
    BY <1>0, <1>22, <2>0, <2>4 DEF StealBase, EmptyInv, AbsTop, ThiefInv, TypeOK, CriticalPcs
  <2>9. QED
    BY <2>1, <2>2, <2>3, <2>5, <2>6, <2>7, <2>8 DEF QueueInv
<1>23. ASSUME NEW p \in Thieves, StealTop(p), UNCHANGED enablePass
       PROVE  QueueInv'
  <2>0. /\ AbsBase = (IF tpc[p] \in {"stealTop", "stealUndo"} THEN base - 1 ELSE base)
        /\ \A q \in Thieves : q # p => tpc[q] \notin CriticalPcs
    BY <1>23, ThiefAlone DEF StealTop, CriticalPcs
  <2>1. TypeOK'
    BY <1>0, <1>23, <2>0 DEF StealTop, TypeOK, ThiefPcs, CriticalPcs, Values, NoEntry
  <2>2. LP!LockInv'
    BY <1>0, <1>23, LockStep DEF StealTop
  <2>3. LockUse'
    BY <1>0, <1>23 DEF StealTop, LockUse, TypeOK, CriticalPcs
  <2>4. /\ AbsBase' = (IF tpc'[p] \in {"stealTop", "stealUndo"} THEN base' - 1 ELSE base')
        /\ \A q \in Thieves : q # p => tpc'[q] = tpc[q] /\ tb'[q] = tb[q] /\ held'[q] = held[q]
    BY <1>0, <1>23, <2>0 DEF StealTop, AbsBase, TypeOK, CriticalPcs
  <2>5. WindowInside'
    BY <1>0, <1>23, <2>0, <2>4 DEF StealTop, WindowInside, AbsTop, TypeOK, ThiefInv
  <2>6. OwnerInv'
    BY <1>0, <1>23, <2>0 DEF StealTop, OwnerInv
  <2>7. ThiefInv'
    BY <1>0, <1>23, <2>0, <2>4 DEF StealTop, ThiefInv, TypeOK, CriticalPcs, WindowInside, AbsTop
  <2>8. EmptyInv'
    BY <1>0, <1>23, <2>0, <2>4 DEF StealTop, EmptyInv, AbsTop, ThiefInv, TypeOK, CriticalPcs
  <2>9. QED
    BY <2>1, <2>2, <2>3, <2>5, <2>6, <2>7, <2>8 DEF QueueInv
<1>24. ASSUME NEW p \in Thieves, StealGet(p), UNCHANGED enablePass
       PROVE  QueueInv'
  <2>0. /\ AbsBase = (IF tpc[p] \in {"stealTop", "stealUndo"} THEN base - 1 ELSE base)
        /\ \A q \in Thieves : q # p => tpc[q] \notin CriticalPcs
    BY <1>24, ThiefAlone DEF StealGet, CriticalPcs
  <2>1. TypeOK'
    BY <1>0, <1>24, <2>0 DEF StealGet, TypeOK, ThiefPcs, CriticalPcs, Values, NoEntry, ThiefInv, WindowInside, AbsTop
  <2>2. LP!LockInv'
    BY <1>0, <1>24, LockStep DEF StealGet
  <2>3. LockUse'
    BY <1>0, <1>24 DEF StealGet, LockUse, TypeOK, CriticalPcs
  <2>4. /\ AbsBase' = (IF tpc'[p] \in {"stealTop", "stealUndo"} THEN base' - 1 ELSE base')
        /\ \A q \in Thieves : q # p => tpc'[q] = tpc[q] /\ tb'[q] = tb[q] /\ held'[q] = held[q]
    BY <1>0, <1>24, <2>0 DEF StealGet, AbsBase, TypeOK, CriticalPcs
  <2>5. WindowInside'
    BY <1>0, <1>24, <2>0, <2>4 DEF StealGet, WindowInside, AbsTop, TypeOK, ThiefInv
  <2>6. OwnerInv'
    BY <1>0, <1>24, <2>0 DEF StealGet, OwnerInv
  <2>7. ThiefInv'
    BY <1>0, <1>24, <2>0, <2>4 DEF StealGet, ThiefInv, TypeOK, CriticalPcs, WindowInside, AbsTop
  <2>8. EmptyInv'
    BY <1>0, <1>24, <2>0, <2>4 DEF StealGet, EmptyInv, AbsTop, ThiefInv, TypeOK, CriticalPcs
  <2>9. QED
    BY <2>1, <2>2, <2>3, <2>5, <2>6, <2>7, <2>8 DEF QueueInv
<1>25. ASSUME NEW p \in Thieves, StealUndo(p), UNCHANGED enablePass
       PROVE  QueueInv'
  <2>0. /\ AbsBase = (IF tpc[p] \in {"stealTop", "stealUndo"} THEN base - 1 ELSE base)
        /\ \A q \in Thieves : q # p => tpc[q] \notin CriticalPcs
    BY <1>25, ThiefAlone DEF StealUndo, CriticalPcs
  <2>1. TypeOK'
    BY <1>0, <1>25, <2>0 DEF StealUndo, TypeOK, ThiefPcs, CriticalPcs, Values, NoEntry
  <2>2. LP!LockInv'
    BY <1>0, <1>25, LockStep DEF StealUndo
  <2>3. LockUse'
    BY <1>0, <1>25 DEF StealUndo, LockUse, TypeOK, CriticalPcs
  <2>4. /\ AbsBase' = (IF tpc'[p] \in {"stealTop", "stealUndo"} THEN base' - 1 ELSE base')
        /\ \A q \in Thieves : q # p => tpc'[q] = tpc[q] /\ tb'[q] = tb[q] /\ held'[q] = held[q]
    BY <1>0, <1>25, <2>0 DEF StealUndo, AbsBase, TypeOK, CriticalPcs
  <2>5. WindowInside'
    BY <1>0, <1>25, <2>0, <2>4 DEF StealUndo, WindowInside, AbsTop, TypeOK, ThiefInv
  <2>6. OwnerInv'
    BY <1>0, <1>25, <2>0 DEF StealUndo, OwnerInv
  <2>7. ThiefInv'
    BY <1>0, <1>25, <2>0, <2>4 DEF StealUndo, ThiefInv, TypeOK, CriticalPcs, WindowInside, AbsTop
  <2>8. EmptyInv'
    BY <1>0, <1>25, <2>0, <2>4 DEF StealUndo, EmptyInv, AbsTop, ThiefInv, TypeOK, CriticalPcs
  <2>9. QED
    BY <2>1, <2>2, <2>3, <2>5, <2>6, <2>7, <2>8 DEF QueueInv
<1>26. ASSUME NEW p \in Thieves, AbortSteal(p), UNCHANGED enablePass
       PROVE  QueueInv'
  <2>0. /\ AbsBase = (IF tpc[p] \in {"stealTop", "stealUndo"} THEN base - 1 ELSE base)
        /\ \A q \in Thieves : q # p => tpc[q] \notin CriticalPcs
    BY <1>26, ThiefAlone DEF AbortSteal, CriticalPcs
  <2>1. TypeOK'
    BY <1>0, <1>26, <2>0 DEF AbortSteal, TypeOK, ThiefPcs, CriticalPcs, Values, NoEntry
  <2>2. LP!LockInv'
    BY <1>0, <1>26, LockStep DEF AbortSteal
  <2>3. LockUse'
    BY <1>0, <1>26 DEF AbortSteal, LockUse, TypeOK, CriticalPcs
  <2>4. /\ AbsBase' = (IF tpc'[p] \in {"stealTop", "stealUndo"} THEN base' - 1 ELSE base')
        /\ \A q \in Thieves : q # p => tpc'[q] = tpc[q] /\ tb'[q] = tb[q] /\ held'[q] = held[q]
    BY <1>0, <1>26, <2>0 DEF AbortSteal, AbsBase, TypeOK, CriticalPcs
  <2>5. WindowInside'
    BY <1>0, <1>26, <2>0, <2>4 DEF AbortSteal, WindowInside, AbsTop, TypeOK, ThiefInv
  <2>6. OwnerInv'
    BY <1>0, <1>26, <2>0 DEF AbortSteal, OwnerInv
  <2>7. ThiefInv'
    BY <1>0, <1>26, <2>0, <2>4 DEF AbortSteal, ThiefInv, TypeOK, CriticalPcs, WindowInside, AbsTop
  <2>8. EmptyInv'
    BY <1>0, <1>26, <2>0, <2>4 DEF AbortSteal, EmptyInv, AbsTop, ThiefInv, TypeOK, CriticalPcs
  <2>9. QED
    BY <2>1, <2>2, <2>3, <2>5, <2>6, <2>7, <2>8 DEF QueueInv
<1>27. ASSUME NEW p \in Thieves, ThiefUnlock(p), UNCHANGED enablePass
       PROVE  QueueInv'
  <2>0. /\ AbsBase = (IF tpc[p] \in {"stealTop", "stealUndo"} THEN base - 1 ELSE base)
        /\ \A q \in Thieves : q # p => tpc[q] \notin CriticalPcs
    BY <1>27, ThiefAlone DEF ThiefUnlock, CriticalPcs
  <2>1. TypeOK'
    BY <1>0, <1>27, <2>0 DEF ThiefUnlock, TypeOK, ThiefPcs, CriticalPcs, Values, NoEntry
  <2>2. LP!LockInv'
    BY <1>0, <1>27, LockStep DEF ThiefUnlock, LP!Next, L!Unlock, LP!Unlock
  <2>3. LockUse'
    BY <1>0, <1>27 DEF ThiefUnlock, LockUse, TypeOK, CriticalPcs, L!Unlock, LP!LockInv, LP!TypeOK
  <2>4. /\ AbsBase' = (IF tpc'[p] \in {"stealTop", "stealUndo"} THEN base' - 1 ELSE base')
        /\ \A q \in Thieves : q # p => tpc'[q] = tpc[q] /\ tb'[q] = tb[q] /\ held'[q] = held[q]
    BY <1>0, <1>27, <2>0 DEF ThiefUnlock, AbsBase, TypeOK, CriticalPcs
  <2>5. WindowInside'
    BY <1>0, <1>27, <2>0, <2>4 DEF ThiefUnlock, WindowInside, AbsTop, TypeOK, ThiefInv
  <2>6. OwnerInv'
    BY <1>0, <1>27, <2>0 DEF ThiefUnlock, OwnerInv
  <2>7. ThiefInv'
    BY <1>0, <1>27, <2>0, <2>4 DEF ThiefUnlock, ThiefInv, TypeOK, CriticalPcs, WindowInside, AbsTop
  <2>8. EmptyInv'
    BY <1>0, <1>27, <2>0, <2>4 DEF ThiefUnlock, EmptyInv, AbsTop, ThiefInv, TypeOK, CriticalPcs
  <2>9. QED
    BY <2>1, <2>2, <2>3, <2>5, <2>6, <2>7, <2>8 DEF QueueInv
<1>28. ASSUME NEW p \in Thieves, PassPut(p), UNCHANGED enablePass
       PROVE  QueueInv'
  <2>0. /\ AbsBase = (IF tpc[p] \in {"stealTop", "stealUndo"} THEN base - 1 ELSE base)
        /\ \A q \in Thieves : q # p => tpc[q] \notin CriticalPcs
    BY <1>28, ThiefAlone DEF PassPut, CriticalPcs
  <2>1. TypeOK'
    BY <1>0, <1>28, <2>0 DEF PassPut, TypeOK, ThiefPcs, CriticalPcs, Values, NoEntry
  <2>2. LP!LockInv'
    BY <1>0, <1>28, LockStep DEF PassPut
  <2>3. LockUse'
    BY <1>0, <1>28 DEF PassPut, LockUse, TypeOK, CriticalPcs
  <2>4. /\ AbsBase' = (IF tpc'[p] \in {"stealTop", "stealUndo"} THEN base' - 1 ELSE base')
        /\ \A q \in Thieves : q # p => tpc'[q] = tpc[q] /\ tb'[q] = tb[q] /\ held'[q] = held[q]
    BY <1>0, <1>28, <2>0 DEF PassPut, AbsBase, TypeOK, CriticalPcs
  <2>5. WindowInside'
    BY <1>0, <1>28, <2>0, <2>4 DEF PassPut, WindowInside, AbsTop, TypeOK, ThiefInv
  <2>6. OwnerInv'
    BY <1>0, <1>28, <2>0 DEF PassPut, OwnerInv, WindowInside, AbsTop, TypeOK
  <2>7. ThiefInv'
    BY <1>0, <1>28, <2>0, <2>4 DEF PassPut, ThiefInv, TypeOK, CriticalPcs, WindowInside, AbsTop
  <2>8. EmptyInv'
    BY <1>0, <1>28, <2>0, <2>4 DEF PassPut, EmptyInv, AbsTop, ThiefInv, TypeOK, CriticalPcs
  <2>9. QED
    BY <2>1, <2>2, <2>3, <2>5, <2>6, <2>7, <2>8 DEF QueueInv
<1>29. ASSUME NEW p \in Thieves, PassBase(p), UNCHANGED enablePass
       PROVE  QueueInv'
  <2>0. /\ AbsBase = (IF tpc[p] \in {"stealTop", "stealUndo"} THEN base - 1 ELSE base)
        /\ \A q \in Thieves : q # p => tpc[q] \notin CriticalPcs
    BY <1>29, ThiefAlone DEF PassBase, CriticalPcs
  <2>1. TypeOK'
    BY <1>0, <1>29, <2>0 DEF PassBase, TypeOK, ThiefPcs, CriticalPcs, Values, NoEntry
  <2>2. LP!LockInv'
    BY <1>0, <1>29, LockStep DEF PassBase
  <2>3. LockUse'
    BY <1>0, <1>29 DEF PassBase, LockUse, TypeOK, CriticalPcs
  <2>4. /\ AbsBase' = (IF tpc'[p] \in {"stealTop", "stealUndo"} THEN base' - 1 ELSE base')
        /\ \A q \in Thieves : q # p => tpc'[q] = tpc[q] /\ tb'[q] = tb[q] /\ held'[q] = held[q]
    BY <1>0, <1>29, <2>0 DEF PassBase, AbsBase, TypeOK, CriticalPcs
  <2>5. WindowInside'
    BY <1>0, <1>29, <2>0, <2>4 DEF PassBase, WindowInside, AbsTop, TypeOK, ThiefInv
  <2>6. OwnerInv'
    BY <1>0, <1>29, <2>0 DEF PassBase, OwnerInv
  <2>7. ThiefInv'
    BY <1>0, <1>29, <2>0, <2>4 DEF PassBase, ThiefInv, TypeOK, CriticalPcs, WindowInside, AbsTop
  <2>8. EmptyInv'
    BY <1>0, <1>29, <2>0, <2>4 DEF PassBase, EmptyInv, AbsTop, ThiefInv, TypeOK, CriticalPcs
  <2>9. QED
    BY <2>1, <2>2, <2>3, <2>5, <2>6, <2>7, <2>8 DEF QueueInv
<1>30. ASSUME NEW p \in Thieves, PassRetry(p), UNCHANGED enablePass
       PROVE  QueueInv'
  <2>0. /\ AbsBase = (IF tpc[p] \in {"stealTop", "stealUndo"} THEN base - 1 ELSE base)
        /\ \A q \in Thieves : q # p => tpc[q] \notin CriticalPcs
    BY <1>30, ThiefAlone DEF PassRetry, CriticalPcs
  <2>1. TypeOK'
    BY <1>0, <1>30, <2>0 DEF PassRetry, TypeOK, ThiefPcs, CriticalPcs, Values, NoEntry
  <2>2. LP!LockInv'
    BY <1>0, <1>30, LockStep DEF PassRetry, LP!Next, L!Unlock, LP!Unlock
  <2>3. LockUse'
    BY <1>0, <1>30 DEF PassRetry, LockUse, TypeOK, CriticalPcs, L!Unlock, LP!LockInv, LP!TypeOK
  <2>4. /\ AbsBase' = (IF tpc'[p] \in {"stealTop", "stealUndo"} THEN base' - 1 ELSE base')
        /\ \A q \in Thieves : q # p => tpc'[q] = tpc[q] /\ tb'[q] = tb[q] /\ held'[q] = held[q]
    BY <1>0, <1>30, <2>0 DEF PassRetry, AbsBase, TypeOK, CriticalPcs
  <2>5. WindowInside'
    BY <1>0, <1>30, <2>0, <2>4 DEF PassRetry, WindowInside, AbsTop, TypeOK, ThiefInv
  <2>6. OwnerInv'
    BY <1>0, <1>30, <2>0 DEF PassRetry, OwnerInv
  <2>7. ThiefInv'
    BY <1>0, <1>30, <2>0, <2>4 DEF PassRetry, ThiefInv, TypeOK, CriticalPcs, WindowInside, AbsTop
  <2>8. EmptyInv'
    BY <1>0, <1>30, <2>0, <2>4 DEF PassRetry, EmptyInv, AbsTop, ThiefInv, TypeOK, CriticalPcs
  <2>9. QED
    BY <2>1, <2>2, <2>3, <2>5, <2>6, <2>7, <2>8 DEF QueueInv
<1>31. CASE UNCHANGED vars
  <2>1. LP!LockInv'
    BY <1>0, <1>31, LockStep DEF vars
  <2>2. TypeOK' /\ LockUse' /\ AbsBase' = AbsBase /\ AbsTop' = AbsTop
    BY <1>0, <1>31 DEF vars, TypeOK, LockUse, AbsBase, AbsTop
  <2>3. WindowInside' /\ OwnerInv' /\ ThiefInv' /\ EmptyInv'
    BY <1>0, <1>31, <2>2 DEF vars, WindowInside, OwnerInv, ThiefInv, EmptyInv
  <2>4. QED
    BY <2>1, <2>2, <2>3 DEF QueueInv
<1>32. ASSUME OwnerCall
       PROVE  QueueInv'
  BY <1>1, <1>4, <1>10, <1>32 DEF OwnerCall
<1>33. ASSUME OwnerStep
       PROVE  QueueInv'
  BY <1>2, <1>3, <1>5, <1>6, <1>7, <1>8, <1>9, <1>11, <1>12, <1>13, <1>14, <1>15, <1>16,
     <1>17, <1>18, <1>33
  DEF OwnerStep
<1>34. ASSUME NEW p \in Thieves, ThiefCall(p) \/ ThiefStep(p)
       PROVE  QueueInv'
  BY <1>19, <1>20, <1>21, <1>22, <1>23, <1>24, <1>25, <1>26, <1>27, <1>28, <1>29, <1>30, <1>34
  DEF ThiefCall, ThiefStep
<1>35. QED
  BY <1>31, <1>32, <1>33, <1>34 DEF Next

\* The inductive invariant of the queue, for every number of thieves, every
\* array and both values of EnablePass.
THEOREM QueueInvariant == Spec => []QueueInv
  BY InitQueueInv, NextQueueInv, PTL DEF Spec

\* Between priolock, lock or trylock and unlock, one process is on the queue.
THEOREM CriticalSectionsExclude == Spec => []MutualExclusion
<1>1. QueueInv => MutualExclusion
  BY DEF QueueInv, LP!LockInv, MutualExclusion, LP!MutualExclusion, L!MutualExclusion,
         LP!Holders, L!Holders
<1>2. QED
  BY <1>1, QueueInvariant, PTL

\* When local_empty_ is set nothing is in the queue and no thief has anything
\* it could put back: the early returns of pop and for_each_entry lose nothing.
THEOREM LocalEmptySound == Spec => []LocalEmptyIsTrue
<1>1. QueueInv => LocalEmptyIsTrue
  <2> SUFFICES ASSUME QueueInv, localEmpty
               PROVE  AbsDeque = <<>> /\ \A p \in Thieves : AbsLimbo[p] = <<>>
    BY DEF LocalEmptyIsTrue
  <2>1. AbsBase = AbsTop /\ AbsBase \in Int
    BY DEF QueueInv, EmptyInv, TypeOK, AbsBase
  <2>2. AbsDeque = <<>>
    BY <2>1 DEF AbsDeque, Window
  <2>3. \A p \in Thieves : AbsLimbo[p] = <<>>
    BY DEF QueueInv, EmptyInv, AbsLimbo
  <2>4. QED
    BY <2>2, <2>3
<1>2. QED
  BY <1>1, QueueInvariant, PTL

-----------------------------------------------------------------------------
(* Windows of the array.                                                    *)

\* The entries s[b], ..., s[t - 1] as a sequence.
Part(s, b, t) == [i \in 1..(t - b) |-> s[b + i - 1]]

Arrays == [0..(NEntries - 1) -> Values]

\* b..t-1 lies in the array.
Inside(b, t) == b \in Int /\ t \in Int /\ 0 <= b /\ b <= t /\ t <= NEntries

\* A part of the array is a sequence of its length.
LEMMA PartType ==
  ASSUME NEW s \in Arrays, NEW b, NEW t, Inside(b, t)
  PROVE  Part(s, b, t) \in Seq(Values) /\ Len(Part(s, b, t)) = t - b
BY SizeAssumption DEF Part, Arrays, Inside

\* The part between equal bounds is the empty sequence.
LEMMA PartEmpty ==
  ASSUME NEW s, NEW b \in Int
  PROVE  Part(s, b, b) = <<>>
BY DEF Part

\* An entry more at the tail.
LEMMA PartAppend ==
  ASSUME NEW s \in Arrays, NEW b, NEW t, Inside(b, t), t < NEntries
  PROVE  Part(s, b, t + 1) = Append(Part(s, b, t), s[t])
BY SizeAssumption, PartType DEF Part, Arrays, Inside

\* The last entry, and the entries before it.
LEMMA PartFront ==
  ASSUME NEW s \in Arrays, NEW b, NEW t, Inside(b, t), b < t
  PROVE  /\ Part(s, b, t) # <<>>
         /\ Part(s, b, t)[Len(Part(s, b, t))] = s[t - 1]
         /\ SubSeq(Part(s, b, t), 1, Len(Part(s, b, t)) - 1) = Part(s, b, t - 1)
<1>1. Part(s, b, t) \in Seq(Values) /\ Len(Part(s, b, t)) = t - b
  BY PartType
<1>2. Part(s, b, t)[t - b] = s[t - 1]
  BY DEF Part, Inside
<1>3. SubSeq(Part(s, b, t), 1, t - b - 1) = Part(s, b, t - 1)
  BY <1>1 DEF Part, Inside
<1>4. QED
  BY <1>1, <1>2, <1>3 DEF Inside

\* The first entry, and the entries after it.
LEMMA PartTail ==
  ASSUME NEW s \in Arrays, NEW b, NEW t, Inside(b, t), b < t
  PROVE  /\ Part(s, b, t) # <<>>
         /\ Head(Part(s, b, t)) = s[b]
         /\ Tail(Part(s, b, t)) = Part(s, b + 1, t)
         /\ <<s[b]>> \o Part(s, b + 1, t) = Part(s, b, t)
<1>1. Part(s, b, t) \in Seq(Values) /\ Len(Part(s, b, t)) = t - b
  BY PartType
<1>2. Part(s, b + 1, t) \in Seq(Values) /\ Len(Part(s, b + 1, t)) = t - b - 1
  <2>1. Inside(b + 1, t) /\ t - (b + 1) = t - b - 1
    BY SizeAssumption DEF Inside
  <2>2. QED
    BY <2>1, PartType
<1>3. Head(Part(s, b, t)) = s[b]
  BY <1>1 DEF Part, Inside
<1>4. Tail(Part(s, b, t)) = Part(s, b + 1, t)
  BY <1>1, SMTT(20) DEF Part, Inside
<1>5. <<s[b]>> \o Part(s, b + 1, t) = Part(s, b, t)
  BY <1>1, <1>2 DEF Part, Inside
<1>6. QED
  BY <1>1, <1>3, <1>4, <1>5 DEF Inside

-----------------------------------------------------------------------------
(* Refinement.                                                              *)

\* The deque of the mapping is a window inside the array.
LEMMA MappedWindow ==
  ASSUME QueueInv
  PROVE  /\ AbsDeque = Part(slots, AbsBase, AbsTop)
         /\ slots \in Arrays /\ Inside(AbsBase, AbsTop)
<1>1. AbsBase \in Int /\ AbsTop \in Int
  BY DEF QueueInv, TypeOK, AbsBase, AbsTop
<1>2. QED
  BY <1>1 DEF AbsDeque, Window, Part, QueueInv, WindowInside, TypeOK, Arrays, Inside

\* move_entries moves the window with its entries.
LEMMA MoveKeepsEntries ==
  ASSUME NEW o \in Int, base \in Int, top \in Int, 0 <= base + o, top + o <= NEntries,
         MoveEntries(o)
  PROVE  Part(slots, base, top) = Part(slots', base', top')
<1>1. base' = base + o /\ top' = top + o /\ top' - base' = top - base
  BY DEF MoveEntries
<1>2. ASSUME NEW i \in 1..(top - base)
      PROVE  slots[base + i - 1] = slots'[base' + i - 1]
  <2>1. /\ base' + i - 1 \in 0..(NEntries - 1) /\ base' + i - 1 - o = base + i - 1
        /\ base' + i - 1 \in (base + o)..(top + o - 1)
    BY <1>1, SizeAssumption
  <2>2. slots'[base' + i - 1] = slots[base' + i - 1 - o]
    BY <2>1 DEF MoveEntries
  <2>3. QED
    BY <2>1, <2>2
<1>3. QED
  BY <1>1, <1>2 DEF Part

\* Every step of the queue is a step of the deque, or leaves it as it is.
LEMMA NextRefines ==
  ASSUME QueueInv, QueueInv', [Next]_vars
  PROVE  [Deque!Next]_Deque!vars
<1> USE SizeAssumption, OwnerAssumption
    DEF lockVars, queueVars, callVars, thiefVars, ownerState, OwnerGoto, OwnerHolds, ThiefGoto
<1>0. /\ TypeOK /\ LP!LockInv /\ LockUse
      /\ WindowInside /\ OwnerInv /\ ThiefInv /\ EmptyInv
  BY DEF QueueInv
<1>a. /\ AbsDeque = Part(slots, AbsBase, AbsTop)
      /\ slots \in Arrays /\ Inside(AbsBase, AbsTop)
  BY MappedWindow
<1>c. /\ AbsBase \in Int /\ AbsTop \in Int
      /\ 0 <= AbsBase /\ AbsBase <= AbsTop /\ AbsTop <= NEntries
  BY <1>a DEF Inside
<1>b. /\ AbsDeque' = Part(slots', AbsBase', AbsTop')
      /\ slots' \in Arrays /\ AbsBase' \in Int /\ AbsTop' \in Int
  <2>1. AbsBase' \in Int /\ AbsTop' \in Int
    BY DEF QueueInv, TypeOK, AbsBase, AbsTop
  <2>2. QED
    BY <2>1 DEF AbsDeque, Window, Part, QueueInv, TypeOK, Arrays
\* The calls.
<1>1. ASSUME PushCall \/ PopCall \/ VisitCall
      PROVE  Deque!Call
  <2>1. AbsBase' = AbsBase /\ AbsTop' = AbsTop /\ AbsLimbo' = AbsLimbo
    BY <1>1 DEF PushCall, PopCall, VisitCall, AbsBase, AbsTop, AbsLimbo
  <2>2. AbsDeque' = AbsDeque
    BY <1>1, <1>a, <1>c, <1>b, <2>1 DEF PushCall, PopCall, VisitCall
  <2>3. AbsOp = "idle" /\ AbsOp' \in {"push", "pop", "popWeak", "visit"} /\ ret' = <<>>
    BY <1>1 DEF PushCall, PopCall, VisitCall, AbsOp
  <2>4. QED
    BY <2>1, <2>2, <2>3 DEF Deque!Call
\* Steps inside an operation of the owner.
<1>2. ASSUME \/ OwnerPriolock("pushLock", "pushMove") \/ OwnerPriolock("popRebalance", "popMove")
             \/ OwnerPriolock("popLock", "popSlow") \/ VisitLock \/ OwnerWaited
             \/ OwnerUnlock("pushUnlock", "pushWrite") \/ OwnerUnlock("popMoveUnlock", "pop")
             \/ OwnerUnlock("unlock", "idle")
             \/ PopDecrement \/ PopReadBase \/ PopRestore
      PROVE  UNCHANGED Deque!vars
  <2> USE DEF OwnerPriolock, VisitLock, OwnerWaited, OwnerUnlock, PopDecrement, PopReadBase, PopRestore
  <2>1. AbsBase' = AbsBase /\ AbsTop' = AbsTop /\ AbsLimbo' = AbsLimbo
    BY <1>0, <1>2 DEF AbsBase, AbsTop, AbsLimbo, TypeOK
  <2>2. AbsOp' = AbsOp /\ ret' = ret
    BY <1>2 DEF AbsOp
  <2>3. AbsDeque' = AbsDeque
    BY <1>2, <1>a, <1>c, <1>b, <2>1
  <2>4. QED
    BY <2>1, <2>2, <2>3 DEF Deque!vars
\* move_entries keeps the entries, and push throws only when the array is full.
<1>3. ASSUME PushMove
      PROVE  Deque!PushFull \/ UNCHANGED Deque!vars
  <2>0. /\ AbsBase = base /\ AbsTop = top /\ top = NEntries
        /\ \A q \in Thieves : tpc[q] \notin CriticalPcs
    BY <1>0, <1>3, OwnerAlone DEF PushMove, AbsTop, OwnerInv
  <2>1. AbsLimbo' = AbsLimbo /\ ret' = ret
    BY <1>3, <2>0 DEF PushMove, AbsLimbo, CriticalPcs
  <2>2. AbsBase' = base' /\ AbsTop' = top'
    BY <1>3, <2>0 DEF PushMove, AbsBase, AbsTop, CriticalPcs
  <2> DEFINE offset == -((base + 1) \div 2)
  <2>3. offset \in Int /\ (base > 0 => offset < 0 /\ base + offset >= 0)
    BY <1>a, <1>c, <2>0
  <2>4. CASE base = 0
    <3>1. offset = 0
      <4>1. (base + 1) \div 2 = 0
        BY <2>4
      <4>2. QED
        BY <4>1
    <3>2. AbsDeque' = AbsDeque /\ AbsOp = "push" /\ AbsOp' = "thrown"
      BY <1>3, <1>a, <1>c, <1>b, <2>0, <2>2, <3>1 DEF PushMove, MoveOverflows, AbsOp
    <3>3. Len(AbsDeque) = NEntries
      BY <1>a, <1>c, <2>0, <2>4, PartType
    <3>4. QED
      BY <2>1, <3>2, <3>3 DEF Deque!PushFull
  <2>5. CASE base > 0
    <3>1. ~MoveOverflows(offset)
      BY <1>a, <1>c, <2>0, <2>3, <2>5 DEF MoveOverflows
    <3>2. MoveEntries(offset) /\ opc = "pushMove" /\ opc' = "pushUnlock"
      BY <1>3, <3>1 DEF PushMove
    <3>3. AbsDeque' = AbsDeque
      <4> HIDE DEF offset
      <4>1. Part(slots, base, top) = Part(slots', base', top')
        BY <1>c, <2>0, <2>3, <2>5, <3>2, MoveKeepsEntries
      <4>2. QED
        BY <1>a, <1>c, <1>b, <2>0, <2>2, <4>1
    <3>4. AbsOp' = AbsOp
      BY <3>2 DEF AbsOp
    <3>5. QED
      BY <2>1, <3>3, <3>4 DEF Deque!vars
  <2>6. QED
    BY <1>a, <1>c, <2>0, <2>4, <2>5
<1>4. ASSUME PopRebalance
      PROVE  UNCHANGED Deque!vars
  <2>0. /\ AbsBase = base /\ AbsTop = top /\ top < NEntries
        /\ \A q \in Thieves : tpc[q] \notin CriticalPcs
    BY <1>0, <1>4, OwnerAlone DEF PopRebalance, AbsTop, OwnerInv
  <2>1. AbsLimbo' = AbsLimbo /\ ret' = ret
    BY <1>4, <2>0 DEF PopRebalance, AbsLimbo, CriticalPcs
  <2>2. AbsBase' = base' /\ AbsTop' = top'
    BY <1>4, <2>0 DEF PopRebalance, AbsBase, AbsTop, CriticalPcs
  <2> DEFINE offset == (NEntries - top + 1) \div 2
  <2>3. offset \in Int /\ offset > 0 /\ top + offset <= NEntries
    BY <1>a, <1>c, <2>0
  <2>4. ~MoveOverflows(offset)
    BY <1>a, <1>c, <2>0, <2>3 DEF MoveOverflows
  <2>5. MoveEntries(offset) /\ opc = "popMove" /\ opc' = "popMoveUnlock" /\ weak' = weak
    BY <1>4, <2>4 DEF PopRebalance
  <2>6. AbsDeque' = AbsDeque
    <3> HIDE DEF offset
    <3>1. Part(slots, base, top) = Part(slots', base', top')
      BY <1>c, <2>0, <2>3, <2>5, MoveKeepsEntries
    <3>2. QED
      BY <1>a, <1>c, <1>b, <2>0, <2>2, <3>1
  <2>7. AbsOp' = AbsOp
    BY <2>5 DEF AbsOp
  <2>8. QED
    BY <2>1, <2>6, <2>7 DEF Deque!vars
\* push: the entry is in its slot before top counts it.
<1>5. ASSUME PushWrite
      PROVE  UNCHANGED Deque!vars
  <2>1. AbsBase' = AbsBase /\ AbsTop' = AbsTop /\ AbsTop = top /\ AbsOp' = AbsOp /\ ret' = ret
    BY <1>5 DEF PushWrite, AbsBase, AbsTop, AbsOp
  <2>2. \A i \in 1..(AbsTop - AbsBase) : slots[AbsBase + i - 1] = slots'[AbsBase + i - 1]
    BY <1>0, <1>5, <1>c, <2>1 DEF PushWrite, TypeOK
  <2>3. AbsDeque' = AbsDeque
    BY <1>a, <1>b, <1>c, <2>1, <2>2 DEF Part
  <2>4. ASSUME NEW p \in Thieves, tpc[p] = "stealGet"
        PROVE  slots'[tb[p]] = slots[tb[p]]
    <3>1. AbsBase = base
      BY <2>4, ThiefAlone DEF CriticalPcs
    <3>2. tb[p] \in Int /\ tb[p] < top
      BY <1>0, <1>a, <1>c, <2>1, <2>4, <3>1 DEF ThiefInv, TypeOK
    <3>3. QED
      BY <1>0, <1>5, <3>2 DEF PushWrite, TypeOK
  <2>5. AbsLimbo' = AbsLimbo
    BY <1>5, <2>4 DEF PushWrite, AbsLimbo
  <2>6. QED
    BY <2>1, <2>3, <2>5 DEF Deque!vars
<1>6. ASSUME PushTop
      PROVE  Deque!Push
  <2>1. /\ AbsBase' = AbsBase /\ AbsLimbo' = AbsLimbo /\ slots' = slots /\ ret' = ret
        /\ AbsTop = top /\ AbsTop' = top + 1
        /\ AbsOp = "push" /\ AbsOp' = "idle"
    BY <1>6 DEF PushTop, AbsBase, AbsTop, AbsLimbo, AbsOp
  <2>2. top < NEntries /\ slots[top] \in Entries
    BY <1>0, <1>6 DEF PushTop, OwnerInv
  <2>3. AbsDeque' = Append(AbsDeque, slots[top])
    BY <1>a, <1>c, <1>b, <2>1, <2>2, PartAppend
  <2>4. QED
    BY <2>1, <2>2, <2>3 DEF Deque!Push
\* pop: the early returns.
<1>7. ASSUME PopReturnsNull
      PROVE  Deque!PopNull \/ Deque!PopWeakNull
  <2>1. /\ AbsBase' = AbsBase /\ AbsTop' = AbsTop /\ AbsTop = top /\ AbsLimbo' = AbsLimbo
        /\ slots' = slots /\ ret' = <<>> /\ AbsOp' = "idle"
        /\ AbsOp = IF weak THEN "popWeak" ELSE "pop"
    BY <1>7 DEF PopReturnsNull, AbsBase, AbsTop, AbsLimbo, AbsOp
  <2>2. AbsDeque' = AbsDeque
    BY <1>a, <1>c, <1>b, <2>1
  <2>3. Len(AbsDeque) = AbsTop - AbsBase
    BY <1>a, <1>c, PartType
  <2>4. CASE localEmpty
    <3>1. AbsBase = AbsTop /\ \A p \in Thieves : AbsLimbo[p] = <<>>
      BY <1>0, <2>4 DEF EmptyInv, AbsLimbo
    <3>2. AbsDeque = <<>> /\ Len(AbsDeque) <= 1
      BY <1>a, <1>c, <2>3, <3>1, PartEmpty
    <3>3. QED
      BY <2>1, <2>2, <3>1, <3>2 DEF Deque!PopNull, Deque!PopWeakNull, Deque!NoStealInProgress
  <2>5. CASE weak /\ top <= base
    <3>1. base - 1 <= AbsBase
      BY <1>0 DEF AbsBase, TypeOK
    <3>2. Len(AbsDeque) <= 1
      BY <1>0, <1>a, <1>c, <2>1, <2>3, <2>5, <3>1 DEF TypeOK
    <3>3. QED
      BY <2>1, <2>2, <2>5, <3>2 DEF Deque!PopWeakNull
  <2>6. QED
    BY <1>7, <2>4, <2>5 DEF PopReturnsNull
\* pop: the unlocked path, which has found base <= top.
<1>8. ASSUME PopTake
      PROVE  Deque!Pop
  <2>1. /\ AbsBase' = AbsBase /\ AbsLimbo' = AbsLimbo /\ slots' = slots /\ ret' = <<slots[top]>>
        /\ AbsTop = top + 1 /\ AbsTop' = top
        /\ AbsOp \in {"pop", "popWeak"} /\ AbsOp' = "idle"
    BY <1>8 DEF PopTake, AbsBase, AbsTop, AbsLimbo, AbsOp
  <2>2. AbsBase <= top /\ top \in Int
    BY <1>0, <1>8 DEF PopTake, WindowInside, TypeOK
  <2>3. /\ AbsDeque # <<>> /\ AbsDeque[Len(AbsDeque)] = slots[AbsTop - 1]
        /\ SubSeq(AbsDeque, 1, Len(AbsDeque) - 1) = Part(slots, AbsBase, AbsTop - 1)
    <3>1. AbsBase < AbsTop
      BY <1>c, <2>1, <2>2
    <3>2. QED
      BY <1>a, <3>1, PartFront
  <2>4. AbsTop - 1 = top
    BY <2>1, <2>2
  <2>5. QED
    BY <1>b, <2>1, <2>3, <2>4 DEF Deque!Pop
\* pop: the locked path, where no thief is busy.
<1>9. ASSUME PopSlow
      PROVE  Deque!Pop \/ Deque!PopNull \/ Deque!PopWeakNull
  <2>0. /\ AbsBase = base /\ AbsTop = top
        /\ \A q \in Thieves : tpc[q] \notin CriticalPcs
    BY <1>9, OwnerAlone DEF PopSlow, AbsTop
  <2>1. /\ AbsLimbo' = AbsLimbo /\ \A p \in Thieves : AbsLimbo[p] = <<>>
        /\ slots' = slots
        /\ AbsOp = (IF weak THEN "popWeak" ELSE "pop") /\ AbsOp' = "idle"
    BY <1>9, <2>0 DEF PopSlow, AbsLimbo, CriticalPcs, AbsOp
  <2>2. AbsBase' = base' /\ AbsTop' = top'
    BY <1>9, <2>0 DEF PopSlow, AbsBase, AbsTop, CriticalPcs
  <2>3. Len(AbsDeque) = top - base /\ base \in Int /\ top \in Int /\ base <= top
    BY <1>a, <1>c, <2>0, PartType
  <2>4. CASE base = top
    <3>1. ret' = <<>> /\ base' = top'
      <4>1. ~(base <= top - 1) /\ ~(base < top - 1)
        BY <2>3, <2>4
      <4>2. QED
        BY <1>9, <4>1, Zenon DEF PopSlow
    <3>2. AbsDeque = <<>> /\ AbsDeque' = <<>>
      BY <1>a, <1>c, <1>b, <2>0, <2>2, <2>4, <3>1, PartEmpty
    <3>3. QED
      BY <2>1, <2>3, <2>4, <3>1, <3>2 DEF Deque!PopNull, Deque!PopWeakNull, Deque!NoStealInProgress
  <2>5. CASE base < top
    <3>1. ret' = <<slots[top - 1]>>
      BY <1>9, <2>3, <2>5 DEF PopSlow
    <3>2. /\ AbsDeque # <<>> /\ AbsDeque[Len(AbsDeque)] = slots[top - 1]
          /\ SubSeq(AbsDeque, 1, Len(AbsDeque) - 1) = Part(slots, base, top - 1)
      BY <1>a, <1>c, <2>0, <2>5, PartFront
    <3>3. AbsDeque' = Part(slots, base, top - 1)
      <4>1. CASE base < top - 1
        BY <1>9, <1>b, <2>1, <2>2, <4>1 DEF PopSlow
      <4>2. CASE base = top - 1
        <5>1. base' = top'
          <6>1. ~(base < top - 1)
            BY <2>3, <4>2
          <6>2. QED
            BY <1>9, <6>1, Zenon DEF PopSlow
        <5>2. AbsDeque' = <<>>
          BY <1>b, <2>2, <5>1, PartEmpty
        <5>3. QED
          BY <2>3, <4>2, <5>2, PartEmpty
      <4>3. QED
        BY <2>3, <2>5, <4>1, <4>2
    <3>4. QED
      BY <2>1, <3>1, <3>2, <3>3 DEF Deque!Pop
  <2>6. QED
    BY <2>3, <2>4, <2>5
\* for_each_entry.
<1>10. ASSUME VisitReturns
       PROVE  Deque!Visit
  <2>1. /\ AbsBase' = AbsBase /\ AbsTop' = AbsTop /\ AbsLimbo' = AbsLimbo /\ slots' = slots
        /\ ret' = <<>> /\ AbsOp = "visit" /\ AbsOp' = "idle" /\ localEmpty
    BY <1>10 DEF VisitReturns, AbsBase, AbsTop, AbsLimbo, AbsOp
  <2>2. AbsBase = AbsTop /\ \A p \in Thieves : AbsLimbo[p] = <<>>
    BY <1>0, <2>1 DEF EmptyInv, AbsLimbo
  <2>3. AbsDeque = <<>> /\ AbsDeque' = AbsDeque
    BY <1>a, <1>c, <1>b, <2>1, <2>2, PartEmpty
  <2>4. QED
    BY <2>1, <2>2, <2>3 DEF Deque!Visit, Deque!NoStealInProgress
<1>11. ASSUME VisitEntries
       PROVE  Deque!Visit
  <2>0. /\ AbsBase = base /\ AbsTop = top
        /\ \A q \in Thieves : tpc[q] \notin CriticalPcs
    BY <1>11, OwnerAlone DEF VisitEntries, AbsTop
  <2>1. /\ AbsBase' = AbsBase /\ AbsTop' = AbsTop /\ AbsLimbo' = AbsLimbo /\ slots' = slots
        /\ AbsOp = "visit" /\ AbsOp' = "idle"
    BY <1>11 DEF VisitEntries, AbsBase, AbsTop, AbsLimbo, AbsOp
  <2>2. \A p \in Thieves : AbsLimbo[p] = <<>>
    BY <2>0 DEF AbsLimbo, CriticalPcs
  <2>3. ret' = AbsDeque /\ AbsDeque' = AbsDeque
    BY <1>11, <1>a, <1>c, <1>b, <2>0, <2>1 DEF VisitEntries, AbsDeque
  <2>4. QED
    BY <2>1, <2>2, <2>3 DEF Deque!Visit, Deque!NoStealInProgress
\* A thief's and a passer's steps that the deque does not see.
<1>12. ASSUME NEW p \in Thieves, StealLock(p) \/ PassCall(p) \/ PassLock(p) \/ PassRetry(p)
       PROVE  UNCHANGED Deque!vars
  <2> USE DEF StealLock, PassCall, PassLock, PassRetry
  <2>1. AbsBase' = AbsBase /\ AbsTop' = AbsTop /\ AbsOp' = AbsOp /\ ret' = ret /\ slots' = slots
    BY <1>0, <1>12 DEF AbsBase, AbsTop, AbsOp, TypeOK
  <2>2. AbsDeque' = AbsDeque
    BY <1>a, <1>c, <1>b, <2>1
  <2>3. AbsLimbo' = AbsLimbo
    BY <1>0, <1>12, <2>1 DEF AbsLimbo, TypeOK
  <2>4. QED
    BY <2>1, <2>2, <2>3 DEF Deque!vars
<1>13. ASSUME NEW p \in Thieves,
              StealBase(p) \/ StealGet(p) \/ StealUndo(p) \/ PassPut(p)
       PROVE  UNCHANGED Deque!vars
  <2>0. /\ AbsBase = (IF tpc[p] \in {"stealTop", "stealUndo"} THEN base - 1 ELSE base)
        /\ \A q \in Thieves : q # p => tpc[q] \notin CriticalPcs
    BY <1>13, ThiefAlone DEF StealBase, StealGet, StealUndo, PassPut, CriticalPcs
  <2>1. AbsTop' = AbsTop /\ AbsOp' = AbsOp /\ ret' = ret
    BY <1>13 DEF StealBase, StealGet, StealUndo, PassPut, AbsTop, AbsOp
  <2>2. AbsBase' = AbsBase
    BY <1>0, <1>13, <2>0 DEF StealBase, StealGet, StealUndo, PassPut, AbsBase, TypeOK, CriticalPcs
  <2>3. AbsLimbo' = AbsLimbo
    BY <1>0, <1>13, <2>0 DEF StealBase, StealGet, StealUndo, PassPut, AbsLimbo, TypeOK, CriticalPcs
  <2>4. \A i \in 1..(AbsTop - AbsBase) : slots[AbsBase + i - 1] = slots'[AbsBase + i - 1]
    BY <1>0, <1>13, <1>c, <2>0 DEF StealBase, StealGet, StealUndo, PassPut, TypeOK
  <2>5. AbsDeque' = AbsDeque
    BY <1>a, <1>b, <1>c, <2>1, <2>2, <2>4 DEF Part
  <2>6. QED
    BY <2>1, <2>3, <2>5 DEF Deque!vars
\* A steal takes effect when top is read; what it finds is the head.
<1>14. ASSUME NEW p \in Thieves, StealTop(p)
       PROVE  Deque!Steal(p) \/ UNCHANGED Deque!vars
  <2>0. /\ AbsBase = base - 1 /\ tb[p] = base - 1 /\ tb[p] \in Int /\ base \in Int
        /\ \A q \in Thieves : q # p => tpc[q] \notin CriticalPcs
    BY <1>0, <1>14, ThiefAlone DEF StealTop, CriticalPcs, ThiefInv, TypeOK
  <2>1. AbsTop' = AbsTop /\ AbsOp' = AbsOp /\ ret' = ret /\ slots' = slots /\ base' = base /\ tb' = tb
    BY <1>14 DEF StealTop, AbsTop, AbsOp
  <2>2. CASE tb[p] < top
    <3>1. tpc' = [tpc EXCEPT ![p] = "stealGet"]
      BY <1>14, <2>2 DEF StealTop
    <3>2. AbsBase' = base
      BY <1>0, <2>0, <2>1, <3>1 DEF AbsBase, TypeOK, CriticalPcs
    <3>3. AbsBase < AbsTop
      BY <1>0, <1>a, <1>c, <2>0, <2>2 DEF AbsTop, TypeOK
    <3>4. /\ AbsDeque # <<>> /\ Head(AbsDeque) = slots[AbsBase]
          /\ Tail(AbsDeque) = Part(slots, AbsBase + 1, AbsTop)
      BY <1>a, <1>c, <3>3, PartTail
    <3>5. AbsDeque' = Tail(AbsDeque)
      <4>1. AbsBase + 1 = base
        BY <2>0
      <4>2. QED
        BY <1>b, <2>1, <3>2, <3>4, <4>1
    <3>6. AbsLimbo[p] = <<>> /\ AbsLimbo' = [AbsLimbo EXCEPT ![p] = <<Head(AbsDeque)>>]
      BY <1>0, <1>14, <2>0, <2>1, <3>1, <3>4 DEF AbsLimbo, StealTop, TypeOK
    <3>7. QED
      BY <2>1, <3>4, <3>5, <3>6 DEF Deque!Steal
  <2>3. CASE ~(tb[p] < top)
    <3>1. tpc' = [tpc EXCEPT ![p] = "stealUndo"]
      BY <1>14, <2>3 DEF StealTop
    <3>2. AbsBase' = AbsBase
      BY <1>0, <2>0, <2>1, <3>1 DEF AbsBase, TypeOK
    <3>3. AbsLimbo' = AbsLimbo
      BY <1>0, <1>14, <2>1, <3>1 DEF AbsLimbo, TypeOK, StealTop
    <3>4. AbsDeque' = AbsDeque
      BY <1>a, <1>c, <1>b, <2>1, <3>2
    <3>5. QED
      BY <2>1, <3>3, <3>4 DEF Deque!vars
  <2>4. QED
    BY <2>2, <2>3
\* abort_steal puts back what the slot still holds.
<1>15. ASSUME NEW p \in Thieves, AbortSteal(p)
       PROVE  Deque!Abort(p)
  <2>0. /\ AbsBase = base /\ base \in Int /\ tb[p] = base - 1 /\ 0 <= tb[p] /\ held[p] = slots[base - 1]
        /\ \A q \in Thieves : q # p => tpc[q] \notin CriticalPcs
    BY <1>0, <1>15, ThiefAlone DEF AbortSteal, CriticalPcs, ThiefInv, TypeOK
  <2>1. /\ AbsTop' = AbsTop /\ AbsOp' = AbsOp /\ ret' = ret /\ slots' = slots /\ base' = base - 1
        /\ tpc[p] = "stolen" /\ tpc' = [tpc EXCEPT ![p] = "unlock"]
    BY <1>15 DEF AbortSteal, AbsTop, AbsOp
  <2>2. AbsBase' = base - 1
    BY <1>0, <2>0, <2>1 DEF AbsBase, TypeOK, CriticalPcs
  <2>3. AbsLimbo[p] = <<slots[base - 1]>> /\ AbsLimbo' = [AbsLimbo EXCEPT ![p] = <<>>]
    BY <1>0, <1>15, <2>0, <2>1 DEF AbsLimbo, TypeOK, AbortSteal, CriticalPcs
  <2>4. Inside(base - 1, AbsTop) /\ base - 1 < AbsTop /\ base - 1 + 1 = base
    BY <1>c, <2>0 DEF Inside
  <2>5. <<slots[base - 1]>> \o Part(slots, base, AbsTop) = Part(slots, base - 1, AbsTop)
    <3>1. <<slots[base - 1]>> \o Part(slots, base - 1 + 1, AbsTop) = Part(slots, base - 1, AbsTop)
      BY <1>a, <2>4, PartTail
    <3>2. QED
      BY <2>4, <3>1
  <2>6. AbsDeque' = AbsLimbo[p] \o AbsDeque
    BY <1>a, <1>c, <1>b, <2>0, <2>1, <2>2, <2>3, <2>5
  <2>7. AbsLimbo[p] # <<>>
    BY <2>3
  <2>8. QED
    BY <2>1, <2>3, <2>6, <2>7 DEF Deque!Abort
<1>16. ASSUME NEW p \in Thieves, ThiefUnlock(p)
       PROVE  Deque!Commit(p) \/ UNCHANGED Deque!vars
  <2>1. /\ AbsTop' = AbsTop /\ AbsOp' = AbsOp /\ ret' = ret /\ slots' = slots
        /\ AbsBase' = AbsBase
    BY <1>0, <1>16 DEF ThiefUnlock, AbsTop, AbsOp, AbsBase, TypeOK
  <2>2. AbsDeque' = AbsDeque
    BY <1>a, <1>c, <1>b, <2>1
  <2>3. CASE tpc[p] = "stolen"
    <3>1. AbsLimbo[p] # <<>> /\ AbsLimbo' = [AbsLimbo EXCEPT ![p] = <<>>]
      BY <1>0, <1>16, <2>1, <2>3 DEF ThiefUnlock, AbsLimbo, TypeOK
    <3>2. QED
      BY <2>1, <2>2, <3>1 DEF Deque!Commit
  <2>4. CASE tpc[p] = "unlock"
    <3>1. AbsLimbo' = AbsLimbo
      BY <1>0, <1>16, <2>1, <2>4 DEF ThiefUnlock, AbsLimbo, TypeOK
    <3>2. QED
      BY <2>1, <2>2, <3>1 DEF Deque!vars
  <2>5. QED
    BY <1>16, <2>3, <2>4 DEF ThiefUnlock
\* A pass takes effect when base is put.
<1>17. ASSUME NEW p \in Thieves, PassBase(p)
       PROVE  \E e \in Entries : Deque!Pass(e)
  <2>0. /\ AbsBase = base /\ base \in Int /\ tb[p] = base /\ 0 < base
        /\ held[p] = slots[base - 1] /\ held[p] \in Entries
        /\ \A q \in Thieves : q # p => tpc[q] \notin CriticalPcs
    BY <1>0, <1>17, ThiefAlone DEF PassBase, CriticalPcs, ThiefInv, TypeOK
  <2>1. /\ AbsTop' = AbsTop /\ AbsOp' = AbsOp /\ ret' = ret /\ slots' = slots /\ base' = base - 1
        /\ tpc[p] = "passBase" /\ tpc' = [tpc EXCEPT ![p] = "unlock"]
    BY <1>17, <2>0 DEF PassBase, AbsTop, AbsOp
  <2>2. AbsBase' = base - 1
    BY <1>0, <2>0, <2>1 DEF AbsBase, TypeOK, CriticalPcs
  <2>3. AbsLimbo' = AbsLimbo
    BY <1>0, <1>17, <2>0, <2>1 DEF AbsLimbo, TypeOK, PassBase
  <2>4. Inside(base - 1, AbsTop) /\ base - 1 < AbsTop /\ base - 1 + 1 = base
    BY <1>c, <2>0 DEF Inside
  <2>5. <<slots[base - 1]>> \o Part(slots, base, AbsTop) = Part(slots, base - 1, AbsTop)
    <3>1. <<slots[base - 1]>> \o Part(slots, base - 1 + 1, AbsTop) = Part(slots, base - 1, AbsTop)
      BY <1>a, <2>4, PartTail
    <3>2. QED
      BY <2>4, <3>1
  <2>6. AbsDeque' = <<held[p]>> \o AbsDeque
    BY <1>a, <1>c, <1>b, <2>0, <2>1, <2>2, <2>5
  <2>7. QED
    BY <2>0, <2>1, <2>3, <2>6 DEF Deque!Pass
<1>18. CASE UNCHANGED vars
  <2>1. UNCHANGED Deque!vars
    BY <1>18 DEF vars, Deque!vars, AbsDeque, Window, AbsBase, AbsTop, AbsLimbo, AbsOp
  <2>2. QED
    BY <2>1
<1>19. CASE OwnerCall
  BY <1>1, <1>19 DEF OwnerCall, Deque!Next
<1>20. CASE OwnerStep
  BY <1>2, <1>3, <1>4, <1>5, <1>6, <1>7, <1>8, <1>9, <1>10, <1>11, <1>20 DEF OwnerStep, Deque!Next
<1>21. ASSUME NEW p \in Thieves, ThiefCall(p) \/ ThiefStep(p)
       PROVE  [Deque!Next]_Deque!vars
  BY <1>12, <1>13, <1>14, <1>15, <1>16, <1>17, <1>21 DEF ThiefCall, ThiefStep, Deque!Next
<1>22. QED
  BY <1>18, <1>19, <1>20, <1>21 DEF Next

\* The queue, with the owner's unlocked accesses to top and the thieves'
\* fetch-and-adds on base, implements the deque in which every operation is one
\* step.
THEOREM QueueImplementsDeque == Spec => ImplementsDeque
<1>1. Init => Deque!Init
  <2> SUFFICES ASSUME Init PROVE Deque!Init
    OBVIOUS
  <2>1. AbsBase = AbsTop /\ AbsBase \in Int
    <3>1. base \in Int
      BY InitQueueInv DEF QueueInv, TypeOK
    <3>2. AbsBase = base /\ AbsTop = top /\ base = top
      BY DEF Init, AbsBase, AbsTop
    <3>3. QED
      BY <3>1, <3>2
  <2>2. AbsDeque = <<>>
    BY <2>1 DEF AbsDeque, Window
  <2>3. AbsLimbo = [p \in Thieves |-> <<>>] /\ AbsOp = "idle" /\ ret = <<>>
    BY DEF Init, AbsLimbo, AbsOp
  <2>4. QED
    BY <2>2, <2>3 DEF Deque!Init
<1>2. QueueInv /\ QueueInv' /\ [Next]_vars => [Deque!Next]_Deque!vars
  BY NextRefines
<1>3. QED
  BY <1>1, <1>2, QueueInvariant, PTL DEF Spec, ImplementsDeque, Deque!Spec
=============================================================================
