------------------------------- MODULE WsQueue -------------------------------
(***************************************************************************)
(* One queue of ityr::ito::wsqueue (include/ityr/ito/wsqueue.hpp), used by *)
(* its owner and by the processes that steal from it or pass to it.        *)
(*                                                                         *)
(* Every access to the shared words (top, base, a slot, the lock word) is  *)
(* a step of its own, except that what the owner does between priolock and *)
(* unlock is one step: while it holds the lock nobody else reads or writes *)
(* the queue, but for the unlocked empty() probe, which is only a hint     *)
(* whether to try a steal - here a thief may try at any time.              *)
(*                                                                         *)
(*   enablePass            - the template parameter EnablePass             *)
(*   lockValue, lockStatus - the queue's word of queue_lock_ (GlobalLock)  *)
(*   top, base, slots      - queue_state and the entries array             *)
(*   localEmpty            - local_empty_ (only when ~enablePass)          *)
(*   opc, weak, arg, ret   - where the owner is; whether its pop is        *)
(*                           pop<EnsureEmpty = false>; the entry it pushes;*)
(*                           what its pop or for_each_entry returned       *)
(*   tpc, tb, held         - where a thief is, the base it read, and the   *)
(*                           entry it stole or is passing                  *)
(*   next                  - number of the next new entry (entries are     *)
(*                           numbered so that each one can be followed)    *)
(***************************************************************************)
EXTENDS Integers, Sequences

CONSTANTS
  Owner,        \* the rank the queue belongs to
  Thieves,      \* the other ranks
  NEntries,     \* n_entries_
  PassVariants, \* values of the template parameter EnablePass
  MarginDiv,    \* pop keeps base away from 0 by n_entries_ / MarginDiv (10)
  MaxEntries    \* bound: number of entries ever pushed or passed

ASSUME OwnerAssumption == Owner \notin Thieves
ASSUME SizeAssumption ==
  /\ NEntries \in Nat \ {0}
  /\ MarginDiv \in Nat \ {0}
  /\ MaxEntries \in Nat
  /\ PassVariants \subseteq BOOLEAN /\ PassVariants # {}

VARIABLES enablePass, lockValue, lockStatus, top, base, slots, localEmpty,
          opc, weak, arg, ret, tpc, tb, held, next

lockVars == <<lockValue, lockStatus>>
queueVars == <<top, base, slots>>
callVars == <<weak, arg>>
thiefVars == <<tpc, tb, held>>
vars == <<enablePass, lockValue, lockStatus, top, base, slots, localEmpty,
          opc, weak, arg, ret, tpc, tb, held, next>>

L == INSTANCE GlobalLock
       WITH Procs <- {Owner} \cup Thieves, value <- lockValue, status <- lockStatus

Entries == 1..MaxEntries
NoEntry == 0                       \* what a slot holds before its first use

InitialPos == IF enablePass THEN NEntries \div 2 ELSE 0
Margin == NEntries \div MarginDiv

Init ==
  /\ enablePass \in PassVariants
  /\ L!Init
  /\ top = InitialPos
  /\ base = InitialPos
  /\ slots = [i \in 0..(NEntries - 1) |-> NoEntry]
  /\ localEmpty = FALSE
  /\ opc = "idle"
  /\ weak = FALSE
  /\ arg = NoEntry
  /\ ret = <<>>
  /\ tpc = [p \in Thieves |-> "idle"]
  /\ tb = [p \in Thieves |-> 0]
  /\ held = [p \in Thieves |-> NoEntry]
  /\ next = 1

-----------------------------------------------------------------------------
(* The owner.                                                               *)

OwnerGoto(pc) == opc' = pc

OwnerHolds == lockStatus[Owner] = "held"

\* queue_lock_.priolock(my_rank): the fetch-and-add, and the end of its loop.
OwnerPriolock(from, to) ==
  /\ opc = from
  /\ L!Priolock(Owner)
  /\ OwnerGoto(to)
  /\ UNCHANGED <<queueVars, ret, localEmpty, callVars, thiefVars, next>>

OwnerWaited ==
  /\ L!PriolockWaited(Owner)
  /\ UNCHANGED <<queueVars, opc, callVars, ret, localEmpty, thiefVars, next>>

OwnerUnlock(from, to) ==
  /\ opc = from
  /\ L!Unlock(Owner)
  /\ OwnerGoto(to)
  /\ UNCHANGED <<queueVars, ret, localEmpty, callVars, thiefVars, next>>

\* move_entries throws wsqueue_full_exception when there is no room.
MoveOverflows(offset) ==
  offset = 0 \/ base + offset < 0 \/ NEntries < top + offset

\* move_entries: entries base..top-1 go to base+offset..top+offset-1.
MoveEntries(offset) ==
  /\ slots' = [i \in 0..(NEntries - 1) |->
                 IF i \in (base + offset)..(top + offset - 1)
                 THEN slots[i - offset] ELSE slots[i]]
  /\ top' = top + offset
  /\ base' = base + offset

\* push begins, with a new entry.
PushCall ==
  /\ opc = "idle"
  /\ next <= MaxEntries
  /\ arg' = next
  /\ next' = next + 1
  /\ ret' = <<>>
  /\ OwnerGoto(IF top = NEntries THEN "pushLock" ELSE "pushWrite")
  /\ UNCHANGED <<lockVars, queueVars, weak, localEmpty, thiefVars>>

\* Room is made at the tail by moving down half of the free slots, rounded up;
\* the exception leaves with the lock held.
PushMove ==
  /\ opc = "pushMove"
  /\ OwnerHolds
  /\ LET offset == -((base + 1) \div 2)
     IN IF MoveOverflows(offset)
        THEN OwnerGoto("thrown") /\ UNCHANGED queueVars
        ELSE OwnerGoto("pushUnlock") /\ MoveEntries(offset)
  /\ UNCHANGED <<lockVars, ret, localEmpty, callVars, thiefVars, next>>

PushWrite ==
  /\ opc = "pushWrite"
  /\ slots' = [slots EXCEPT ![top] = arg]
  /\ OwnerGoto("pushTop")
  /\ UNCHANGED <<lockVars, top, base, ret, localEmpty, callVars, thiefVars, next>>

\* Mutant: push that leaves local_empty_ set.
PushTopKeepsLocalEmpty ==
  /\ opc = "pushTop"
  /\ top' = top + 1
  /\ arg' = NoEntry
  /\ OwnerGoto("idle")
  /\ UNCHANGED <<lockVars, base, slots, weak, ret, localEmpty, thiefVars, next>>

PushTop ==
  /\ opc = "pushTop"
  /\ top' = top + 1
  /\ localEmpty' = FALSE
  /\ arg' = NoEntry
  /\ OwnerGoto("idle")
  /\ UNCHANGED <<lockVars, base, slots, weak, ret, thiefVars, next>>

\* pop begins: with EnablePass, entries are moved up when base is too close to
\* 0 and there is room above.
PopCall ==
  /\ opc = "idle"
  /\ weak' \in BOOLEAN
  /\ ret' = <<>>
  /\ OwnerGoto(IF enablePass /\ base < Margin /\ NEntries - top > Margin
               THEN "popRebalance" ELSE "pop")
  /\ UNCHANGED <<lockVars, queueVars, arg, localEmpty, thiefVars, next>>

\* Half of the free slots above top, rounded up.
PopRebalance ==
  /\ opc = "popMove"
  /\ OwnerHolds
  /\ LET offset == (NEntries - top + 1) \div 2
     IN IF MoveOverflows(offset)
        THEN OwnerGoto("thrown") /\ UNCHANGED queueVars
        ELSE OwnerGoto("popMoveUnlock") /\ MoveEntries(offset)
  /\ UNCHANGED <<lockVars, ret, localEmpty, callVars, thiefVars, next>>

\* The early returns: the queue is known to be empty, or looks empty.
PopReturnsNull ==
  /\ opc = "pop"
  /\ \/ ~enablePass /\ localEmpty
     \/ weak /\ top <= base
  /\ ret' = <<>>
  /\ OwnerGoto("idle")
  /\ UNCHANGED <<lockVars, queueVars, localEmpty, callVars, thiefVars, next>>

\* top = t (= top - 1), before the fence.
PopDecrement ==
  /\ opc = "pop"
  /\ ~(~enablePass /\ localEmpty)
  /\ ~(weak /\ top <= base)
  /\ top' = top - 1
  /\ OwnerGoto("popBase")
  /\ UNCHANGED <<lockVars, base, slots, ret, localEmpty, callVars, thiefVars, next>>

\* base is read after the fence: t is the owner's if base <= t.
PopReadBase ==
  /\ opc = "popBase"
  /\ OwnerGoto(IF base <= top THEN "popTake" ELSE "popRestore")
  /\ UNCHANGED <<lockVars, queueVars, ret, localEmpty, callVars, thiefVars, next>>

PopTake ==
  /\ opc = "popTake"
  /\ ret' = <<slots[top]>>
  /\ OwnerGoto("idle")
  /\ UNCHANGED <<lockVars, queueVars, localEmpty, callVars, thiefVars, next>>

\* top = t + 1 again, then priolock.
PopRestore ==
  /\ opc = "popRestore"
  /\ top' = top + 1
  /\ OwnerGoto("popLock")
  /\ UNCHANGED <<lockVars, base, slots, ret, localEmpty, callVars, thiefVars, next>>

\* With the lock: t is taken if it is still there, and the queue is reset when
\* nothing else is left.
PopSlow ==
  /\ opc = "popSlow"
  /\ OwnerHolds
  /\ ret' = IF base <= top - 1 THEN <<slots[top - 1]>> ELSE <<>>
  /\ IF base < top - 1
     THEN top' = top - 1 /\ UNCHANGED <<base, localEmpty>>
     ELSE /\ top' = InitialPos
          /\ base' = InitialPos
          /\ localEmpty' = (IF enablePass THEN localEmpty ELSE TRUE)
  /\ OwnerGoto("unlock")
  /\ UNCHANGED <<lockVars, slots, callVars, thiefVars, next>>

\* for_each_entry: every entry from base to top-1 under the lock.
VisitCall ==
  /\ opc = "idle"
  /\ ret' = <<>>
  /\ OwnerGoto("visit")
  /\ UNCHANGED <<lockVars, queueVars, localEmpty, callVars, thiefVars, next>>

VisitReturns ==
  /\ opc = "visit"
  /\ ~enablePass /\ localEmpty
  /\ ret' = <<>>
  /\ OwnerGoto("idle")
  /\ UNCHANGED <<lockVars, queueVars, localEmpty, callVars, thiefVars, next>>

VisitLock ==
  /\ ~(~enablePass /\ localEmpty)
  /\ OwnerPriolock("visit", "visiting")

Window(b, t) == [i \in 1..(t - b) |-> slots[b + i - 1]]

VisitEntries ==
  /\ opc = "visiting"
  /\ OwnerHolds
  /\ ret' = Window(base, top)
  /\ OwnerGoto("unlock")
  /\ UNCHANGED <<lockVars, queueVars, localEmpty, callVars, thiefVars, next>>

\* The owner's calls, and the steps inside a call.
OwnerCall == (PushCall \/ PopCall \/ VisitCall) /\ UNCHANGED enablePass

OwnerStep ==
  /\ \/ OwnerWaited
     \/ OwnerPriolock("pushLock", "pushMove")
     \/ PushMove
     \/ OwnerUnlock("pushUnlock", "pushWrite")
     \/ PushWrite
     \/ PushTop
     \/ OwnerPriolock("popRebalance", "popMove")
     \/ PopRebalance
     \/ OwnerUnlock("popMoveUnlock", "pop")
     \/ PopReturnsNull
     \/ PopDecrement
     \/ PopReadBase
     \/ PopTake
     \/ PopRestore
     \/ OwnerPriolock("popLock", "popSlow")
     \/ PopSlow
     \/ VisitReturns
     \/ VisitLock
     \/ VisitEntries
     \/ OwnerUnlock("unlock", "idle")
  /\ UNCHANGED enablePass

-----------------------------------------------------------------------------
(* A thief or a passer p.                                                   *)

ThiefGoto(p, pc) == tpc' = [tpc EXCEPT ![p] = pc]

ownerState == <<opc, callVars, ret, localEmpty>>

\* One attempt on the lock: trylock before a scheduler's steal, or the loop of
\* lock() in steal and trypass.
StealLock(p) ==
  /\ \/ tpc[p] = "idle" /\ L!Trylock(p)
        /\ ThiefGoto(p, IF lockStatus'[p] = "held" THEN "steal" ELSE "idle")
     \/ tpc[p] \in {"idle", "stealLock"} /\ L!Lock(p)
        /\ ThiefGoto(p, IF lockStatus'[p] = "held" THEN "steal" ELSE "stealLock")
  /\ UNCHANGED <<queueVars, ownerState, tb, held, next>>

\* steal_nolock: fetch-and-add 1 on base, then the get of top, then the slot.
StealBase(p) ==
  /\ tpc[p] = "steal"
  /\ tb' = [tb EXCEPT ![p] = base]
  /\ base' = base + 1
  /\ ThiefGoto(p, "stealTop")
  /\ UNCHANGED <<lockVars, top, slots, ownerState, held, next>>

StealTop(p) ==
  /\ tpc[p] = "stealTop"
  /\ ThiefGoto(p, IF tb[p] < top THEN "stealGet" ELSE "stealUndo")
  /\ UNCHANGED <<lockVars, queueVars, ownerState, tb, held, next>>

StealGet(p) ==
  /\ tpc[p] = "stealGet"
  /\ held' = [held EXCEPT ![p] = slots[tb[p]]]
  /\ ThiefGoto(p, "stolen")
  /\ UNCHANGED <<lockVars, queueVars, ownerState, tb, next>>

\* Mutant: a failed steal that leaves base incremented.
StealUndoForgotten(p) ==
  /\ tpc[p] = "stealUndo"
  /\ ThiefGoto(p, "unlock")
  /\ UNCHANGED <<lockVars, queueVars, ownerState, tb, held, next>>

\* Mutant: a failed steal that returns without unlocking.
StealUndoKeepsLock(p) ==
  /\ tpc[p] = "stealUndo"
  /\ base' = base - 1
  /\ ThiefGoto(p, "idle")
  /\ UNCHANGED <<lockVars, top, slots, ownerState, tb, held, next>>

StealUndo(p) ==
  /\ tpc[p] = "stealUndo"
  /\ base' = base - 1
  /\ ThiefGoto(p, "unlock")
  /\ UNCHANGED <<lockVars, top, slots, ownerState, tb, held, next>>

\* abort_steal by a scheduler that does not want the entry after all.
AbortSteal(p) ==
  /\ tpc[p] = "stolen"
  /\ base' = base - 1
  /\ held' = [held EXCEPT ![p] = NoEntry]
  /\ ThiefGoto(p, "unlock")
  /\ UNCHANGED <<lockVars, top, slots, ownerState, tb, next>>

\* The end of the critical section: after a failed or aborted steal, after a
\* steal (whose stack has been copied by then), after a pass.
ThiefUnlock(p) ==
  /\ tpc[p] \in {"unlock", "stolen"}
  /\ L!Unlock(p)
  /\ held' = [held EXCEPT ![p] = NoEntry]
  /\ tb' = [tb EXCEPT ![p] = 0]
  /\ ThiefGoto(p, "idle")
  /\ UNCHANGED <<queueVars, ownerState, next>>

\* pass: trypass again and again with the same entry.
PassCall(p) ==
  /\ enablePass
  /\ tpc[p] = "idle"
  /\ next <= MaxEntries
  /\ held' = [held EXCEPT ![p] = next]
  /\ next' = next + 1
  /\ ThiefGoto(p, "passLock")
  /\ UNCHANGED <<lockVars, queueVars, ownerState, tb>>

PassLock(p) ==
  /\ tpc[p] = "passLock"
  /\ L!Lock(p)
  /\ ThiefGoto(p, IF lockStatus'[p] = "held" THEN "pass" ELSE "passLock")
  /\ UNCHANGED <<queueVars, ownerState, tb, held, next>>

\* trypass: no room below base, or the put of the entry into the slot below.
PassPut(p) ==
  /\ tpc[p] = "pass"
  /\ IF base = 0
     THEN ThiefGoto(p, "passRetry") /\ UNCHANGED slots
     ELSE /\ ThiefGoto(p, "passBase")
          /\ slots' = [slots EXCEPT ![base - 1] = held[p]]
  /\ tb' = [tb EXCEPT ![p] = base]
  /\ UNCHANGED <<lockVars, top, base, ownerState, held, next>>

PassBase(p) ==
  /\ tpc[p] = "passBase"
  /\ base' = tb[p] - 1
  /\ ThiefGoto(p, "unlock")
  /\ UNCHANGED <<lockVars, top, slots, ownerState, tb, held, next>>

PassRetry(p) ==
  /\ tpc[p] = "passRetry"
  /\ L!Unlock(p)
  /\ tb' = [tb EXCEPT ![p] = 0]
  /\ ThiefGoto(p, "passLock")
  /\ UNCHANGED <<queueVars, ownerState, held, next>>

\* What a thief or passer that holds the lock does until it lets it go.
ThiefStep(p) ==
  /\ \/ StealBase(p)
     \/ StealTop(p)
     \/ StealGet(p)
     \/ StealUndo(p)
     \/ AbortSteal(p)
     \/ ThiefUnlock(p)
     \/ PassPut(p)
     \/ PassBase(p)
     \/ PassRetry(p)
  /\ UNCHANGED enablePass

\* The lock attempts and the call of pass.
ThiefCall(p) == (StealLock(p) \/ PassCall(p) \/ PassLock(p)) /\ UNCHANGED enablePass

Next ==
  \/ OwnerCall
  \/ OwnerStep
  \/ \E p \in Thieves : ThiefCall(p) \/ ThiefStep(p)

Spec == Init /\ [][Next]_vars

\* The owner goes on with a call it has begun, and a thief with a critical
\* section it has entered.  Nobody has to call, and no spinning thief has to
\* get the lock.
Fairness ==
  /\ WF_vars(OwnerStep)
  /\ \A p \in Thieves : WF_vars(ThiefStep(p))

FairSpec == Spec /\ Fairness

-----------------------------------------------------------------------------
(* Properties.                                                              *)

\* The refinement mapping.  The tail still counts an entry whose slot the owner
\* has taken off top but not read; the head still counts an entry that a thief
\* has added to base for, before it knows whether the entry is there.
AbsTop == IF opc \in {"popBase", "popTake", "popRestore"} THEN top + 1 ELSE top

AbsBase ==
  IF \E p \in Thieves : tpc[p] \in {"stealTop", "stealUndo"} THEN base - 1 ELSE base

AbsDeque == Window(AbsBase, AbsTop)

AbsLimbo == [p \in Thieves |->
  CASE tpc[p] = "stealGet" -> <<slots[tb[p]]>>
    [] tpc[p] = "stolen"   -> <<held[p]>>
    [] OTHER               -> <<>>]

AbsOp ==
  CASE opc \in {"idle", "unlock"} -> "idle"
    [] opc = "thrown" -> "thrown"
    [] opc \in {"visit", "visiting"} -> "visit"
    [] opc \in {"pushLock", "pushMove", "pushUnlock", "pushWrite", "pushTop"} -> "push"
    [] OTHER -> IF weak THEN "popWeak" ELSE "pop"

Deque == INSTANCE WsDeque
           WITH Capacity <- NEntries, deque <- AbsDeque, limbo <- AbsLimbo,
                op <- AbsOp, ret <- ret

\* The queue is a linearizable deque: whatever the interleaving of the owner's
\* unlocked decrements with the thieves' fetch-and-adds, every entry leaves
\* exactly once and in order, pop says "nothing" only when nothing is left and
\* no steal can be undone, and push throws only when the queue is full.
ImplementsDeque == Deque!Spec

\* Once pop has set local_empty_ nothing can come back into the queue, not even
\* by abort_steal: the early returns of pop and for_each_entry lose nothing.
LocalEmptyIsTrue ==
  localEmpty => AbsDeque = <<>> /\ \A p \in Thieves : AbsLimbo[p] = <<>>

\* An owner's operation comes back, however often thieves retry the lock: it
\* waits for the critical section of at most one thief.
OwnerReturns == (AbsOp \notin {"idle", "thrown"}) ~> (AbsOp \in {"idle", "thrown"})
\* The critical sections of the owner and of thieves and passers exclude each
\* other: between priolock or trylock and unlock, one process is on the queue.
MutualExclusion == L!MutualExclusion
=============================================================================
