------------------------------- MODULE WsDeque -------------------------------
(***************************************************************************)
(* What a work-stealing queue promises: a double-ended queue on which the  *)
(* owner pushes and pops at the tail, and the other processes steal from   *)
(* the head, give a stolen entry back to the head (abort_steal), or pass   *)
(* a new entry to the head.  Every operation takes effect in one step.     *)
(*                                                                         *)
(*   deque    - the entries, head first                                    *)
(*   limbo[p] - <<e>> from the moment thief p has taken e to the moment it *)
(*              lets the queue go (the steal can still be aborted)         *)
(*   op       - the owner's operation that has not taken effect yet        *)
(*   ret      - what the owner's last pop or visit returned                *)
(***************************************************************************)
EXTENDS Integers, Sequences

CONSTANTS Entries, Thieves, Capacity

VARIABLES deque, limbo, op, ret

vars == <<deque, limbo, op, ret>>

Init ==
  /\ deque = <<>>
  /\ limbo = [p \in Thieves |-> <<>>]
  /\ op = "idle"
  /\ ret = <<>>

NoStealInProgress == \A p \in Thieves : limbo[p] = <<>>

Call ==
  /\ op = "idle"
  /\ op' \in {"push", "pop", "popWeak", "visit"}
  /\ ret' = <<>>
  /\ UNCHANGED <<deque, limbo>>

Push ==
  /\ op = "push"
  /\ op' = "idle"
  /\ \E e \in Entries : deque' = Append(deque, e)
  /\ UNCHANGED <<limbo, ret>>

\* The queue refuses an entry only when it is full.
PushFull ==
  /\ op = "push"
  /\ Len(deque) = Capacity
  /\ op' = "thrown"
  /\ UNCHANGED <<deque, limbo, ret>>

Pop ==
  /\ op \in {"pop", "popWeak"}
  /\ deque # <<>>
  /\ op' = "idle"
  /\ ret' = <<deque[Len(deque)]>>
  /\ deque' = SubSeq(deque, 1, Len(deque) - 1)
  /\ UNCHANGED limbo

\* pop says "nothing" only when nothing is left and no thief still has an
\* entry it could give back.
PopNull ==
  /\ op = "pop"
  /\ deque = <<>>
  /\ NoStealInProgress
  /\ op' = "idle"
  /\ ret' = <<>>
  /\ UNCHANGED <<deque, limbo>>

\* pop<EnsureEmpty = false> may also miss the one entry a thief is after.
PopWeakNull ==
  /\ op = "popWeak"
  /\ Len(deque) <= 1
  /\ op' = "idle"
  /\ ret' = <<>>
  /\ UNCHANGED <<deque, limbo>>

\* for_each_entry visits every entry, and none can come back behind it.
Visit ==
  /\ op = "visit"
  /\ NoStealInProgress
  /\ op' = "idle"
  /\ ret' = deque
  /\ UNCHANGED <<deque, limbo>>

Steal(p) ==
  /\ limbo[p] = <<>>
  /\ deque # <<>>
  /\ limbo' = [limbo EXCEPT ![p] = <<Head(deque)>>]
  /\ deque' = Tail(deque)
  /\ UNCHANGED <<op, ret>>

Commit(p) ==
  /\ limbo[p] # <<>>
  /\ limbo' = [limbo EXCEPT ![p] = <<>>]
  /\ UNCHANGED <<deque, op, ret>>

Abort(p) ==
  /\ limbo[p] # <<>>
  /\ deque' = limbo[p] \o deque
  /\ limbo' = [limbo EXCEPT ![p] = <<>>]
  /\ UNCHANGED <<op, ret>>

Pass(e) ==
  /\ deque' = <<e>> \o deque
  /\ UNCHANGED <<limbo, op, ret>>

Next ==
  \/ Call \/ Push \/ PushFull \/ Pop \/ PopNull \/ PopWeakNull \/ Visit
  \/ \E p \in Thieves : Steal(p) \/ Commit(p) \/ Abort(p)
  \/ \E e \in Entries : Pass(e)

Spec == Init /\ [][Next]_vars
=============================================================================
