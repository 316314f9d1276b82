--------------------------- MODULE ReleaseManager ---------------------------
(***************************************************************************)
(* The lazy release protocol of ityr::ori: release_manager                 *)
(* (include/ityr/ori/release_manager.hpp) and the fences of cache_manager  *)
(* that drive it (include/ityr/ori/cache_manager.hpp).                     *)
(*                                                                         *)
(* A rank does not write its dirty cache back when it forks.  It hands out *)
(* a release handler naming the epoch in which its cache will have become  *)
(* clean, and whoever acquires with the handler asks for that epoch and    *)
(* waits until it has come.                                                *)
(*                                                                         *)
(* The data a rank writes is abstracted to a count of its checked-in       *)
(* writes; CacheManager models the blocks behind the count.                *)
(*                                                                         *)
(*   current, requested - rma_data, one word each in every rank's window   *)
(*   remote[r][t]       - remote_epochs_[t] of rank r                      *)
(*   dirty              - has_dirty_cache_                                 *)
(*   written            - number of writes checked in                      *)
(*   begun              - the writes whose put has been issued             *)
(*   home               - the writes whose put has been flushed            *)
(*   handlers           - the release handlers handed out so far           *)
(*   pc, call, rh, cas  - where a rank is, in which fence, the handler it  *)
(*                        acquires with, the value its CAS expects         *)
(***************************************************************************)
EXTENDS Integers, FiniteSets

CONSTANTS
  Ranks,
  Rank0,      \* the rank a dummy handler names
  MaxWrites,  \* bound: writes of each rank
  MaxHandlers \* bound: different handlers handed out

ASSUME RankAssumption == Rank0 \in Ranks
ASSUME BoundAssumption == MaxWrites \in [Ranks -> Nat] /\ MaxHandlers \in Nat

VARIABLES current, requested, remote, dirty, written, begun, home,
          handlers, pc, call, rh, cas

epochVars == <<current, requested, remote>>
dataVars == <<dirty, written, begun, home>>
ctlVars == <<pc, call, rh, cas>>
vars == <<current, requested, remote, dirty, written, begun, home,
          handlers, pc, call, rh, cas>>

\* A release handler; "by" and "upto" are what it stands for: the rank that
\* released, and the writes it had checked in by then.
Handlers == [target : Ranks, epoch : Nat, by : Ranks, upto : Nat]

\* get_dummy_handler is {0, 0}.
Dummy(r, n) == [target |-> Rank0, epoch |-> 0, by |-> r, upto |-> n]

\* get_release_handler.
HandlerFor(r) ==
  [target |-> r, epoch |-> current[r] + 1, by |-> r, upto |-> written[r]]

Init ==
  /\ current = [r \in Ranks |-> 1]
  /\ requested = [r \in Ranks |-> 1]
  /\ remote = [r \in Ranks |-> [t \in Ranks |-> 1]]
  /\ dirty = [r \in Ranks |-> FALSE]
  /\ written = [r \in Ranks |-> 0]
  /\ begun = [r \in Ranks |-> 0]
  /\ home = [r \in Ranks |-> 0]
  /\ handlers = {}
  /\ pc = [r \in Ranks |-> "run"]
  /\ call = [r \in Ranks |-> "none"]
  /\ rh = [r \in Ranks |-> Dummy(r, 0)]
  /\ cas = [r \in Ranks |-> 0]

Goto(r, l) == pc' = [pc EXCEPT ![r] = l]

\* checkin of a written region: add_dirty_region marks the cache dirty, and
\* begins a writeback of everything when the number of dirty blocks allows no
\* more (full).
Checkin(r, full) ==
  /\ pc[r] = "run"
  /\ written[r] < MaxWrites[r]
  /\ written' = [written EXCEPT ![r] = @ + 1]
  /\ dirty' = [dirty EXCEPT ![r] = TRUE]
  /\ begun' = IF full THEN [begun EXCEPT ![r] = written[r] + 1] ELSE begun
  /\ UNCHANGED <<epochVars, home, handlers, ctlVars>>

\* release_lazy: a handler when something is dirty, else the dummy.
ReleaseLazy(r) ==
  LET h == IF dirty[r] THEN HandlerFor(r) ELSE Dummy(r, written[r]) IN
  /\ pc[r] = "run"
  /\ Cardinality(handlers \cup {h}) <= MaxHandlers
  /\ handlers' = handlers \cup {h}
  /\ UNCHANGED <<epochVars, dataVars, ctlVars>>

ReleaseCall(r) ==
  /\ pc[r] = "run"
  /\ call' = [call EXCEPT ![r] = "release"]
  /\ Goto(r, "begin")
  /\ UNCHANGED <<epochVars, dataVars, handlers, rh, cas>>

\* Mutant: acquire that waits for the releaser without cleaning its own cache.
AcquireCallNoClean(r) ==
  /\ pc[r] = "run"
  /\ \E h \in handlers : rh' = [rh EXCEPT ![r] = h]
  /\ call' = [call EXCEPT ![r] = "acquire"]
  /\ Goto(r, "ensure")
  /\ UNCHANGED <<epochVars, dataVars, handlers, cas>>

\* acquire(rh): a thief or a joiner got the handler of the task it resumes.
AcquireCall(r) ==
  /\ pc[r] = "run"
  /\ \E h \in handlers : rh' = [rh EXCEPT ![r] = h]
  /\ call' = [call EXCEPT ![r] = "acquire"]
  /\ Goto(r, "begin")
  /\ UNCHANGED <<epochVars, dataVars, handlers, cas>>

\* poll, which does nothing unless somebody asked for the next epoch.
PollCall(r) ==
  /\ pc[r] = "run"
  /\ requested[r] > current[r]
  /\ call' = [call EXCEPT ![r] = "poll"]
  /\ Goto(r, "begin")
  /\ UNCHANGED <<epochVars, dataVars, handlers, rh, cas>>

\* ensure_all_cache_clean: writeback_begin issues the puts; writeback_complete
\* flushes them, then moves to the next epoch.
WritebackBegin(r) ==
  /\ pc[r] = "begin"
  /\ begun' = [begun EXCEPT ![r] = written[r]]
  /\ Goto(r, "flush")
  /\ UNCHANGED <<epochVars, dirty, written, home, handlers, call, rh, cas>>

\* Mutant: writeback_complete that does not wait for the puts.
WritebackNoFlush(r) ==
  /\ pc[r] = "flush"
  /\ Goto(r, "epoch")
  /\ UNCHANGED <<epochVars, dataVars, handlers, call, rh, cas>>

WritebackFlush(r) ==
  /\ pc[r] = "flush"
  /\ home' = [home EXCEPT ![r] = begun[r]]
  /\ Goto(r, "epoch")
  /\ UNCHANGED <<epochVars, dirty, written, begun, handlers, call, rh, cas>>

\* What follows ensure_all_cache_clean in each fence.
AfterClean(r) ==
  CASE call[r] = "acquire" -> "ensure"
    [] call[r] = "poll"    -> "check"
    [] call[r] = "release" -> "run"

Returned(r) == call' = [call EXCEPT ![r] = "none"]

\* Mutant: writeback_complete that does not announce the new epoch.
IncrementEpochForgotten(r) ==
  /\ pc[r] = "epoch"
  /\ dirty' = [dirty EXCEPT ![r] = FALSE]
  /\ Goto(r, AfterClean(r))
  /\ IF AfterClean(r) = "run" THEN Returned(r) ELSE UNCHANGED call
  /\ UNCHANGED <<epochVars, written, begun, home, handlers, rh, cas>>

IncrementEpoch(r) ==
  /\ pc[r] = "epoch"
  /\ dirty' = [dirty EXCEPT ![r] = FALSE]
  /\ current' = [current EXCEPT ![r] = IF dirty[r] THEN @ + 1 ELSE @]
  /\ Goto(r, AfterClean(r))
  /\ IF AfterClean(r) = "run" THEN Returned(r) ELSE UNCHANGED call
  /\ UNCHANGED <<requested, remote, written, begun, home, handlers, rh, cas>>

\* poll's closing ITYR_CHECK(!release_requested()).
PollDone(r) ==
  /\ pc[r] = "check"
  /\ Goto(r, "run")
  /\ Returned(r)
  /\ UNCHANGED <<epochVars, dataVars, handlers, rh, cas>>

\* ensure_released: nothing to wait for if the handler is a dummy, is one's
\* own, or is covered by an epoch already known to have come.
ReleaseNeeded(r) == rh[r].target # r /\ rh[r].epoch > 0

EnsureReleased(r) ==
  /\ pc[r] = "ensure"
  /\ IF ReleaseNeeded(r) /\ remote[r][rh[r].target] < rh[r].epoch
     THEN /\ cas' = [cas EXCEPT ![r] = remote[r][rh[r].target]]
          /\ Goto(r, "request")
     ELSE /\ cas' = cas
          /\ Goto(r, "invalidate")
  /\ UNCHANGED <<epochVars, dataVars, handlers, call, rh>>

\* request_release: one round of the compare-and-swap loop that raises the
\* target's requested_epoch, unless somebody has raised it far enough.
RequestRelease(r) ==
  LET t == rh[r].target IN
  /\ pc[r] = "request"
  /\ IF requested[t] = cas[r]
     THEN /\ requested' = [requested EXCEPT ![t] = rh[r].epoch]
          /\ cas' = cas
          /\ Goto(r, "wait")
     ELSE /\ requested' = requested
          /\ cas' = [cas EXCEPT ![r] = requested[t]]
          /\ Goto(r, IF requested[t] < rh[r].epoch THEN "request" ELSE "wait")
  /\ UNCHANGED <<current, remote, dataVars, handlers, call, rh>>

\* Mutant: takes the epoch it asked for as come.
GetRemoteEpochAssumed(r) ==
  LET t == rh[r].target IN
  /\ pc[r] = "wait"
  /\ remote' = [remote EXCEPT ![r][t] = rh[r].epoch]
  /\ Goto(r, "invalidate")
  /\ UNCHANGED <<current, requested, dataVars, handlers, call, rh, cas>>

\* get_remote_epoch, and the loop's condition.
GetRemoteEpoch(r) ==
  LET t == rh[r].target IN
  /\ pc[r] = "wait"
  /\ remote' = [remote EXCEPT ![r][t] = current[t]]
  /\ Goto(r, IF current[t] < rh[r].epoch THEN "wait" ELSE "invalidate")
  /\ UNCHANGED <<current, requested, dataVars, handlers, call, rh, cas>>

\* invalidate_all: from here on the rank reads what is at home.
InvalidateAll(r) ==
  /\ pc[r] = "invalidate"
  /\ Goto(r, "run")
  /\ rh' = [rh EXCEPT ![r] = Dummy(r, 0)]
  /\ cas' = [cas EXCEPT ![r] = 0]
  /\ Returned(r)
  /\ UNCHANGED <<epochVars, dataVars, handlers>>

\* The steps inside a fence.
FenceStep(r) ==
  \/ WritebackBegin(r)
  \/ WritebackFlush(r)
  \/ IncrementEpoch(r)
  \/ PollDone(r)
  \/ EnsureReleased(r)
  \/ RequestRelease(r)
  \/ GetRemoteEpoch(r)
  \/ InvalidateAll(r)

RankStep(r) ==
  \/ Checkin(r, TRUE)
  \/ Checkin(r, FALSE)
  \/ ReleaseLazy(r)
  \/ ReleaseCall(r)
  \/ AcquireCall(r)
  \/ PollCall(r)
  \/ FenceStep(r)

Next == \E r \in Ranks : RankStep(r)

Spec == Init /\ [][Next]_vars

\* A worker polls whenever it forks and whenever its scheduler looks for work,
\* and goes on with a fence it has begun.
Fairness == \A r \in Ranks : WF_vars(FenceStep(r)) /\ WF_vars(PollCall(r))

FairSpec == Spec /\ Fairness

-----------------------------------------------------------------------------
(* Properties.                                                              *)

Pcs == {"run", "begin", "flush", "epoch", "check", "ensure", "request",
        "wait", "invalidate"}

TypeOK ==
  /\ current \in [Ranks -> Nat]
  /\ requested \in [Ranks -> Nat]
  /\ remote \in [Ranks -> [Ranks -> Nat]]
  /\ dirty \in [Ranks -> BOOLEAN]
  /\ written \in [Ranks -> Nat]
  /\ begun \in [Ranks -> Nat]
  /\ home \in [Ranks -> Nat]
  /\ handlers \in SUBSET Handlers
  /\ pc \in [Ranks -> Pcs]
  /\ call \in [Ranks -> {"none", "release", "acquire", "poll"}]
  /\ rh \in [Ranks -> Handlers]
  /\ cas \in [Ranks -> Nat]

\* Release consistency: when acquire(rh) comes to invalidate the cache, every
\* write that the releaser had checked in when it made the handler is at home.
AcquiredIsReleased ==
  \A r \in Ranks : pc[r] = "invalidate" => home[rh[r].by] >= rh[r].upto

\* The ITYR_CHECK at the end of poll cannot fail, whatever other ranks request
\* in the meantime.
PollCheckHolds ==
  \A r \in Ranks : pc[r] = "check" => requested[r] <= current[r]

\* A rank is never asked for an epoch that no writeback of it would bring.
RequestsAreServable ==
  \A r \in Ranks :
    /\ requested[r] <= current[r] + 1
    /\ requested[r] = current[r] + 1 => dirty[r]

\* The cached epoch of another rank is never ahead of that rank.
CachedEpochsLag == \A r, t \in Ranks : remote[r][t] <= current[t]

-----------------------------------------------------------------------------
(* The inductive invariant behind them.                                     *)

\* The puts issued cover the flushed ones and not more than was written, and a
\* rank whose has_dirty_cache_ is off has everything at home.
CountsOrdered ==
  \A r \in Ranks :
    /\ home[r] <= begun[r] /\ begun[r] <= written[r]
    /\ ~dirty[r] => home[r] = written[r]
    /\ pc[r] = "flush" => begun[r] = written[r]
    /\ pc[r] = "epoch" => home[r] = written[r]

\* What a handler stands for is at home, or will be in an epoch that is at
\* most the next one of a rank that still has dirty data.
Sound(h) ==
  /\ h.upto <= written[h.by]
  /\ h.epoch = 0 => home[h.by] >= h.upto
  /\ h.epoch > 0 =>
       /\ h.by = h.target
       /\ h.epoch <= current[h.by] + 1
       /\ h.epoch = current[h.by] + 1 => dirty[h.by]
       /\ h.epoch <= current[h.by] => home[h.by] >= h.upto

HandlersSound == (\A h \in handlers : Sound(h)) /\ (\A r \in Ranks : Sound(rh[r]))

\* A rank past ensure_all_cache_clean is clean until its fence returns.
FenceInv ==
  \A r \in Ranks :
    /\ pc[r] \in {"begin", "flush", "epoch"} => call[r] # "none"
    /\ pc[r] \in {"check", "ensure", "request", "wait", "invalidate"} => ~dirty[r]
    /\ pc[r] \in {"request", "wait"} => ReleaseNeeded(r)
    /\ pc[r] = "invalidate" => home[rh[r].by] >= rh[r].upto

ReleaseInv ==
  /\ TypeOK
  /\ RequestsAreServable
  /\ CachedEpochsLag
  /\ CountsOrdered
  /\ HandlersSound
  /\ FenceInv

-----------------------------------------------------------------------------
\* An acquire returns, also when two ranks acquire from each other.
AcquireReturns == \A r \in Ranks : (pc[r] = "ensure") ~> (pc[r] = "run")
=============================================================================
