------------------------ MODULE ReleaseManagerProofs ------------------------
(***************************************************************************)
(* Release consistency of the lazy release protocol for every set of ranks *)
(* and any number of writes and handlers.                                  *)
(***************************************************************************)
EXTENDS ReleaseManager, TLAPS

\* Nothing is written, requested or handed out in the beginning.
LEMMA InitReleaseInv == Init => ReleaseInv
  BY RankAssumption
  DEF Init, ReleaseInv, TypeOK, RequestsAreServable, CachedEpochsLag,
      CountsOrdered, HandlersSound, Sound, FenceInv, Dummy, Handlers, Pcs

\* Every step of every rank preserves the invariant.
LEMMA NextReleaseInv == ReleaseInv /\ [Next]_vars => ReleaseInv'
<1> SUFFICES ASSUME ReleaseInv, [Next]_vars
             PROVE  ReleaseInv'
  OBVIOUS
<1> USE RankAssumption DEF epochVars, dataVars, ctlVars, Goto, TypeOK
<1>0. /\ TypeOK /\ RequestsAreServable /\ CachedEpochsLag
      /\ CountsOrdered /\ HandlersSound /\ FenceInv
  BY DEF ReleaseInv
\* The count of writes and the dirty flag grow together.
<1>1. ASSUME NEW r \in Ranks, NEW f \in BOOLEAN, Checkin(r, f)
      PROVE  ReleaseInv'
  <2>1. TypeOK'
    BY <1>0, <1>1
    DEF Checkin, Handlers, Pcs
  <2>2. RequestsAreServable'
    BY <1>0, <1>1
    DEF Checkin, RequestsAreServable
  <2>3. CachedEpochsLag'
    BY <1>0, <1>1
    DEF Checkin, CachedEpochsLag
  <2>4. CountsOrdered'
    BY <1>0, <1>1
    DEF Checkin, CountsOrdered
  <2>5. HandlersSound'
    <3>1. ASSUME NEW h \in Handlers, Sound(h)
          PROVE  Sound(h)'
      BY <1>0, <1>1, <3>1 DEF Checkin, Sound, Handlers
    <3>2. handlers' = handlers /\ rh' = rh
      BY <1>1 DEF Checkin
    <3>3. \A h \in handlers' : Sound(h)'
      BY <1>0, <3>1, <3>2 DEF HandlersSound
    <3>4. ASSUME NEW q \in Ranks
          PROVE  Sound(rh[q])'
      <4>1. rh[q] \in Handlers /\ Sound(rh[q])
        BY <1>0 DEF HandlersSound
      <4>2. QED
        BY <3>1, <3>2, <4>1 DEF Sound
    <3>5. QED
      BY <3>3, <3>4 DEF HandlersSound
  <2>6. FenceInv'
    BY <1>0, <1>1
    DEF Checkin, FenceInv, ReleaseNeeded, Handlers
  <2>7. QED
    BY <2>1, <2>2, <2>3, <2>4, <2>5, <2>6 DEF ReleaseInv
\* The new handler is sound: a clean rank has everything at home.
<1>2. ASSUME NEW r \in Ranks, ReleaseLazy(r)
      PROVE  ReleaseInv'
  <2>1. TypeOK'
    BY <1>0, <1>2
    DEF ReleaseLazy, HandlerFor, Dummy, Handlers, Pcs
  <2>2. RequestsAreServable'
    BY <1>0, <1>2
    DEF ReleaseLazy, HandlerFor, Dummy, RequestsAreServable
  <2>3. CachedEpochsLag'
    BY <1>0, <1>2
    DEF ReleaseLazy, HandlerFor, Dummy, CachedEpochsLag
  <2>4. CountsOrdered'
    BY <1>0, <1>2
    DEF ReleaseLazy, HandlerFor, Dummy, CountsOrdered
  <2>5. HandlersSound'
    BY <1>0, <1>2
    DEF ReleaseLazy, HandlerFor, Dummy, HandlersSound, Sound, Handlers, CountsOrdered
  <2>6. FenceInv'
    BY <1>0, <1>2
    DEF ReleaseLazy, HandlerFor, Dummy, FenceInv, ReleaseNeeded, Handlers
  <2>7. QED
    BY <2>1, <2>2, <2>3, <2>4, <2>5, <2>6 DEF ReleaseInv
<1>3. ASSUME NEW r \in Ranks, ReleaseCall(r)
      PROVE  ReleaseInv'
  <2>1. TypeOK'
    BY <1>0, <1>3
    DEF ReleaseCall, Handlers, Pcs
  <2>2. RequestsAreServable'
    BY <1>0, <1>3
    DEF ReleaseCall, RequestsAreServable
  <2>3. CachedEpochsLag'
    BY <1>0, <1>3
    DEF ReleaseCall, CachedEpochsLag
  <2>4. CountsOrdered'
    BY <1>0, <1>3
    DEF ReleaseCall, CountsOrdered
  <2>5. HandlersSound'
    BY <1>0, <1>3
    DEF ReleaseCall, HandlersSound, Sound, Handlers
  <2>6. FenceInv'
    BY <1>0, <1>3
    DEF ReleaseCall, FenceInv, ReleaseNeeded, Handlers
  <2>7. QED
    BY <2>1, <2>2, <2>3, <2>4, <2>5, <2>6 DEF ReleaseInv
<1>4. ASSUME NEW r \in Ranks, AcquireCall(r)
      PROVE  ReleaseInv'
  <2>1. TypeOK'
    BY <1>0, <1>4
    DEF AcquireCall, Handlers, Pcs
  <2>2. RequestsAreServable'
    BY <1>0, <1>4
    DEF AcquireCall, RequestsAreServable
  <2>3. CachedEpochsLag'
    BY <1>0, <1>4
    DEF AcquireCall, CachedEpochsLag
  <2>4. CountsOrdered'
    BY <1>0, <1>4
    DEF AcquireCall, CountsOrdered
  <2>5. HandlersSound'
    BY <1>0, <1>4
    DEF AcquireCall, HandlersSound, Sound, Handlers
  <2>6. FenceInv'
    BY <1>0, <1>4
    DEF AcquireCall, FenceInv, ReleaseNeeded, Handlers
  <2>7. QED
    BY <2>1, <2>2, <2>3, <2>4, <2>5, <2>6 DEF ReleaseInv
<1>5. ASSUME NEW r \in Ranks, PollCall(r)
      PROVE  ReleaseInv'
  <2>1. TypeOK'
    BY <1>0, <1>5
    DEF PollCall, Handlers, Pcs
  <2>2. RequestsAreServable'
    BY <1>0, <1>5
    DEF PollCall, RequestsAreServable
  <2>3. CachedEpochsLag'
    BY <1>0, <1>5
    DEF PollCall, CachedEpochsLag
  <2>4. CountsOrdered'
    BY <1>0, <1>5
    DEF PollCall, CountsOrdered
  <2>5. HandlersSound'
    BY <1>0, <1>5
    DEF PollCall, HandlersSound, Sound, Handlers
  <2>6. FenceInv'
    BY <1>0, <1>5
    DEF PollCall, FenceInv, ReleaseNeeded, Handlers
  <2>7. QED
    BY <2>1, <2>2, <2>3, <2>4, <2>5, <2>6 DEF ReleaseInv
<1>6. ASSUME NEW r \in Ranks, WritebackBegin(r)
      PROVE  ReleaseInv'
  <2>1. TypeOK'
    BY <1>0, <1>6
    DEF WritebackBegin, Handlers, Pcs
  <2>2. RequestsAreServable'
    BY <1>0, <1>6
    DEF WritebackBegin, RequestsAreServable
  <2>3. CachedEpochsLag'
    BY <1>0, <1>6
    DEF WritebackBegin, CachedEpochsLag
  <2>4. CountsOrdered'
    BY <1>0, <1>6
    DEF WritebackBegin, CountsOrdered
  <2>5. HandlersSound'
    BY <1>0, <1>6
    DEF WritebackBegin, HandlersSound, Sound, Handlers
  <2>6. FenceInv'
    BY <1>0, <1>6
    DEF WritebackBegin, FenceInv, ReleaseNeeded, Handlers
  <2>7. QED
    BY <2>1, <2>2, <2>3, <2>4, <2>5, <2>6 DEF ReleaseInv
\* What is at home only grows.
<1>7. ASSUME NEW r \in Ranks, WritebackFlush(r)
      PROVE  ReleaseInv'
  <2>1. TypeOK'
    BY <1>0, <1>7
    DEF WritebackFlush, Handlers, Pcs
  <2>2. RequestsAreServable'
    BY <1>0, <1>7
    DEF WritebackFlush, RequestsAreServable
  <2>3. CachedEpochsLag'
    BY <1>0, <1>7
    DEF WritebackFlush, CachedEpochsLag
  <2>4. CountsOrdered'
    BY <1>0, <1>7
    DEF WritebackFlush, CountsOrdered
  <2>5. HandlersSound'
    <3>1. ASSUME NEW h \in Handlers, Sound(h)
          PROVE  Sound(h)'
      BY <1>0, <1>7, <3>1 DEF WritebackFlush, Sound, Handlers, CountsOrdered
    <3>2. handlers' = handlers /\ rh' = rh
      BY <1>7 DEF WritebackFlush
    <3>3. \A h \in handlers' : Sound(h)'
      BY <1>0, <3>1, <3>2 DEF HandlersSound
    <3>4. ASSUME NEW q \in Ranks
          PROVE  Sound(rh[q])'
      <4>1. rh[q] \in Handlers /\ Sound(rh[q])
        BY <1>0 DEF HandlersSound
      <4>2. QED
        BY <3>1, <3>2, <4>1 DEF Sound
    <3>5. QED
      BY <3>3, <3>4 DEF HandlersSound
  <2>6. FenceInv'
    BY <1>0, <1>7
    DEF WritebackFlush, FenceInv, ReleaseNeeded, Handlers, CountsOrdered
  <2>7. QED
    BY <2>1, <2>2, <2>3, <2>4, <2>5, <2>6 DEF ReleaseInv
\* The handlers of the epoch that comes are all at home.
<1>8. ASSUME NEW r \in Ranks, IncrementEpoch(r)
      PROVE  ReleaseInv'
  <2>1. TypeOK'
    <3>1. AfterClean(r) \in Pcs
      BY <1>0, <1>8 DEF IncrementEpoch, AfterClean, FenceInv, Pcs
    <3>2. current' \in [Ranks -> Nat] /\ dirty' \in [Ranks -> BOOLEAN]
      BY <1>0, <1>8 DEF IncrementEpoch
    <3>3. QED
      BY <1>0, <1>8, <3>1, <3>2 DEF IncrementEpoch, Returned
  <2>2. RequestsAreServable'
    BY <1>0, <1>8
    DEF IncrementEpoch, AfterClean, Returned, RequestsAreServable
  <2>3. CachedEpochsLag'
    BY <1>0, <1>8
    DEF IncrementEpoch, AfterClean, Returned, CachedEpochsLag
  <2>4. CountsOrdered'
    BY <1>0, <1>8
    DEF IncrementEpoch, AfterClean, Returned, CountsOrdered
  <2>5. HandlersSound'
    <3>1. ASSUME NEW h \in Handlers, Sound(h)
          PROVE  Sound(h)'
      BY <1>0, <1>8, <3>1 DEF IncrementEpoch, Sound, Handlers, CountsOrdered
    <3>2. handlers' = handlers /\ rh' = rh
      BY <1>8 DEF IncrementEpoch
    <3>3. \A h \in handlers' : Sound(h)'
      BY <1>0, <3>1, <3>2 DEF HandlersSound
    <3>4. ASSUME NEW q \in Ranks
          PROVE  Sound(rh[q])'
      <4>1. rh[q] \in Handlers /\ Sound(rh[q])
        BY <1>0 DEF HandlersSound
      <4>2. QED
        BY <3>1, <3>2, <4>1 DEF Sound
    <3>5. QED
      BY <3>3, <3>4 DEF HandlersSound
  <2>6. FenceInv'
    BY <1>0, <1>8
    DEF IncrementEpoch, AfterClean, Returned, FenceInv, ReleaseNeeded, Handlers
  <2>7. QED
    BY <2>1, <2>2, <2>3, <2>4, <2>5, <2>6 DEF ReleaseInv
<1>9. ASSUME NEW r \in Ranks, PollDone(r)
      PROVE  ReleaseInv'
  <2>1. TypeOK'
    BY <1>0, <1>9
    DEF PollDone, Returned, Handlers, Pcs
  <2>2. RequestsAreServable'
    BY <1>0, <1>9
    DEF PollDone, Returned, RequestsAreServable
  <2>3. CachedEpochsLag'
    BY <1>0, <1>9
    DEF PollDone, Returned, CachedEpochsLag
  <2>4. CountsOrdered'
    BY <1>0, <1>9
    DEF PollDone, Returned, CountsOrdered
  <2>5. HandlersSound'
    BY <1>0, <1>9
    DEF PollDone, Returned, HandlersSound, Sound, Handlers
  <2>6. FenceInv'
    BY <1>0, <1>9
    DEF PollDone, Returned, FenceInv, ReleaseNeeded, Handlers
  <2>7. QED
    BY <2>1, <2>2, <2>3, <2>4, <2>5, <2>6 DEF ReleaseInv
\* An epoch that is known to have come has its writes at home.
<1>10. ASSUME NEW r \in Ranks, EnsureReleased(r)
      PROVE  ReleaseInv'
  <2>1. TypeOK'
    <3>1. rh[r].target \in Ranks /\ remote[r][rh[r].target] \in Nat
      BY <1>0 DEF Handlers
    <3>2. cas' \in [Ranks -> Nat] /\ pc' \in [Ranks -> Pcs]
      BY <1>0, <1>10, <3>1 DEF EnsureReleased, Pcs
    <3>3. QED
      BY <1>0, <1>10, <3>2 DEF EnsureReleased
  <2>2. RequestsAreServable'
    BY <1>0, <1>10
    DEF EnsureReleased, RequestsAreServable
  <2>3. CachedEpochsLag'
    BY <1>0, <1>10
    DEF EnsureReleased, CachedEpochsLag
  <2>4. CountsOrdered'
    BY <1>0, <1>10
    DEF EnsureReleased, CountsOrdered
  <2>5. HandlersSound'
    BY <1>0, <1>10
    DEF EnsureReleased, HandlersSound, Sound, Handlers
  <2>6. FenceInv'
    BY <1>0, <1>10
    DEF EnsureReleased, FenceInv, ReleaseNeeded, Handlers, HandlersSound, Sound, CachedEpochsLag, CountsOrdered
  <2>7. QED
    BY <2>1, <2>2, <2>3, <2>4, <2>5, <2>6 DEF ReleaseInv
\* The epoch asked for is one of a sound handler.
<1>11. ASSUME NEW r \in Ranks, RequestRelease(r)
      PROVE  ReleaseInv'
  <2>1. TypeOK'
    <3>1. rh[r].target \in Ranks /\ rh[r].epoch \in Nat
      BY <1>0 DEF Handlers
    <3>2. /\ requested' \in [Ranks -> Nat]
          /\ cas' \in [Ranks -> Nat]
          /\ pc' \in [Ranks -> Pcs]
      <4>1. CASE requested[rh[r].target] = cas[r]
        BY <1>0, <1>11, <3>1, <4>1 DEF RequestRelease, Pcs
      <4>2. CASE requested[rh[r].target] # cas[r]
        <5>1. requested[rh[r].target] \in Nat
          BY <1>0, <3>1
        <5>2. /\ requested' = requested
              /\ cas' = [cas EXCEPT ![r] = requested[rh[r].target]]
              /\ \E l \in {"request", "wait"} : pc' = [pc EXCEPT ![r] = l]
          BY <1>11, <4>2 DEF RequestRelease
        <5>3. QED
          BY <1>0, <5>1, <5>2 DEF Pcs
      <4>3. QED
        BY <4>1, <4>2
    <3>3. QED
      BY <1>0, <1>11, <3>2 DEF RequestRelease
  <2>2. RequestsAreServable'
    <3> DEFINE t == rh[r].target
    <3>1. t \in Ranks /\ rh[r].epoch \in Nat /\ rh[r].epoch > 0
      BY <1>0, <1>11 DEF RequestRelease, Handlers, FenceInv, ReleaseNeeded
    <3>2. /\ rh[r].epoch <= current[t] + 1
          /\ rh[r].epoch = current[t] + 1 => dirty[t]
      BY <1>0, <3>1 DEF HandlersSound, Sound
    <3>3. requested' = requested \/ requested' = [requested EXCEPT ![t] = rh[r].epoch]
      BY <1>11 DEF RequestRelease
    <3>4. current' = current /\ dirty' = dirty
      BY <1>11 DEF RequestRelease
    <3>5. QED
      BY <1>0, <3>1, <3>2, <3>3, <3>4 DEF RequestsAreServable
  <2>3. CachedEpochsLag'
    BY <1>0, <1>11
    DEF RequestRelease, CachedEpochsLag
  <2>4. CountsOrdered'
    BY <1>0, <1>11
    DEF RequestRelease, CountsOrdered
  <2>5. HandlersSound'
    BY <1>0, <1>11
    DEF RequestRelease, HandlersSound, Sound, Handlers
  <2>6. FenceInv'
    BY <1>0, <1>11
    DEF RequestRelease, FenceInv, ReleaseNeeded, Handlers
  <2>7. QED
    BY <2>1, <2>2, <2>3, <2>4, <2>5, <2>6 DEF ReleaseInv
\* The epoch that is read has come, so the handler's writes are at home.
<1>12. ASSUME NEW r \in Ranks, GetRemoteEpoch(r)
      PROVE  ReleaseInv'
  <2>1. TypeOK'
    BY <1>0, <1>12
    DEF GetRemoteEpoch, Handlers, Pcs
  <2>2. RequestsAreServable'
    BY <1>0, <1>12
    DEF GetRemoteEpoch, RequestsAreServable
  <2>3. CachedEpochsLag'
    BY <1>0, <1>12
    DEF GetRemoteEpoch, CachedEpochsLag
  <2>4. CountsOrdered'
    BY <1>0, <1>12
    DEF GetRemoteEpoch, CountsOrdered
  <2>5. HandlersSound'
    BY <1>0, <1>12
    DEF GetRemoteEpoch, HandlersSound, Sound, Handlers
  <2>6. FenceInv'
    <3> DEFINE t == rh[r].target
    <3>1. t \in Ranks /\ rh[r].epoch \in Nat /\ rh[r].epoch > 0 /\ rh[r].by = t
      BY <1>0, <1>12
      DEF GetRemoteEpoch, Handlers, FenceInv, ReleaseNeeded, HandlersSound, Sound
    <3>2. ~(current[t] < rh[r].epoch) => home[t] >= rh[r].upto
      BY <1>0, <3>1 DEF HandlersSound, Sound
    <3>3. pc' = [pc EXCEPT ![r] = IF current[t] < rh[r].epoch THEN "wait" ELSE "invalidate"]
      BY <1>12 DEF GetRemoteEpoch
    <3>4. UNCHANGED <<call, rh, dirty, home>>
      BY <1>12 DEF GetRemoteEpoch
    <3>5. pc[r] = "wait"
      BY <1>12 DEF GetRemoteEpoch
    <3>6. QED
      BY <1>0, <3>1, <3>2, <3>3, <3>4, <3>5 DEF FenceInv, ReleaseNeeded, Pcs
  <2>7. QED
    BY <2>1, <2>2, <2>3, <2>4, <2>5, <2>6 DEF ReleaseInv
<1>13. ASSUME NEW r \in Ranks, InvalidateAll(r)
      PROVE  ReleaseInv'
  <2>1. TypeOK'
    BY <1>0, <1>13
    DEF InvalidateAll, Dummy, Returned, Handlers, Pcs
  <2>2. RequestsAreServable'
    BY <1>0, <1>13
    DEF InvalidateAll, Dummy, Returned, RequestsAreServable
  <2>3. CachedEpochsLag'
    BY <1>0, <1>13
    DEF InvalidateAll, Dummy, Returned, CachedEpochsLag
  <2>4. CountsOrdered'
    BY <1>0, <1>13
    DEF InvalidateAll, Dummy, Returned, CountsOrdered
  <2>5. HandlersSound'
    <3>1. Sound(Dummy(r, 0)) /\ Dummy(r, 0) \in Handlers
      BY <1>0 DEF Sound, Dummy, Handlers
    <3>2. /\ handlers' = handlers /\ rh' = [rh EXCEPT ![r] = Dummy(r, 0)]
          /\ UNCHANGED <<current, dirty, written, home>>
      BY <1>13 DEF InvalidateAll
    <3>3. QED
      BY <1>0, <3>1, <3>2 DEF HandlersSound, Sound
  <2>6. FenceInv'
    BY <1>0, <1>13
    DEF InvalidateAll, Dummy, Returned, FenceInv, ReleaseNeeded, Handlers
  <2>7. QED
    BY <2>1, <2>2, <2>3, <2>4, <2>5, <2>6 DEF ReleaseInv
<1>14. CASE UNCHANGED vars
  BY <1>0, <1>14
  DEF vars, ReleaseInv, RequestsAreServable, CachedEpochsLag, CountsOrdered,
      HandlersSound, Sound, FenceInv, ReleaseNeeded
<1>15. QED
  BY <1>1, <1>2, <1>3, <1>4, <1>5, <1>6, <1>7, <1>8, <1>9, <1>10, <1>11, <1>12, <1>13, <1>14
  DEF Next, RankStep, FenceStep

\* The inductive invariant holds in every behaviour.
THEOREM ReleaseInvariant == Spec => []ReleaseInv
  BY InitReleaseInv, NextReleaseInv, PTL DEF Spec

\* Every variable keeps its type.
THEOREM TypeCorrect == Spec => []TypeOK
<1>1. ReleaseInv => TypeOK
  BY DEF ReleaseInv
<1>2. QED
  BY <1>1, ReleaseInvariant, PTL

\* acquire(rh) invalidates only when what the releaser had written is at home.
THEOREM ReleaseConsistency == Spec => []AcquiredIsReleased
<1>1. ReleaseInv => AcquiredIsReleased
  BY DEF ReleaseInv, FenceInv, AcquiredIsReleased
<1>2. QED
  BY <1>1, ReleaseInvariant, PTL

\* The ITYR_CHECK at the end of poll never fails: a rank that has just become
\* clean has no request for a later epoch than the one it has reached.
THEOREM PollCheck == Spec => []PollCheckHolds
<1>1. ReleaseInv => PollCheckHolds
  <2> SUFFICES ASSUME ReleaseInv, NEW r \in Ranks, pc[r] = "check"
               PROVE  requested[r] <= current[r]
    BY DEF PollCheckHolds
  <2>1. requested[r] \in Nat /\ current[r] \in Nat /\ ~dirty[r]
    BY DEF ReleaseInv, TypeOK, FenceInv
  <2>2. requested[r] <= current[r] + 1 /\ requested[r] # current[r] + 1
    BY <2>1 DEF ReleaseInv, RequestsAreServable
  <2>3. QED
    BY <2>1, <2>2
<1>2. QED
  BY <1>1, ReleaseInvariant, PTL

\* Every request for an epoch can be served by the rank it is put to.
THEOREM Servable == Spec => []RequestsAreServable
<1>1. ReleaseInv => RequestsAreServable
  BY DEF ReleaseInv
<1>2. QED
  BY <1>1, ReleaseInvariant, PTL

\* What a rank has cached of the epoch of another is never ahead of it, so the
\* loop of acquire that the cached epoch skips was not needed.
THEOREM CachedLag == Spec => []CachedEpochsLag
<1>1. ReleaseInv => CachedEpochsLag
  BY DEF ReleaseInv
<1>2. QED
  BY <1>1, ReleaseInvariant, PTL
=============================================================================
