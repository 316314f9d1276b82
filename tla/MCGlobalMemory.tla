--------------------------- MODULE MCGlobalMemory ---------------------------
(* The two kinds of global memory: CollMem, the memory of collective         *)
(* allocations, and RemotableResource, the memory one rank allocates.  They  *)
(* share no state, so a behaviour is one of either, and Which says of which. *)
(*                                                                           *)
(* CollMem has allocations of three segments and of one.  Page 0 of rank 1   *)
(* and page 13 of rank 0 are taken, so that a first, a second and a third    *)
(* trial can fail.  RemotableResource has a window of two blocks and a page. *)
(* Its small request leaves unaligned rests; the large one is more than a    *)
(* block and no multiple of the page size.                                   *)
EXTENDS CollMem, RemotableResource

VARIABLE which

MCMems == {{1, 2, 3}, {4}}
MCCheckouts == {<<1, 2>>, <<2, 3>>, <<4>>}
MCForeign == [r \in Ranks |-> IF r = 0 THEN {13} ELSE {0}]
MCRequests == {<<2, 4>>, <<15, 2>>}
RankSymmetry == Permutations(Others)

MCInit ==
  /\ CollInit /\ ResInit
  /\ which \in {"collective", "noncollective"}
  /\ which = "collective" => heap = EmptyHeap

MCNext ==
  \/ which = "collective" /\ CollNext /\ UNCHANGED <<resVars, which>>
  \/ which = "noncollective" /\ ResNext /\ UNCHANGED <<allVars, which>>

MCSpec == MCInit /\ [][MCNext]_<<allVars, resVars, which>>
=============================================================================
