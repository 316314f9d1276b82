--------------------------- MODULE MCCacheManager ---------------------------
(* CacheManager on two small instances; blocks are numbered by their        *)
(* addresses.                                                               *)
EXTENDS CacheManager, TLC

CONSTANTS r0, r1, r2

\* Two ranks share one block of two regions that are fetched together: false
\* sharing.  One region is written twice.
Share ==
  [ranks |-> {r0, r1}, blocks |-> {1}, regions |-> {1, 2}, subBlocks |-> {{1, 2}},
   slots |-> 1, maxDirty |-> 1, requests |-> {<<<<1, {x}>>>> : x \in {1, 2}}, maxOut |-> 1,
   maxWrites |-> [l \in {1} \X {1, 2} |-> IF l = <<1, 1>> THEN 2 ELSE 1]]

\* One rank has two slots for three blocks, and uses blocks and pairs of them.
Span ==
  [ranks |-> {r2}, blocks |-> 1..3, regions |-> {1}, subBlocks |-> {{1}},
   slots |-> 2, maxDirty |-> 2,
   requests |-> {<<<<b, {1}>>>> : b \in 1..3} \cup {<<<<b, {1}>>, <<b + 1, {1}>>>> : b \in 1..2},
   maxOut |-> 2, maxWrites |-> [l \in (1..3) \X {1} |-> IF l = <<1, 1>> THEN 2 ELSE 1]]

ShareAndSpan == <<Share, Span>>
RankSymmetry == Permutations({r0, r1})
=============================================================================
