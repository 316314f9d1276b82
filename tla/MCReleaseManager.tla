-------------------------- MODULE MCReleaseManager --------------------------
(* ReleaseManager on two ranks that both write and acquire.                 *)
EXTENDS ReleaseManager

\* Every rank writes twice.
TwoWritesEach == [r \in Ranks |-> 2]
=============================================================================
