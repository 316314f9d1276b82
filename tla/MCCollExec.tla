----------------------------- MODULE MCCollExec -----------------------------
(* CollExec, and RandWs in it, on small programs.                           *)
EXTENDS CollExec

F(c) == [do |-> "fork", child |-> c]
J(c) == [do |-> "join", child |-> c]
C == [do |-> "coll"]

\* Thread 1 is the root: two children, one after the other or nested, and
\* grandchildren.
Nested == [ranks |-> 3, body |-> <<
  <<F(2), F(3), J(3), J(2)>>,
  <<F(4), J(4)>>,
  <<F(5), J(5)>>,
  <<>>, <<>> >>]

\* A collective task while another thread runs, and one after it has ended, by
\* a root thread that may be on any rank.
Colls(k) == [ranks |-> k, body |-> <<<<F(2), C, J(2), C>>, <<>>, <<>>, <<>>, <<>> >>]

MCPrograms == {Nested} \cup {Colls(k) : k \in 1..4}
=============================================================================
