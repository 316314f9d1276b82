----------------------------- MODULE MCForkJoin -----------------------------
(* ForkJoin on small race-free programs over three locations.               *)
EXTENDS ForkJoin, TLC

CONSTANTS w0, w1, w2, la, lb, lc

W(l, v) == [do |-> "write", loc |-> l, val |-> v]
R(l, v) == [do |-> "read", loc |-> l, val |-> v]
B == [do |-> "begin", own |-> TRUE]
L == [do |-> "begin", own |-> FALSE]
F(t) == [do |-> "fork", child |-> t]
J(t) == [do |-> "join", child |-> t]
E == [do |-> "end"]
P == [do |-> "poll"]
Put(l, v) == [loc |-> l, val |-> v]
C == [do |-> "coll", puts |-> (w0 :> Put(la, 7) @@ w1 :> Put(lb, 7) @@ w2 :> Put(lc, 7))]

Before == w0 :> Put(la, 1) @@ w1 :> Put(lb, 2) @@ w2 :> Put(lc, 3)
Program(code, va, vb, vc) ==
  [code |-> code, before |-> Before, after |-> (la :> va @@ lb :> vb @@ lc :> vc)]

\* Nested parallel_invoke: the root and thread 2 both fork, and read what
\* their children and the root wrote before.
Nested == Program(<<
  <<W(la, 4), B, F(2), R(la, 4), J(2), E, R(lb, 5), R(lc, 6)>>,
  <<R(la, 4), B, F(3), W(lb, 5), J(3), E, R(lc, 6)>>,
  <<R(la, 4), W(lc, 6)>> >>, 4, 5, 6)

\* Three tasks in one parallel_invoke, whose results are read after it.
ThreeTasks == Program(<<
  <<R(lb, 2), R(lc, 3), B, F(2), F(3), W(la, 4), J(3), J(2), E, R(la, 4), R(lb, 5), R(lc, 6)>>,
  <<W(lb, 5)>>,
  <<W(lc, 6)>> >>, 4, 5, 6)

\* Two after each other: locations change their writer.
Sequence2 == Program(<<
  <<B, F(2), R(lb, 2), J(2), E, R(la, 4), W(la, 5), B, F(3), R(la, 5), J(3), E, R(lb, 6), W(lb, 7)>>,
  <<W(la, 4), R(lb, 2)>>,
  <<R(la, 5), W(lb, 6)>> >>, 5, 7, 3)

\* Two levels of a parallel loop with one handler.
Loop == Program(<<
  <<W(la, 4), B, F(2), L, F(3), P, R(la, 4), J(3), E, J(2), E, R(lb, 5), R(lc, 6), W(lc, 8)>>,
  <<P, R(la, 4), W(lb, 5)>>,
  <<P, R(la, 4), W(lc, 6)>> >>, 4, 5, 8)

\* A collective task between two parallel phases.
Collective == Program(<<
  <<B, F(2), W(lb, 5), J(2), E, R(la, 4), C, R(lb, 7), B, F(3), R(la, 7), J(3), E, R(lc, 8)>>,
  <<W(la, 4)>>,
  <<R(lc, 7), W(lc, 8)>> >>, 7, 7, 8)

SmallPrograms == {Nested, ThreeTasks, Sequence2, Loop, Collective}
=============================================================================
