------------------------------- MODULE MCAdws -------------------------------
(* Adws on small programs of task groups.                                   *)
EXTENDS Adws

B == [do |-> "begin"]
E == [do |-> "end"]
J(c) == [do |-> "join", child |-> c]
F(c, new, rest) == [do |-> "fork", child |-> c, new |-> new, rest |-> rest]

\* Groups inside groups, deeper than the distribution tree goes.
Deep == [ranks |-> 2, body |-> <<
  <<B, F(2, 1, 1), J(2), E, B, F(5, 1, 1), J(5), E>>,
  <<B, F(3, 1, 1), J(3), E>>,
  <<B, F(4, 1, 1), J(4), E>>,
  <<>>,
  <<B, F(6, 1, 1), J(6), E>>,
  <<>> >>]

\* Tasks of every kind at once: one for the mailbox, one for the migration
\* queue and one that is run at once, each with a group of its own.
Mixed == [ranks |-> 2, body |-> <<
  <<B, F(2, 1, 2), F(3, 1, 3), F(6, 1, 1), J(6), J(3), J(2), E>>,
  <<B, F(4, 1, 1), J(4), E>>,
  <<B, F(5, 1, 1), J(5), E>>,
  <<>>, <<>>,
  <<B, F(7, 1, 1), J(7), E>>,
  <<>> >>]

\* Several tasks of one rank, then another group.
Many == [ranks |-> 2, body |-> <<
  <<B, F(2, 1, 1), F(3, 1, 1), F(4, 1, 1), J(4), J(3), J(2), E, B, F(5, 1, 1), J(5), E>>,
  <<>>, <<>>, <<>>, <<>> >>]

\* Three ranks and their steals.
Three == [ranks |-> 3, body |-> <<
  <<B, F(2, 1, 3), F(3, 1, 2), J(3), J(2), E>>,
  <<B, F(4, 1, 1), J(4), E>>,
  <<B, F(5, 1, 1), J(5), E>>,
  <<>>, <<>> >>]

\* A task that hands nothing on to a rank inside its range, then another group.
Told == [ranks |-> 3, body |-> <<
  <<B, F(2, 1, 1), J(2), E, B, F(3, 1, 2), J(3), E>>,
  <<>>,
  <<B, F(4, 1, 1), J(4), E>>,
  <<>> >>]

\* A task of a nested group tells a rank inside its range of the node of that
\* group; then the same ranks are in a nested group of another owner.
Late == [ranks |-> 3, body |-> <<
  <<B, F(2, 2, 1), J(2), E, B, F(4, 5, 1), J(4), E>>,
  <<B, F(3, 3, 1), J(3), E>>,
  <<>>,
  <<B, F(5, 3, 2), J(5), E>>,
  <<>> >>]

LatePrograms == {Late}
MCPrograms == {Deep, Mixed, Many, Three, Told}
=============================================================================
