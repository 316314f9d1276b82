--------------------------- MODULE MCGlobalVector ---------------------------
(* The loops on up to five elements, and two vectors of up to three.        *)
EXTENDS GlobalVector

Par(cutoff, checkout) == [par |-> TRUE, cutoff |-> cutoff, checkout |-> checkout]
Serial(checkout) == [par |-> FALSE, cutoff |-> 0, checkout |-> checkout]
Job(fn, pol, n, mode, dst, trivial) ==
  [fn |-> fn, pol |-> pol, n |-> n, mode |-> mode, dst |-> dst, trivial |-> trivial,
   sched |-> "stealing"]

LoopJobs ==
  LET pols == {Par(1, 1), Par(3, 2), Serial(2)} IN
  {Job(fn, pol, n, "pointer", "dst", TRUE) :
     fn \in {"fill", "transform_reduce", "transform_reduce2", "reduce"}, pol \in pols, n \in {0, 1, 4}}
  \cup {Job(fn, pol, n, "pointer", dst, trivial) :
     fn \in {"transform", "transform2", "scan"}, pol \in pols, n \in {1, 4}, dst \in {"src", "dst"},
     trivial \in BOOLEAN}
  \cup {Job(fn, pol, 4, "pointer", dst, TRUE) :
     fn \in {"transform_scan_no_init", "inclusive_scan", "inclusive_scan_no_init"}, pol \in pols,
     dst \in {"src", "dst"}}
  \cup {Job("scan", Par(2, 1), 5, "pointer", dst, TRUE) : dst \in {"src", "dst"}}
  \cup {Job(fn, pol, 4, mode, "dst", TRUE) :
     fn \in {"for_each", "for_each2", "for_each3"}, mode \in {"read_write", "no_access"}, pol \in pols}
  \cup {Job(fn, pol, 4, "no_access", "dst", TRUE) :
     fn \in {"transform", "transform_reduce"}, pol \in pols}
  \cup {[Job(fn, pol, 4, "pointer", "dst", TRUE) EXCEPT !.sched = "serial"] :
     fn \in {"transform", "reduce", "scan"}, pol \in pols}
  \cup {Job("scan", pol, 4, "no_access", "dst", TRUE) : pol \in {Serial(2), Par(2, 2)}}

Opts(coll, construct, destruct, cutoff) ==
  [coll |-> coll, construct |-> construct, destruct |-> destruct, cutoff |-> cutoff]

VectorJobs ==
  {[fn |-> "vector", pol |-> Serial(1), trivial |-> FALSE, sched |-> "stealing", opts |-> [v1 |-> o1, v2 |-> o2]] :
     o1 \in {Opts(FALSE, FALSE, FALSE, 2), Opts(FALSE, TRUE, TRUE, 1)},
     o2 \in {Opts(TRUE, TRUE, FALSE, 2)}}

DirectScan == {Job("scan", Par(1, 1), 2, "no_access", "dst", TRUE)}
AllJobs == LoopJobs \cup VectorJobs
=============================================================================
