---------------------------- MODULE MCController ----------------------------
(***************************************************************************)
(* Controller for TLC.                                                     *)
(***************************************************************************)
EXTENDS Controller, TLC

CONSTANTS n1, n2, n3, t1, t2

OneTag   == [n \in NodeInfos |-> t1]
TwoTags  == [n \in NodeInfos |-> IF n = n1 THEN t1 ELSE t2]
OnePeriod == [n \in NodeInfos |-> 60]
\* The third node has another PullInterval: taking it over ends in "blocked".
TwoPeriods == [n \in NodeInfos |-> IF n = n3 THEN 30 ELSE 60]

\* Users are interchangeable, and so are the nodes with the same PullInterval.
Symmetry == Permutations(Users) \cup Permutations({n1, n2})
=============================================================================
