--------------------------- MODULE MCRankReports ---------------------------
(* Instances of RankReports for TLC: lines of the hours from midnight, from *)
(* noon and from one o'clock, over two days; the first two share a second   *)
(* once they are stored.  One more site is never asked about.               *)
EXTENDS RankReports, TLC

CONSTANTS l1, l2, l3, l4, site, other, v1, v2

MCLines   == {l1, l2, l3, l4}
MCOwner   == [l \in Lines |-> IF l = l4 THEN other ELSE site]
\* 12:30:00 and 00:30:00 of the first day, 13:00:30 of the next, 12:30:00 again.
MCLogged  == l1 :> 45000 @@ l2 :> 1800 @@ l3 :> 133230 @@ l4 :> 45000
MCAddr    == l1 :> v1 @@ l2 :> v2 @@ l3 :> v1 @@ l4 :> v2
MCCost    == l1 :> 3 @@ l2 :> 1 @@ l3 :> 2 @@ l4 :> 1

Ask1(c, f) == [owner |-> site, cmd |-> c, form |-> f, from |-> 0, to |-> 172800]
Ask2(c, f) == [owner |-> site, cmd |-> c, form |-> f, from |-> 1800, to |-> 133230]
MCFlinkQuestions ==
    {Ask1("pv", "hour"), Ask2("pv", "day"), Ask1("uv", "none"), Ask1("avgtime", "none"),
     Ask2("unknown", "hour")}
MCSparkQuestions ==
    {Ask1("pv", "hour"), Ask1("uv", "day"), Ask2("uv", "other"), Ask1("avgtime", "minute"),
     Ask2("avgtime", "other"), Ask1("pv", "other"), Ask1("pv", "none"), Ask2("uv", "none")}
=============================================================================
