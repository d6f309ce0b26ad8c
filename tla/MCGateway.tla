----------------------------- MODULE MCGateway -----------------------------
(* Instances of Gateway for TLC. *)
EXTENDS Gateway, TLC

CONSTANTS q1, q2, q3, c1, s1, p1, w1, w2

MCRequests == {q1, q2, q3, c1, s1, p1}
MCServer(role, engine, rs) == [role |-> role, engine |-> engine, requests |-> rs]
MCServers == {MCServer("output", "flink", {q1, q2, q3, c1}),
              MCServer("input", "spark", {p1, q1, c1, s1}),
              MCServer("output", "spark", {p1, q1})}
MCLive == {MCServer("output", "flink", {q1, q2, c1, s1})}
MCWorker      == {w1}
MCWorkers     == {w1, w2}

MCKind  == [r \in Requests |-> CASE r \in {q1, q2, q3} -> "query" [] r = p1 -> "push"
                                 [] r = c1 -> "cmd" [] r = s1 -> "statics"]
\* With MaxInt = 3: q3 asks for 2 to 3, whose sum wraps to -3.
MCStart == [r \in Requests |-> IF r = q3 THEN 2 ELSE 0]
MCEnd   == [r \in Requests |-> IF r = q3 THEN 3 ELSE 1]
MCKnown == Requests \ {q2, s1}
=============================================================================
