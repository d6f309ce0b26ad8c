---------------------------- MODULE MCStreamJob ----------------------------
(* Instances of StreamJob for TLC. *)
EXTENDS StreamJob, TLC

CONSTANTS k1, k2

MCKeys    == {k1, k2}
MCStatus  == {"status"}
MCRawLog  == {"nginx_log"}
MCBothLogs == {"nginx_log", "nginx_base_log"}
MCRequest  == {"request"}

\* The lines of one server; one of them under a key that does not split.
MCClean3  == <<"line", "junk", "line">>
MCPoison3 == <<"line", "unparsable", "line">>
MCLines2  == <<"line", "line">>
MCPoison2 == <<"unparsable", "line">>
MCSameKey == [o \in Ops |-> [r \in 1 .. NumLines |-> k1]]
MCTwoKeys == [o \in Ops |-> [r \in 1 .. NumLines |-> IF r = 1 THEN k1 ELSE k2]]
MCRowKey  == [s \in Logs |-> [r \in 1 .. NumLines |-> k1]]
MCNoBreaks  == [o \in Ops |-> {}]
\* A request that holds "::" is cut there, and its row has the key of another request.
MCAsIs      == [o \in Ops |-> [k \in Keys |-> k]]
MCCut       == [o \in Ops |-> [k \in Keys |-> k1]]
MCK2Breaks  == [o \in Ops |-> IF o = "status" THEN {k2} ELSE {}]
=============================================================================
