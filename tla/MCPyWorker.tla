----------------------------- MODULE MCPyWorker -----------------------------
(* Every function, on few elements and buffers of two or three messages.   *)
EXTENDS PyWorker

All == 9

El(k, v) == [key |-> <<k>>, val |-> v]
Plain(vs) == [i \in DOMAIN vs |-> [key |-> <<>>, val |-> vs[i]]]
Of(t, n) == [tuple |-> FALSE, fs |-> <<[t |-> t, n |-> n]>>]
Longs(ns) == Plain([i \in DOMAIN ns |-> Long(ns[i])])

Groups == <<El(1, Long(1)), El(1, Long(2)), El(2, Long(3)), El(3, Long(4))>>
Three  == <<El(1, Long(1)), El(2, Long(2)), El(2, Long(3)), El(2, Long(4))>>

Job == [fun |-> "map", chain |-> <<>>, grouped |-> FALSE, takes |-> All, aggs |-> <<>>,
        pairs |-> FALSE, input |-> <<Longs(<<1, 2>>), <<>>>>, bc |-> <<>>, index |-> 0]

Counts == [name |-> "counts", values |-> <<Tuple(<<2, 1>>), Tuple(<<0, 2>>), Tuple(<<1, 3>>)>>]
Other  == [name |-> "counts", values |-> <<>>]

EachJobs ==
    {[Job EXCEPT !.chain = <<"filter", "flatmap">>],
     [Job EXCEPT !.fun = "flatmap", !.chain = <<"map", "filter">>, !.pairs = TRUE],
     [Job EXCEPT !.fun = "filter", !.input = <<Longs(<<1, 2, 4>>), <<>>>>],
     [Job EXCEPT !.fun = "join", !.input = <<Plain(<<Tuple(<<1, 2>>), Tuple(<<3, 4>>)>>), <<>>>>],
     [Job EXCEPT !.fun = "zip", !.index = 2, !.bc = <<Other, Counts>>],
     [Job EXCEPT !.fun = "zip", !.index = 1, !.bc = <<Counts, Other>>],
     [Job EXCEPT !.input = <<<<>>, <<>>>>]}

GroupJobs ==
    {[Job EXCEPT !.fun = f, !.grouped = TRUE, !.input = <<Groups, <<>>>>] :
       f \in {"reduce", "groupreduce"}}
    \cup {[Job EXCEPT !.fun = f, !.input = <<Longs(<<1, 2, 3>>), <<>>>>] :
       f \in {"reduce", "groupreduce", "count"}}
    \cup {[Job EXCEPT !.fun = "groupreduce", !.grouped = TRUE, !.takes = n,
                      !.input = <<es, <<>>>>] : n \in 0 .. 2, es \in {Groups, Three}}
    \cup {[Job EXCEPT !.fun = "aggregate", !.grouped = TRUE,
                      !.aggs = <<[op |-> a, field |-> 1], [op |-> "sum", field |-> 2]>>,
                      !.input = <<<<El(1, Tuple(<<2, 1>>)), El(1, Tuple(<<1, 1>>)),
                                    El(2, Tuple(<<3, 2>>))>>, <<>>>>] : a \in {"min", "max"}}

\* Inputs of a co-group as Java hands them over: all of two elements at most with keys
\* up to three, and a few of three elements.
Ordered(v) == {[i \in DOMAIN ks |-> El(ks[i], Long(v + i))] :
                 ks \in {<<>>} \cup {<<k>> : k \in 1 .. 3}
                        \cup ({<<k, l>> : k, l \in 1 .. 3} \ {<<2, 1>>, <<3, 1>>, <<3, 2>>})}

CoJobs ==
    {[Job EXCEPT !.fun = "cogroup", !.grouped = TRUE, !.input = <<a, b>>] :
       a \in Ordered(0), b \in Ordered(4)}
    \cup
    {[Job EXCEPT !.fun = "cogroup", !.grouped = TRUE, !.takes = n, !.input = <<a, b>>] :
       n \in {1, All},
       a \in {<<El(1, Long(1)), El(3, Long(2)), El(3, Long(4))>>},
       b \in {<<El(1, Long(5)), El(2, Long(6))>>, <<El(2, Long(7)), El(2, Long(1)), El(4, Long(8))>>,
              <<El(2, Long(7)), El(3, Long(8))>>}}
    \cup {[Job EXCEPT !.fun = "cogroup", !.grouped = TRUE, !.bc = <<Counts>>,
                      !.input = <<<<El(1, Long(1))>>, <<El(1, Long(2))>>>>]}

\* Sets of values of several types, and a value too long for the file.
MixedJobs ==
    {[Job EXCEPT !.fun = "flatmap", !.input = <<Plain(<<Of(t, IF t = "null" THEN 0 ELSE 1), Of(u, IF u = "bool" THEN 0 ELSE 2)>>), <<>>>>] :
       t \in {"long", "double", "bool", "str", "bytes", "null"},
       u \in {"long", "double", "bool", "str", "bytes"}}
    \cup {[Job EXCEPT !.fun = "filter", !.input = <<Plain(<<Of("str", 2), Of("str", 4)>>), <<>>>>],
          [Job EXCEPT !.fun = "filter",
                      !.input = <<Plain(<<Tuple(<<2, 1>>), Tuple(<<4>>)>>), <<>>>>],
          [Job EXCEPT !.fun = "filter",
                      !.input = <<Plain(<<Tuple(<<2>>), Tuple(<<4, 1>>)>>), <<>>>>]}

MCJobs == EachJobs \cup GroupJobs \cup CoJobs \cup MixedJobs

MCElements == UNION {UNION {ToSet(j.input[g]) : g \in Sides} : j \in MCJobs}

\* Messages of one field, of a keyed field, of two fields and of a tuple that is too short.
Msg(n, ts, key, fs) ==
    [n |-> n, info |-> ts, key |-> key, fs |-> [i \in DOMAIN fs |-> [t |-> ts[i], n |-> fs[i]]]]

MCMessages ==
    {Msg(2, <<t>>, <<>>, <<n>>) : t \in {"long", "double", "bool"}, n \in 0 .. 9}
    \cup {Msg(1 + n, <<t>>, <<>>, <<n>>) : t \in {"str", "bytes"}, n \in 0 .. 3}
    \cup {Msg(1, <<"null">>, <<>>, <<0>>), Msg(2, <<"long", "long">>, <<>>, <<4>>)}
    \cup {Msg(3, <<"long">>, <<n>>, <<n>>) : n \in 0 .. 9}
    \cup {Msg(3, <<"long", "long">>, <<>>, <<m, n>>) : m \in 0 .. 7, n \in 0 .. 15}
=============================================================================
