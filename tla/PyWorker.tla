------------------------------ MODULE PyWorker ------------------------------
(***************************************************************************)
(* The Python process of one subtask (Environment.execute outside the      *)
(* planning mode): it receives its broadcast variables, runs the function  *)
(* of its operator over the elements of the task (flink/functions), passes *)
(* what is collected through the chained functions, serializes it          *)
(* (flink/connection/Collector.py) and writes it to the connection.        *)
(*                                                                         *)
(* Every step is one of PyConnection's or leaves the connection alone.     *)
(***************************************************************************)
EXTENDS PyConnection, FiniteSets

CONSTANT Jobs   \* what the process may be started for:
    \* fun      the function; chain, the functions merged below it
    \* grouped  the operator has keys (info.key1, CoGroupFunction's _keys1)
    \* takes    how many elements a call of a script's function takes from an iterator
    \* aggs     the aggregators, [op, field]
    \* pairs    the set is announced as key value pairs, not as an array
    \* input    the elements of both sides; bc, broadcast variables [name, values]
    \* index    of the subtask

\* An element is [key, val]: the key a tuple of integers (<<>> where the set has none),
\* the value [tuple, fs] with fields [t, n] of a type t; a value that is no tuple has
\* one field.  Functions that take values one by one:
EachFuns == {"map", "filter", "flatmap", "join", "zip"}
\* ... and those handed an iterator.
IteratorFuns == {"count", "reduce", "groupreduce", "aggregate", "cogroup"}

ASSUME JobAssumption ==
    \A j \in Jobs : /\ j.fun \in EachFuns \cup IteratorFuns
                    /\ j.grouped => j.fun \in IteratorFuns \ {"count"}
                    /\ j.fun = "cogroup" => j.grouped
                    /\ j.takes \in Nat /\ j.index \in Nat
                    /\ j.input \in [Sides -> Seq(Elements)]

VARIABLES
    job,
    at,      \* where _run is: "init1", "init2", "groups", "call", "drain", "each", "end"
    pend,    \* collected, through the chain and not yet written
    want,    \* the side a buffer was read for that has not been used yet, or 0
    iters,   \* per side the GroupIterator: cur (at most one element), key, empty
    match,   \* of the CoGroupIterator
    acc,     \* per side, what the running call has taken
    ser,     \* the value the serializer was made for, if any
    start    \* ZipWithIndexMapper.start

workVars == <<job, at, pend, want, iters, match, acc, ser, start>>
vars == <<connVars, workVars>>

-----------------------------------------------------------------------------
(* Functions.                                                              *)

Long(n)      == [tuple |-> FALSE, fs |-> <<[t |-> "long", n |-> n]>>]
Tuple(ns)    == [tuple |-> TRUE, fs |-> [i \in DOMAIN ns |-> [t |-> "long", n |-> ns[i]]]]
Values(es)   == [i \in DOMAIN es |-> es[i].val]
Total(vs, i) == FoldLeft(LAMBDA k, v : k + v.fs[i].n, 0, vs)

\* What the scripts' functions return for a value: the successor, the value if it is
\* even, the value twice, the sum of both sides.
Returned(f, v) ==
    CASE f = "map"     -> <<[v EXCEPT !.fs[1].n = @ + 1]>>
      [] f = "filter"  -> IF v.fs[1].n % 2 = 0 THEN <<v>> ELSE <<>>
      [] f = "flatmap" -> <<v, v>>
      [] f = "join"    -> <<Long(v.fs[1].n + v.fs[2].n)>>
      [] f = "same"    -> <<v>>

Through(f, vs) == FlattenSeq([i \in DOMAIN vs |-> Returned(f, vs[i])])

\* collect of the chained functions, _configure_chain: each hands on to the next.
Pipe(fs, vs) == FoldLeft(LAMBDA ws, f : Through(f, ws), vs, fs)

\* What the collector is given for values vs; a set of pairs is keyed by its first field.
Collected(j, vs) ==
    LET ws == Pipe(j.chain, vs)
    IN  [i \in DOMAIN ws |-> [key |-> IF j.pairs THEN <<ws[i].fs[1].n>> ELSE <<>>, val |-> ws[i]]]

\* Sum, Min and Max: aggregate one value; agg is empty before the first (None).
Fold(op, agg, n) ==
    CASE op = "sum" -> agg[1] + n
      [] op = "min" -> IF agg # <<>> /\ agg[1] <= n THEN agg[1] ELSE n
      [] op = "max" -> IF agg # <<>> /\ agg[1] >= n THEN agg[1] ELSE n

\* initialize_aggregation, aggregate for every value, get_aggregate.
Aggregated(a, vs) ==
    FoldLeft(LAMBDA agg, v : <<Fold(a.op, agg, v.fs[a.field].n)>>,
             IF a.op = "sum" THEN <<0>> ELSE <<>>, vs)[1]

\* AggregationFunction.reduce: the first value with the aggregated fields replaced.
Aggregate(aggs, vs) ==
    FoldLeft(LAMBDA item, a : [item EXCEPT !.fs[a.field].n = Aggregated(a, vs)], vs[1], aggs)

\* What a call that took these values collects: the count, the reduced value, the
\* values, the aggregated tuple, or the sums of both sides.
Result(j, taking) ==
    LET vs == taking[1]
    IN  CASE j.fun = "count"       -> <<Tuple(<<j.index, Len(vs)>>)>>
          [] j.fun = "reduce"      -> <<Long(Total(vs, 1))>>
          [] j.fun = "groupreduce" -> vs
          [] j.fun = "aggregate"   -> <<Aggregate(j.aggs, vs)>>
          [] j.fun = "cogroup"     -> <<Tuple(<<Total(vs, 1), Total(taking[2], 1)>>)>>

-----------------------------------------------------------------------------
(* Broadcast variables.                                                    *)

\* _add_broadcast_variable: of two with one name the later stays.
BroadcastVariable(j, name) ==
    j.bc[Max({i \in DOMAIN j.bc : j.bc[i].name = name})].values

Earlier(s, t) == s.fs[1].n < t.fs[1].n

\* Slip: as they arrived.
BugOffsets(j) == BroadcastVariable(j, "counts")

\* The counts of the subtasks, sorted by their index ...
Offsets(j) == SortSeq(BroadcastVariable(j, "counts"), Earlier)

\* ... and the index before the first element of this one.
ZipStart(j) == Total(SubSeq(Offsets(j), 1, j.index), 2) - 1

\* CoGroupFunction._configure does not set _env, which reading a value needs.
Unreadable(j) == j.fun = "cogroup" /\ \E i \in DOMAIN j.bc : j.bc[i].values # <<>>

-----------------------------------------------------------------------------
(* Serializers.                                                            *)

\* Slip: whatever follows a string is written as its text.
BugPacks(t, u) ==
    CASE t = "long"   -> u \in {"long", "bool"}
      [] t = "double" -> u \in {"double", "long", "bool"}
      [] t = "bytes"  -> u \in {"bytes", "long", "bool"}
      [] t \in {"bool", "null", "str"} -> TRUE

\* What pack, encode and bytes make of a field of type u where the first value had
\* type t; NULL and bool take everything.
Packs(t, u) ==
    CASE t = "long"   -> u \in {"long", "bool"}
      [] t = "double" -> u \in {"double", "long", "bool"}
      [] t = "str"    -> u = "str"
      [] t = "bytes"  -> u \in {"bytes", "long", "bool"}
      [] t \in {"bool", "null"} -> TRUE

\* The field the other side reads.
Packed(t, f) ==
    [t |-> t, n |-> CASE t = "null" -> 0
                      [] t = "bool" -> IF f.n = 0 THEN 0 ELSE 1
                      [] t = "bytes" /\ f.t # "bytes" -> 0
                      [] OTHER -> f.n]

Length(f) == CASE f.t \in {"str", "bytes"} -> f.n
               [] f.t = "null" -> 0
               [] OTHER -> 1

\* The serializer made for s takes v: a longer tuple has no serializer for its end.
Serializable(s, v) ==
    /\ Len(v.val.fs) <= Len(s.val.fs)
    /\ \A i \in DOMAIN v.val.fs : Packs(s.val.fs[i].t, v.val.fs[i].t)

\* Length, type and fields; info is the type every message of the set is given.
Message(s, v) ==
    LET fs == [i \in DOMAIN v.val.fs |-> Packed(s.val.fs[i].t, v.val.fs[i])]
    IN  [n |-> 1 + Len(v.key) + FoldLeft(LAMBDA k, f : k + Length(f), 0, fs),
         info |-> [i \in DOMAIN s.val.fs |-> s.val.fs[i].t],
         key |-> v.key, fs |-> fs]

\* Collector.collect makes the serializer for its first value and rebinds itself.
Serializer(v) == IF ser = <<>> THEN v ELSE ser[1]

-----------------------------------------------------------------------------
(* Iterators.                                                              *)

NoGroup == [cur |-> <<>>, key |-> <<>>, empty |-> FALSE]

\* has_group, has_next and next_group of a GroupIterator.
HasGroup(g)     == iters[g].cur # <<>>
GroupHasNext(g) == ~iters[g].empty /\ iters[g].cur[1].key = iters[g].key
NextGroup(it)   == [it EXCEPT !.key = it.cur[1].key, !.empty = FALSE]

\* GroupIterator.next, the current element being handed out: with a next one ...
Move(it, e) == [it EXCEPT !.cur = <<e>>, !.empty = (it.key # e.key)]
\* Slip: the end of the input does not end the group.
BugMoveToEnd(it) == [it EXCEPT !.cur = <<>>]

\* ... and without.
MoveToEnd(it) == [it EXCEPT !.cur = <<>>, !.empty = TRUE]

\* Keys are lists: the first field that differs decides.
Less(k, l) == \E i \in DOMAIN k : k[i] < l[i] /\ SubSeq(k, 1, i - 1) = SubSeq(l, 1, i - 1)

\* The sides that are not a DummyIterator.
Handed == CASE match \in {"FIRST_EMPTY", "FIRST_REMAINED"} -> {2}
            [] match \in {"SECOND_EMPTY", "SECOND_REMAINED"} -> {1}
            [] match = "NONE_REMAINED" -> Sides
            [] match = "None" -> {1}

\* The iterators a call (or the drain after a co-group's) still takes from.
Open(g) == /\ g \in Handed
           /\ at = "call" /\ job.fun \in {"groupreduce", "cogroup"} => Len(acc[g]) < job.takes
           /\ IF job.grouped THEN GroupHasNext(g) ELSE HasNext(g)

\* It takes from the first side first.
Turn(g) == at \in {"call", "drain"} /\ Open(g) /\ (g = 2 => ~Open(1))
Idle    == \A g \in Sides : ~Open(g)

\* Between two reads: nothing is collected, no next() is under way.
Resumes == py = "run" /\ pend = <<>> /\ want = 0

\* The side whose connection is read next.
Pull(g) ==
    /\ pend = <<>>
    /\ \/ at = "init1" /\ g = 1
       \/ at = "init2" /\ g = 2
       \/ at = "each" /\ g = 1 /\ HasNext(1)
       \/ Turn(g) /\ HasNext(g)

-----------------------------------------------------------------------------
(* The function runs.                                                      *)

\* _receive_broadcast_variables; _run begins.
Receive ==
    /\ ~Unreadable(job)
    /\ job.fun = "zip" => job.index <= Len(Offsets(job))
    /\ Start
    /\ start' = IF job.fun = "zip" THEN ZipStart(job) ELSE start
    /\ at' = IF job.grouped THEN "init1" ELSE IF job.fun \in EachFuns THEN "each" ELSE "call"
    /\ UNCHANGED <<job, pend, want, iters, match, acc, ser>>

\* Iterator.next and read: a buffer is needed.
Ask(g) ==
    /\ Resumes /\ Pull(g)
    /\ ReadBuffer(g)
    /\ want' = g
    /\ UNCHANGED <<job, at, pend, iters, match, acc, ser, start>>

\* _init of a GroupIterator, of both for a co-group.
FetchFirst(g) ==
    /\ Pull(g) /\ at \in {"init1", "init2"}
    /\ Read(g)
    /\ LET e == Head(input[g]) IN
         iters' = [iters EXCEPT ![g] = [cur |-> <<e>>, key |-> e.key, empty |-> FALSE]]
    /\ at' = IF at = "init1" /\ job.fun = "cogroup" THEN "init2" ELSE "groups"
    /\ want' = 0
    /\ UNCHANGED <<job, pend, match, acc, ser, start>>

\* Functions that take value by value collect what they return.
FetchEach ==
    /\ Pull(1) /\ at = "each"
    /\ Read(1)
    /\ LET v == Head(input[1]).val
           k == start + 1
       IN  IF job.fun = "zip"
           THEN /\ start' = k
                /\ pend' = Collected(job, <<[tuple |-> TRUE, fs |-> <<[t |-> "long", n |-> k]>> \o v.fs]>>)
           ELSE /\ pend' = Collected(job, Returned(job.fun, v))
                /\ UNCHANGED start
    /\ want' = 0
    /\ UNCHANGED <<job, at, iters, match, acc, ser>>

\* A call takes the next element of the whole input.
FetchAny ==
    /\ Pull(1) /\ ~job.grouped /\ at = "call"
    /\ Read(1)
    /\ acc' = [acc EXCEPT ![1] = Append(@, Head(input[1]).val)]
    /\ want' = 0
    /\ UNCHANGED <<job, at, pend, iters, match, ser, start>>

\* A call takes cur, the drain of a co-group discards it.
Taken(g) == acc' = IF at = "call" THEN [acc EXCEPT ![g] = Append(@, iters[g].cur[1].val)] ELSE acc

FetchGrouped(g) ==
    /\ Pull(g) /\ job.grouped /\ at \in {"call", "drain"}
    /\ Read(g)
    /\ iters' = [iters EXCEPT ![g] = Move(@, Head(input[g]))]
    /\ Taken(g)
    /\ want' = 0
    /\ UNCHANGED <<job, at, pend, match, ser, start>>

\* The last element of the input: nothing is read.
TakeLast(g) ==
    /\ Resumes /\ job.grouped
    /\ Turn(g) /\ ~HasNext(g)
    /\ iters' = [iters EXCEPT ![g] = MoveToEnd(@)]
    /\ Taken(g)
    /\ UNCHANGED <<connVars, job, at, pend, want, match, ser, start>>

\* The call returns; a co-group's iterators are drained.
Return ==
    /\ Resumes
    /\ at = "call" /\ Idle
    /\ pend' = Collected(job, Result(job, acc))
    /\ at' = IF job.fun = "cogroup" THEN "drain" ELSE IF job.grouped THEN "groups" ELSE "end"
    /\ UNCHANGED <<connVars, job, want, iters, match, acc, ser, start>>

Drained ==
    /\ Resumes
    /\ at = "drain" /\ Idle
    /\ at' = "groups"
    /\ UNCHANGED <<connVars, job, pend, want, iters, match, acc, ser, start>>

\* has_group and next_group.
Group ==
    /\ Resumes
    /\ at = "groups" /\ job.fun # "cogroup"
    /\ IF HasGroup(1)
       THEN /\ iters' = [iters EXCEPT ![1] = NextGroup(@)]
            /\ acc' = [acc EXCEPT ![1] = <<>>]
            /\ at' = "call"
       ELSE at' = "end" /\ UNCHANGED <<iters, acc>>
    /\ UNCHANGED <<connVars, job, pend, want, match, ser, start>>

\* The group of this side was not handed out the last time.
Kept(g) == match = IF g = 1 THEN "FIRST_REMAINED" ELSE "SECOND_REMAINED"

\* CoGroupIterator.next: whose turn it is depends on the keys.
CoGroup ==
    /\ Resumes
    /\ at = "groups" /\ job.fun = "cogroup"
    /\ LET over(g) == match = IF g = 1 THEN "FIRST_EMPTY" ELSE "SECOND_EMPTY"
           empty(g) == over(g) \/ ~(Kept(g) \/ HasGroup(g))
           its == [g \in Sides |-> IF Kept(g) \/ empty(g) THEN iters[g] ELSE NextGroup(iters[g])]
       IN  /\ iters' = its
           /\ IF empty(1) /\ empty(2)
              THEN at' = "end" /\ UNCHANGED <<match, acc>>
              ELSE /\ at' = "call"
                   /\ acc' = [g \in Sides |-> <<>>]
                   /\ match' = CASE empty(1) -> "FIRST_EMPTY"
                                 [] empty(2) -> "SECOND_EMPTY"
                                 [] OTHER -> IF its[1].key = its[2].key THEN "NONE_REMAINED"
                                             ELSE IF Less(its[1].key, its[2].key)
                                             THEN "SECOND_REMAINED" ELSE "FIRST_REMAINED"
    /\ UNCHANGED <<connVars, job, pend, want, ser, start>>

\* The input is read.
EachDone ==
    /\ Resumes
    /\ at = "each" /\ ~HasNext(1)
    /\ at' = "end"
    /\ UNCHANGED <<connVars, job, pend, want, iters, match, acc, ser, start>>

-----------------------------------------------------------------------------
(* What is collected is written.                                           *)

Collecting == py = "run" /\ pend # <<>>
Fits == LET v == Head(pend) IN Serializable(Serializer(v), v) /\ Message(Serializer(v), v).n <= Size
Full == OutSize(out) + Message(Serializer(Head(pend)), Head(pend)).n > Size
Bind == ser' = <<Serializer(Head(pend))>>

Put ==
    /\ Collecting /\ Fits
    /\ Write(Message(Serializer(Head(pend)), Head(pend)))
    /\ Bind
    /\ pend' = Tail(pend)
    /\ UNCHANGED <<job, at, want, iters, match, acc, start>>

\* The buffer goes first.
Flush ==
    /\ Collecting /\ Fits /\ Full
    /\ WriteBuffer
    /\ Bind
    /\ UNCHANGED <<job, at, pend, want, iters, match, acc, start>>

\* _close, through the chain: the rest of _out, then the end signal.
Close ==
    /\ at = "end" /\ pend = <<>>
    /\ WriteBuffer \/ SendFinished
    /\ UNCHANGED workVars

\* What raises: a co-group's broadcast variable, a count too few, an empty buffer, a
\* value that cannot be serialized or does not fit into the file.
Fail ==
    /\ \/ py = "boot" /\ (Unreadable(job) \/ (job.fun = "zip" /\ job.index > Len(Offsets(job))))
       \/ py = "run" /\ want # 0 /\ input[want] = <<>>
       \/ Collecting /\ ~Fits
    /\ Raise
    /\ UNCHANGED workVars

\* The connection's own steps, and those of the task.
Connection ==
    /\ BufferRead \/ Confirmed \/ SendFinishedAgain
    /\ UNCHANGED workVars
Killed == Die /\ UNCHANGED workVars
Task == TaskStep /\ UNCHANGED workVars
Lost == Vanish /\ UNCHANGED workVars

-----------------------------------------------------------------------------
Init ==
    /\ job \in Jobs
    /\ rest = job.input
    /\ Fresh
    /\ at = "init1" /\ pend = <<>> /\ want = 0
    /\ iters = [g \in Sides |-> NoGroup] /\ match = "None"
    /\ acc = [g \in Sides |-> <<>>] /\ ser = <<>> /\ start = -1

Works ==
    \/ Receive \/ FetchEach \/ FetchAny \/ Return \/ Drained \/ Group \/ CoGroup \/ EachDone
    \/ Put \/ Flush \/ Close \/ Fail \/ Connection
    \/ \E g \in Sides : Ask(g) \/ FetchFirst(g) \/ FetchGrouped(g) \/ TakeLast(g)

Next == Works \/ Killed \/ Task \/ Lost

Spec == Init /\ [][Next]_vars

\* The process is scheduled, and the task answers while its machine runs.
FairSpec == Spec /\ WF_vars(Works) /\ WF_vars(Task)

-----------------------------------------------------------------------------
(* What the script asked for, computed without an iterator.                *)

\* The elements in groups of one key; Java hands them over sorted by it.
Runs(es) ==
    FoldLeft(LAMBDA rs, e : IF rs # <<>> /\ rs[Len(rs)][1].key = e.key
                            THEN [rs EXCEPT ![Len(rs)] = Append(@, e)]
                            ELSE Append(rs, <<e>>), <<>>, es)

OfKey(es, k) == Values(SelectSeq(es, LAMBDA e : e.key = k))
Keys(j) == UNION {{e.key : e \in ToSet(j.input[g])} : g \in Sides}

\* The pieces of n elements, the last of fewer, that vs is cut into.
Pieces(vs, n) == [i \in 1 .. (Len(vs) + n - 1) \div n |->
                    SubSeq(vs, (i - 1) * n + 1, IF i * n < Len(vs) THEN i * n ELSE Len(vs))]

\* What a call takes at most.
Upto(j, vs) == SubSeq(vs, 1, IF Len(vs) < j.takes THEN Len(vs) ELSE j.takes)

\* What each call is for: the values of both sides.
Calls(j) ==
    CASE j.fun = "cogroup" ->
           LET ks == SetToSortSeq(Keys(j), Less)
           IN  [i \in DOMAIN ks |-> [g \in Sides |-> Upto(j, OfKey(j.input[g], ks[i]))]]
      [] j.fun = "groupreduce" /\ j.grouped ->
           LET rs == Runs(j.input[1])
               ps == FlattenSeq([i \in DOMAIN rs |-> Pieces(Values(rs[i]), j.takes)])
           IN  [i \in DOMAIN ps |-> <<ps[i], <<>>>>]
      [] j.fun = "groupreduce" /\ ~j.grouped -> <<<<Upto(j, Values(j.input[1])), <<>>>>>>
      [] j.fun \in {"reduce", "aggregate"} /\ j.grouped ->
           LET rs == Runs(j.input[1]) IN [i \in DOMAIN rs |-> <<Values(rs[i]), <<>>>>]
      [] OTHER -> <<<<Values(j.input[1]), <<>>>>>>

Results(j) ==
    CASE j.fun \in IteratorFuns ->
           LET cs == Calls(j) IN FlattenSeq([i \in DOMAIN cs |-> Result(j, cs[i])])
      [] j.fun = "zip" ->
           LET before == SelectSeq(BroadcastVariable(j, "counts"), LAMBDA c : c.fs[1].n < j.index)
               vs == Values(j.input[1])
           IN  [i \in DOMAIN vs |->
                  [tuple |-> TRUE,
                   fs |-> <<[t |-> "long", n |-> Total(before, 2) + i - 1]>> \o vs[i].fs]]
      [] OTHER -> Through(j.fun, Values(j.input[1]))

Expected(j) == Collected(j, Results(j))

-----------------------------------------------------------------------------
(* Properties.                                                             *)

\* What is written next is one of the connection's messages.
Serializes == Collecting /\ Fits => Message(Serializer(Head(pend)), Head(pend)) \in Messages

\* Type invariant of the process and its connection.
TypeOK ==
    /\ ConnTypeOK
    /\ job \in Jobs
    /\ at \in {"init1", "init2", "groups", "call", "drain", "each", "end"}
    /\ want \in Sides \cup {0}
    /\ match \in {"None", "NONE_REMAINED", "FIRST_REMAINED", "SECOND_REMAINED",
                 "FIRST_EMPTY", "SECOND_EMPTY"}
    /\ \A g \in Sides : Len(iters[g].cur) <= 1 /\ (iters[g].cur = <<>> /\ iters[g].key # <<>> => iters[g].empty)
    /\ Len(ser) <= 1 /\ (written # <<>> => ser # <<>>)
    /\ Serializes

\* A group function that takes nothing of its group is called for it for ever.
Advances(j) == j.fun = "groupreduce" /\ j.grouped => j.takes > 0

SameTypes(v, w) == [i \in DOMAIN v.fs |-> v.fs[i].t] = [i \in DOMAIN w.fs |-> w.fs[i].t]

\* What is written, in whatever portions the elements come and the messages go, are
\* the results of one call per element, group, pair of groups or input, in order and,
\* when the process announces its end, all of them.  A group that its function does not
\* read to the end is handed out again, piece by piece, without an element lost
\* (GroupReduceFunction.py:54), though DataSet.py:708 says "once for each group".
Delivers ==
    Advances(job) =>
      LET exp == Expected(job)
      IN  /\ Len(written) <= Len(exp)
          /\ \A i \in DOMAIN written :
               /\ written[i].key = exp[i].key
               /\ SameTypes(exp[i].val, exp[1].val) => written[i].fs = exp[i].val.fs
          /\ py \in {"closing", "ended"} => Len(written) = Len(exp)

Numeric == {"bool", "long", "double"}

\* All values are written by the serializer of the first one.  A value of another
\* type raises or is read as an equal number, but behind a first None, bool or
\* bytearray, and behind a longer tuple, it may be read as anything.
KeptOrRaised ==
    Advances(job) =>
      LET exp == Expected(job)
      IN  \A i \in DOMAIN written : \A k \in DOMAIN exp[i].val.fs :
            \/ written[i].fs[k] = exp[i].val.fs[k]
            \/ /\ {written[i].fs[k].t, exp[i].val.fs[k].t} \subseteq Numeric
               /\ written[i].fs[k].n = exp[i].val.fs[k].n
            \/ exp[1].val.fs[k].t \in {"null", "bool", "bytes"}

\* The process ends, unless its task vanishes, has nothing for a side it asks for, or
\* a function leaves its group untouched, which is then handed out for ever.
WorkerEnds ==
    <>(\/ py \in {"ended", "failed", "dead"}
       \/ java = "gone"
       \/ \E g \in Sides : want = g /\ sent[g] = <<>>
       \/ job.takes = 0)
=============================================================================
