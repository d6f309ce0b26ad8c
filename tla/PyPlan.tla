------------------------------- MODULE PyPlan -------------------------------
(***************************************************************************)
(* The plan a Python script builds (flink/plan/DataSet.py) and the         *)
(* optimisation it undergoes when it is executed (Environment.py): every   *)
(* map, filter and flat map that is the only reader of another Python      *)
(* function is merged into it.  The same optimised plan is built by the    *)
(* process that sends it to Java and by every process that runs one of its *)
(* operators, and they find each other's operators by id.                  *)
(*                                                                         *)
(* An Environment is a record; a method of a DataSet is an operator from   *)
(* an Environment to the Environment after the call.  OperationInfo        *)
(* objects are numbered in the order of their creation; 0 is None.         *)
(***************************************************************************)
EXTENDS Integers, Sequences, SequencesExt, FiniteSets

CONSTANTS
    Menus,  \* what scripts are made of: sources, methods, bound on calls, the
            \* fields they group, join or partition by and sort groups by
    Names   \* the names scripts give to broadcast variables

\* A field is its position in the tuple; Selector stands for a key function or
\* a KeySelectorFunction, which extracts one key.
Selector == -1

ASSUME MenuAssumption ==
    \A m \in Menus :
        /\ m.sources \in Seq({"source_csv", "source_text", "source_value", "source_seq"})
        /\ m.calls \in Nat
        /\ \A ks \in m.keys : ks = <<Selector>> \/ ks \in Seq(Nat) \ {<<>>}
        /\ m.sorts \subseteq Nat \cup {Selector}

VARIABLES
    env,     \* the Environment
    menu,    \* what this script is made of
    calls,   \* methods it has called
    phase,   \* "build", "chain" (_find_chains runs) or "sent"
    x,       \* position of _find_chains in _sets
    plan,    \* the operations as they are sent
    orig     \* history: the Environment when execute was called

vars == <<env, menu, calls, phase, x, plan, orig>>

-----------------------------------------------------------------------------
(* OperationInfo, and the objects a call creates.                          *)

Sources     == {"source_csv", "source_text", "source_value", "source_seq"}
Chainable   == {"map", "filter", "flatmap"}
Crosses     == {"cross", "cross_h", "cross_t"}
Joins       == {"join", "join_h", "join_t"}
Dual        == Crosses \cup Joins \cup {"cogroup", "union"}
SinkKinds   == {"sink_csv", "sink_text", "sink_print"}
Identifiers == Sources \cup Chainable \cup Dual \cup SinkKinds
                 \cup {"sort", "groupby", "mappartition", "groupreduce", "reduce",
                       "broadcast", "first", "distinct", "partition_hash", "rebalance"}

\* What a set tells Java about its elements.
NoType == <<"none">>
ArrayType == <<"array">>
KeyValueType(n) == <<"kv", n>>

\* A Python function by its role: the script's own, numbered like its set, the
\* extraction of key fields, or one of the package's own.
NoFun      == <<>>
Udf(e)     == <<"udf", Len(e.infos) + 1>>
Extract(f) == <<"extract", f>>

\* cls is the class of the object the script holds: "set" (DataSet), "op"
\* (OperatorSet), "agg", "pair" (before using), "grouping", or "hidden".
\* asked and finals are history: the fields the script named, the times they were
\* replaced by positions.
Info(ident, cls, parent, op, types) ==
    [identifier |-> ident, cls |-> cls, id |-> -1, parent |-> parent, other |-> 0,
     keys |-> <<>>, key1 |-> <<>>, key2 |-> <<>>, field |-> -1, name |-> "",
     types |-> types, operator |-> op, chained |-> 0, group |-> 0, sorts |-> <<>>,
     bcvars |-> <<>>, sinks |-> <<>>, children |-> <<>>, asked |-> <<>>, finals |-> 0]

NoEnv == [infos |-> <<>>, counter |-> 0, sources |-> <<>>, sets |-> <<>>,
          sinks |-> <<>>, broadcast |-> <<>>]

New(e) == Len(e.infos)
Known(e) == DOMAIN e.infos

\* Slip: the counter stands still.
BugNumber(e, i) == [e EXCEPT !.infos[i].id = e.counter]

\* OperationInfo(), without and with an id (DataSet.__init__, DataSink.__init__).
Allocate(e, info) == [e EXCEPT !.infos = Append(@, info)]
Number(e, i) == [e EXCEPT !.infos[i].id = e.counter, !.counter = @ + 1]
Create(e, info) == LET e1 == Allocate(e, info) IN Number(e1, New(e1))

\* parent.children.append(child) and env._sets.append(child)
Adopt(e, p, c) == [e EXCEPT !.infos[p].children = Append(@, c)]
Enlist(e, c) == [e EXCEPT !.sets = Append(@, c)]

\* A new set below p: what all methods with one input have in common.
Below(e, p, info) ==
    LET e1 == Create(e, info) IN Enlist(Adopt(e1, p, New(e1)), New(e1))

Class(e, cs) == {i \in Known(e) : e.infos[i].cls \in cs}
DataSets(e) == Class(e, {"set", "op", "agg", "pair"})

-----------------------------------------------------------------------------
(* Sources and sinks.                                                      *)

\* read_csv, read_text, from_elements, generate_sequence
Source(e, ident) ==
    LET e1 == Create(e, Info(ident, "set", 0, NoFun, NoType))
    IN  [e1 EXCEPT !.sources = Append(@, New(e1))]

Map(e, s, op, cls) == Below(e, s, Info("map", cls, s, op, ArrayType))

\* A sink below the new map that turns the elements into text.
Sink(e, p, ident) ==
    LET e1 == Create(e, Info(ident, "hidden", p, NoFun, NoType))
    IN  [e1 EXCEPT !.infos[p].sinks = Append(@, New(e1)), !.sinks = Append(@, New(e1))]
Output(e, s)    == LET m == Map(e, s, <<"stringify">>, "hidden") IN Sink(m, New(m), "sink_print")
WriteText(e, s) == LET m == Map(e, s, <<"stringify">>, "hidden") IN Sink(m, New(m), "sink_text")
WriteCsv(e, s)  == LET m == Map(e, s, <<"csv">>, "hidden") IN Sink(m, New(m), "sink_csv")

-----------------------------------------------------------------------------
(* Methods of a DataSet with one input.                                    *)

Filter(e, s)       == Below(e, s, Info("filter", "op", s, Udf(e), ArrayType))
FlatMap(e, s)      == Below(e, s, Info("flatmap", "op", s, Udf(e), ArrayType))
MapPartition(e, s, op) == Below(e, s, Info("mappartition", "op", s, op, ArrayType))
Reduce(e, s)       == Below(e, s, Info("reduce", "op", s, Udf(e), ArrayType))
ReduceGroup(e, s)  == Below(e, s, Info("groupreduce", "op", s, Udf(e), ArrayType))

\* aggregate, with min, max and sum; and_agg adds one to the same function.
Aggregate(e, s)    == Below(e, s, Info("groupreduce", "agg", s, <<"agg", 1>>, ArrayType))
AndAgg(e, s)       == [e EXCEPT !.infos[s].operator = <<"agg", @[2] + 1>>]

Project(e, s)      == Map(e, s, Udf(e), "op")
First(e, s)        == Below(e, s, Info("first", "set", s, NoFun, NoType))
Rebalance(e, s)    == Below(e, s, Info("rebalance", "set", s, NoFun, NoType))

\* The positions 0 .. n-1 of n extracted keys.
Upto(n) == [i \in 1 .. n |-> i - 1]

\* A set of (keys, element) pairs below s, announced as such to Java.
KeyMap(e, s, fields) ==
    LET m == Map(e, s, Extract(fields), "hidden")
    IN  [m EXCEPT !.infos[New(m)].types = KeyValueType(Len(fields))]
Keyed(e, s, fields, ident) ==
    LET m == KeyMap(e, s, fields)
    IN  Below(m, New(m), [Info(ident, "set", New(m), NoFun, NoType)
                            EXCEPT !.keys = Upto(Len(fields))])
Distinct(e, s, fields)        == Keyed(e, s, fields, "distinct")
PartitionByHash(e, s, fields) == Keyed(e, s, fields, "partition_hash")

\* with_broadcast_set
WithBroadcast(e, s, name, o) ==
    LET e1 == Allocate(e, [Info("broadcast", "hidden", s, NoFun, NoType)
                             EXCEPT !.other = o, !.name = name])
    IN  [e1 EXCEPT !.infos[s].bcvars = Append(@, New(e1)), !.broadcast = Append(@, New(e1))]

CountElements(e, s) == MapPartition(e, s, <<"count">>)
ZipWithIndex(e, s) ==
    LET c == CountElements(e, s)
        z == MapPartition(c, s, <<"zip">>)
    IN  WithBroadcast(z, New(z), "counts", New(c))

-----------------------------------------------------------------------------
(* Methods with two inputs.                                                *)

TwoInputs(e, a, b, info) ==
    LET e1 == Create(e, [info EXCEPT !.other = b])
        c  == New(e1)
    IN  Enlist(Adopt(Adopt(e1, a, c), b, c), c)
Cross(e, a, b, ident) == TwoInputs(e, a, b, Info(ident, "pair", a, NoFun, NoType))
Union(e, a, b)        == TwoInputs(e, a, b, Info("union", "set", a, NoFun, NoType))

\* where and equal_to: a key map becomes the first or second input of c.
Where(e, c, a, k) ==
    LET m == KeyMap(e, a, k)
    IN  Adopt([m EXCEPT !.infos[c].parent = New(m)], New(m), c)
EqualTo(e, c, b, k) ==
    LET m == KeyMap(e, b, k)
    IN  Adopt([m EXCEPT !.infos[c].other = New(m)], New(m), c)

\* a.join(b).where(k1).equal_to(k2)
Join(e, a, b, ident, k1, k2) ==
    LET c  == New(e) + 1
        e1 == Allocate(e, [Info(ident, "pair", 0, NoFun, NoType)
                             EXCEPT !.key1 = Upto(Len(k1)), !.key2 = Upto(Len(k2))])
    IN  Number(Enlist(EqualTo(Where(e1, c, a, k1), c, b, k2), c), c)

\* using, of a join or cross: the set gets a function and a new id.
Using(e, c) ==
    Number([e EXCEPT !.infos[c].operator = <<"udf", c>>, !.infos[c].types = ArrayType,
                     !.infos[c].cls = "op"], c)

\* project_first, project_second: a map over the pairs.
Projector(e, c) == Map(e, c, Udf(e), "set")

\* a.co_group(b).where(k1).equal_to(k2).using(f); the other input knows the new
\* operation as its child from the start and keeps it.
CoGroup(e, a, b, k1, k2) ==
    LET c  == New(e) + 1
        e1 == Allocate(e, [Info("cogroup", "op", 0, NoFun, ArrayType)
                             EXCEPT !.key1 = Upto(Len(k1)), !.key2 = Upto(Len(k2))])
        e2 == EqualTo(Where(Adopt(e1, b, c), c, a, k1), c, b, k2)
    IN  Enlist([Number(e2, c) EXCEPT !.infos[c].operator = <<"udf", c>>], c)

-----------------------------------------------------------------------------
(* Groupings.                                                              *)

\* group_by: an identity map, rewritten when the grouping is used.
GroupBy(e, s, keys) ==
    LET m == Map(e, s, <<"identity">>, "hidden")
        c == New(m) + 1
    IN  Below(m, New(m), [Info("groupby", "grouping", New(m), NoFun, NoType)
                            EXCEPT !.keys = keys, !.group = c, !.asked = keys])

SortGroup(e, g, f) ==
    LET root == e.infos[g].group
        e1   == Below(e, g, [Info("sort", "grouping", g, NoFun, NoType)
                               EXCEPT !.field = f, !.group = root, !.asked = <<f>>])
    IN  [e1 EXCEPT !.infos[root].sorts = Append(@, New(e1))]

\* The pre-step of grouping g extracts fs; its keys become the positions ks.
Rekey(e, g, fs, n, ks) ==
    LET pre == e.infos[g].parent
    IN  [e EXCEPT !.infos[pre].operator = Extract(fs), !.infos[pre].types = KeyValueType(n),
                  !.infos[g].keys = ks, !.infos[g].finals = @ + 1]

\* UnsortedGrouping._finalize
FinalizeUnsorted(e, g) ==
    LET keys == e.infos[g].keys
    IN  Rekey(e, g, IF keys[1] = Selector THEN <<Selector>> ELSE keys, Len(keys), Upto(Len(keys)))

\* Slip: positions counted from the second field.
BugPosition(fs, f) == Cardinality({h \in ToSet(fs) : h < f /\ h > 0})

\* used_keys.index(field)
Position(fs, f) == CHOOSE i \in 0 .. Len(fs) - 1 : fs[i + 1] = f

\* The numbers of I in their order; the elements of s at the positions I.
Ascending(I) == [n \in 1 .. Cardinality(I) |-> CHOOSE i \in I : Cardinality({j \in I : j <= i}) = n]
Picked(s, I) == [n \in 1 .. Cardinality(I) |-> s[Ascending(I)[n]]]

\* What SortedGrouping._finalize makes of grouping g: the fields its keys and sorts name,
\* in order, then the grouping's key function, then those of the sorts.
ByFunction(e, g) == e.infos[g].keys[1] = Selector
UsedKeys(e, g) ==
    Ascending((IF ByFunction(e, g) THEN {} ELSE ToSet(e.infos[g].keys))
                \cup ({e.infos[s].field : s \in ToSet(e.infos[g].sorts)} \ {Selector}))
SortFunctions(e, g) ==
    LET sorts == e.infos[g].sorts
    IN  Picked(sorts, {k \in DOMAIN sorts : e.infos[sorts[k]].field = Selector})
FirstSort(e, g)     == Len(UsedKeys(e, g)) + (IF ByFunction(e, g) THEN 1 ELSE 0)
NewField(e, g, s) ==
    LET ksl == SortFunctions(e, g)
    IN  IF e.infos[s].field # Selector THEN Position(UsedKeys(e, g), e.infos[s].field)
        ELSE FirstSort(e, g) + (CHOOSE i \in DOMAIN ksl : ksl[i] = s) - 1

FinalizeSorted(e, g) ==
    LET keys == e.infos[g].keys
        used == UsedKeys(e, g)
        n    == FirstSort(e, g) + Len(SortFunctions(e, g))
        fs   == used \o [i \in 1 .. n - Len(used) |-> Selector]
        ks   == IF ByFunction(e, g) THEN <<Len(used)>>
                ELSE [i \in DOMAIN keys |-> Position(used, keys[i])]
        r    == Rekey(e, g, fs, n, ks)
    IN  [r EXCEPT !.infos = [i \in Known(r) |->
            IF Contains(e.infos[g].sorts, i)
            THEN [r.infos[i] EXCEPT !.field = NewField(e, g, i), !.finals = @ + 1]
            ELSE r.infos[i]]]

Finalize(e, g) ==
    IF e.infos[g].identifier = "groupby" THEN FinalizeUnsorted(e, g)
    ELSE FinalizeSorted(e, e.infos[g].group)

\* reduce, reduce_group and aggregate of a grouping
GroupedBelow(e, g, ident, cls, op) ==
    LET f == Finalize(e, g)
    IN  Below(f, g, [Info(ident, cls, g, op, ArrayType)
                       EXCEPT !.key1 = f.infos[f.infos[g].group].keys])
GroupFirst(e, g)     == LET f == Finalize(e, g)
                        IN  Below(f, g, Info("first", "set", g, NoFun, NoType))
GroupReduce(e, g)    == GroupedBelow(e, g, "reduce", "op", Udf(e))
GroupReduceAll(e, g) == GroupedBelow(e, g, "groupreduce", "op", Udf(e))
GroupAggregate(e, g) == GroupedBelow(e, g, "groupreduce", "agg", <<"agg", 1>>)

-----------------------------------------------------------------------------
(* _find_chains: one iteration of its loop over _sets, from the last set.  *)

\* Slip: the other readers of the parent are not looked at.
BugMayChain(e, c) ==
    LET p == e.infos[c].parent
    IN  e.infos[c].identifier \in Chainable /\ e.infos[p].operator # NoFun

\* Only what is not None counts; broadcasts are infos of their own, so the last
\* two conditions of the code, which look for a set among them, always hold.
MayChain(e, c) ==
    LET p == e.infos[c].parent
    IN  /\ e.infos[c].identifier \in Chainable
        /\ e.infos[p].operator # NoFun
        /\ Len(e.infos[p].children) = 1
        /\ e.infos[p].sinks = <<>>
        /\ ~Contains(e.broadcast, p)
        /\ ~Contains(e.infos[p].bcvars, c)

\* Slip: every reader is taken for one with a single input.
BugReparent(e, p, c, g) == Adopt([e EXCEPT !.infos[g].parent = p], p, g)

\* A reader of child c now reads p, through the input by which it read c.
Reparent(e, p, c, g) ==
    LET side == IF /\ e.infos[g].identifier \in Dual
                   /\ e.infos[e.infos[g].parent].id # e.infos[c].id
                THEN "other" ELSE "parent"
    IN  Adopt([e EXCEPT !.infos[g][side] = p], p, g)

\* The loop over the readers of c.
ReparentAll(e, p, c, readers) ==
    LET Loop[n \in 0 .. Len(readers)] ==
          IF n = 0 THEN e ELSE Reparent(Loop[n - 1], p, c, readers[n])
    IN  Loop[Len(readers)]

\* Slip: broadcasts of the child stay its own.
BugRedirect(e, p, c) ==
    [e EXCEPT !.infos = [i \in Known(e) |->
        IF Contains(e.infos[c].sinks \o e.infos[c].bcvars, i)
        THEN [e.infos[i] EXCEPT !.parent = p] ELSE e.infos[i]]]

\* Broadcasts of child c are now broadcasts of p, its sinks and broadcast
\* variables belong to p.
Redirect(e, p, c) ==
    [e EXCEPT !.infos = [i \in Known(e) |-> [e.infos[i] EXCEPT
        !.other  = IF Contains(e.broadcast, i) /\ e.infos[@].id = e.infos[c].id THEN p ELSE @,
        !.parent = IF Contains(e.infos[c].sinks \o e.infos[c].bcvars, i) THEN p ELSE @]]]

Chain(e, c) ==
    LET p     == e.infos[c].parent
        info  == e.infos[c]
        begun == [e EXCEPT !.infos[p].chained = c, !.infos[p].types = info.types]
        moved == Redirect(ReparentAll(begun, p, c, info.children), p, c)
    IN  [moved EXCEPT !.infos[p].sinks = @ \o info.sinks,
                      !.infos[p].bcvars = @ \o info.bcvars,
                      !.infos[p].children = RemoveFirst(@, c),
                      !.sets = Picked(@, {k \in DOMAIN moved.sets :
                                             moved.infos[moved.sets[k]].id # info.id})]

\* _send_operation, what of it the other side resolves
IdOf(e, i) == IF i = 0 THEN -1 ELSE e.infos[i].id
Operation(e, i) ==
    [identifier |-> e.infos[i].identifier, id |-> e.infos[i].id,
     parent |-> IdOf(e, e.infos[i].parent), other |-> IdOf(e, e.infos[i].other)]
Plan(e) == LET all == e.sources \o e.sets \o e.sinks \o e.broadcast
           IN  [i \in DOMAIN all |-> Operation(e, all[i])]

\* The set whose function a process runs that is started for operator id.
OperatorFor(e, id) == LET hits == {k \in DOMAIN e.sets : e.infos[e.sets[k]].id = id}
                      IN  IF hits = {} THEN 0 ELSE e.sets[Max(hits)]

-----------------------------------------------------------------------------
(* The script.                                                             *)

Init ==
    /\ menu \in Menus
    /\ env = NoEnv
    /\ calls = 0
    /\ phase = "build"
    /\ x = 0
    /\ plan = <<>>
    /\ orig = NoEnv

\* A call of one method leaves Environment e.
Do(method, e) ==
    /\ phase = "build"
    /\ method \in menu.methods
    /\ calls < menu.calls
    /\ calls' = calls + 1
    /\ env' = e
    /\ UNCHANGED <<menu, phase, x, plan, orig>>

\* The script reads its next source.
ReadSources ==
    /\ phase = "build"
    /\ Len(env.sources) < Len(menu.sources)
    /\ env' = Source(env, menu.sources[Len(env.sources) + 1])
    /\ UNCHANGED <<menu, calls, phase, x, plan, orig>>

OneInput == \E s \in DataSets(env) :
    \/ Do("map", Map(env, s, Udf(env), "op"))
    \/ Do("filter", Filter(env, s))
    \/ Do("flat_map", FlatMap(env, s))
    \/ Do("map_partition", MapPartition(env, s, Udf(env)))
    \/ Do("reduce", Reduce(env, s))
    \/ Do("reduce_group", ReduceGroup(env, s))
    \/ Do("aggregate", Aggregate(env, s))
    \/ Do("project", Project(env, s))
    \/ Do("first", First(env, s))
    \/ Do("rebalance", Rebalance(env, s))
    \/ Do("zip_with_index", ZipWithIndex(env, s))
    \/ \E k \in menu.keys : \/ Do("distinct", Distinct(env, s, k))
                           \/ Do("partition_by_hash", PartitionByHash(env, s, k))

Finish == \E s \in DataSets(env) :
    \/ Do("output", Output(env, s))
    \/ Do("write_text", WriteText(env, s))
    \/ Do("write_csv", WriteCsv(env, s))

AddAggregation == \E s \in Class(env, {"agg"}) : Do("and_agg", AndAgg(env, s))

\* The sets that set i is computed from, and i.
Upstream(e, i) ==
    LET U[j \in {0} \cup Known(e)] ==
          IF j = 0 THEN {}
          ELSE {j} \cup U[e.infos[j].parent] \cup U[e.infos[j].other]
                 \cup UNION {U[e.infos[v].other] : v \in ToSet(e.infos[j].bcvars)}
    IN  U[i]

\* Any set may be broadcast, also one that is younger than its reader, but a plan has
\* no cycles.
Broadcast == \E s \in Class(env, {"op", "agg"}), o \in DataSets(env), n \in Names :
    /\ Do("with_broadcast_set", WithBroadcast(env, s, n, o))
    /\ s \notin Upstream(env, o)

BothInputs == \E a, b \in DataSets(env) :
    \/ Do("cross", Cross(env, a, b, "cross"))
    \/ Do("union", Union(env, a, b))
    \/ \E k1, k2 \in menu.keys :
          /\ Len(k1) = Len(k2)
          /\ \/ Do("join", Join(env, a, b, "join", k1, k2))
             \/ Do("co_group", CoGroup(env, a, b, k1, k2))

OfPairs == \E c \in Class(env, {"pair"}) :
    \/ Do("using", Using(env, c))
    \/ Do("project_first", Projector(env, c))

Group == \E s \in DataSets(env), k \in menu.keys : Do("group_by", GroupBy(env, s, k))

Grouped == \E g \in Class(env, {"grouping"}) :
    \/ \E f \in menu.sorts : Do("sort_group", SortGroup(env, g, f))
    \/ Do("g_first", GroupFirst(env, g))
    \/ Do("g_reduce_group", GroupReduceAll(env, g))
    \/ /\ env.infos[g].identifier = "groupby"
       /\ \/ Do("g_reduce", GroupReduce(env, g))
          \/ Do("g_aggregate", GroupAggregate(env, g))

Script == ReadSources \/ OneInput \/ Finish \/ AddAggregation \/ Broadcast \/ BothInputs
            \/ OfPairs \/ Group \/ Grouped

\* execute
Execute ==
    /\ phase = "build"
    /\ env.sinks # <<>>
    /\ phase' = "chain"
    /\ orig' = env
    /\ x' = Len(env.sets)
    /\ UNCHANGED <<env, menu, calls, plan>>

FindChains ==
    /\ phase = "chain"
    /\ x > 0
    /\ x' = x - 1
    /\ env' = IF MayChain(env, env.sets[x]) THEN Chain(env, env.sets[x]) ELSE env
    /\ UNCHANGED <<menu, calls, phase, plan, orig>>

SendPlan ==
    /\ phase = "chain"
    /\ x = 0
    /\ phase' = "sent"
    /\ plan' = Plan(env)
    /\ UNCHANGED <<env, menu, calls, x, orig>>

Next == Script \/ Execute \/ FindChains \/ SendPlan

Spec == Init /\ [][Next]_vars

-----------------------------------------------------------------------------
(* What an executed plan means.                                            *)

\* The sets whose functions the process of set i runs, in order.
ChainOf(e, i) ==
    LET C[j \in Known(e)] == IF e.infos[j].chained = 0 THEN <<j>>
                             ELSE <<j>> \o C[e.infos[j].chained]
    IN  C[i]

\* What function f finds under name n when its process keeps the broadcast
\* variables vs: the last one of a name wins (_receive_broadcast_variables).
Named(e, vs, n) == Last(SelectSeq(vs, LAMBDA v : e.infos[v].name = n))
NamesOf(e, i) == {e.infos[v].name : v \in ToSet(e.infos[i].bcvars)}

\* The elements of set i as a term: the set, the broadcasts its function reads
\* and its inputs. A function reads the names the script gave it, which user has.
Meaning(user, e, i) ==
    LET M[j \in {0} \cup Known(e)] ==
          IF j = 0 THEN <<>>
          ELSE LET info == e.infos[j]
                   Reads(f) == {<<n, M[e.infos[Named(e, info.bcvars, n)].other]>> :
                                  n \in NamesOf(user, f)}
               IN  FoldLeft(LAMBDA in, f : <<<<f, Reads(f), in>>, <<>>>>,
                            <<M[info.parent], M[info.other]>>, ChainOf(e, j))[1]
    IN  M[i]

\* The plans for which merging does change the meaning of what is computed from sets U.
\* A broadcast set is merged with its only reader and broadcast as that, which the
\* test of Environment.py:283 is to prevent.
BroadcastMerged(U) == \E v \in ToSet(orig.broadcast) :
    orig.infos[v].parent \in U /\ env.infos[orig.infos[v].other].chained # 0
\* The second set of a co_group is merged into its input, and the operation, the
\* set's child since co_group, then reads that input and not its key map.
KeyMapBypassed(U) ==
    \E b \in ToSet(orig.sets) : /\ b \notin ToSet(env.sets)
                                /\ \E c \in ToSet(orig.infos[b].children) \cap U :
                                      /\ orig.infos[c].identifier = "cogroup"
                                      /\ b \notin {orig.infos[c].parent, orig.infos[c].other}
\* Two functions of one process call their broadcast variables the same.
NamesClash(U) ==
    \E i \in ToSet(env.sets) : LET fs == ChainOf(env, i) IN
        \E j, k \in DOMAIN fs :
            j # k /\ fs[j] \in U /\ NamesOf(orig, fs[j]) \cap NamesOf(orig, fs[k]) # {}

\* Sink s writes what it would write without the optimisation.
SameAtSink(s) == Meaning(orig, env, s) = Meaning(orig, orig, s)

-----------------------------------------------------------------------------
(* Properties.                                                             *)

\* Type invariant: the lists of an Environment and the links of its infos name
\* infos, and ids come from the counter.
PlanOK ==
    LET Ids == -1 .. env.counter - 1
        Infos == Known(env)
    IN  /\ phase \in {"build", "chain", "sent"}
        /\ menu \in Menus /\ calls \in 0 .. menu.calls
        /\ x \in 0 .. Len(env.sets) + Len(orig.sets)
        /\ \A l \in {env.sources, env.sets, env.sinks, env.broadcast} : ToSet(l) \subseteq Infos
        /\ \A i \in Infos :
              /\ env.infos[i].identifier \in Identifiers
              /\ env.infos[i].id \in Ids
              /\ {env.infos[i].parent, env.infos[i].other, env.infos[i].chained,
                  env.infos[i].group} \subseteq {0} \cup Infos
              /\ ToSet(env.infos[i].children \o env.infos[i].sinks \o env.infos[i].bcvars
                         \o env.infos[i].sorts) \subseteq Infos

\* Merging functions keeps what every sink writes, but for sinks that are computed by way
\* of three things: a broadcast set that was merged with its reader, a co_group that lost
\* its key map, or merged functions that use one broadcast name.  All other sinks of such a
\* script are as they would have been without _find_chains.
ChainingKeepsMeaning ==
    phase = "sent" => \A s \in ToSet(env.sinks) :
        LET U == Upstream(orig, s)
        IN  ~BroadcastMerged(U) /\ ~KeyMapBypassed(U) /\ ~NamesClash(U) => SameAtSink(s)

\* No two operations are sent under one id.
IdsUnique == \A i, j \in DOMAIN plan : plan[i].id = plan[j].id /\ plan[i].id # -1 => i = j

\* Every input and every broadcast is sent itself.
InputsSent == \A i \in DOMAIN plan :
    {plan[i].parent, plan[i].other} \subseteq
        {-1} \cup {env.infos[s].id : s \in ToSet(env.sources \o env.sets)}

\* A set announces the type its last function emits.
TypesTrue == \A s \in ToSet(env.sets) :
    env.infos[s].types = orig.infos[Last(ChainOf(env, s))].types

\* The process that is started for a set finds that set.
OperatorsFound == \A s \in ToSet(env.sets) : OperatorFor(env, env.infos[s].id) = s

\* Each function runs in one process only.
RunOnce == \A f \in ToSet(orig.sets) :
    Cardinality({s \in ToSet(env.sets) : Contains(ChainOf(env, s), f)}) = 1

\* What Java resolves: ids are unique, every input and every broadcast is sent,
\* every set announces the type its last function emits, and a process started
\* for a set with a function finds that function, each one in one process only.
PlanResolves ==
    phase = "sent" => IdsUnique /\ InputsSent /\ TypesTrue /\ OperatorsFound /\ RunOnce

\* The sets that read a grouping: it has been used.
GroupReaders == {c \in Class(env, {"op", "agg", "set"}) :
    LET p == env.infos[c].parent IN p # 0 /\ env.infos[p].cls = "grouping"}
RootOf(c) == env.infos[env.infos[c].parent].group

\* What Java is given for reader c, positions among the extracted keys, stands for the
\* fields that the script named, in the grouping and in every sort that c is below.
ReadsUserKeys(c) ==
    LET p     == env.infos[c].parent
        root  == RootOf(c)
        keys  == env.infos[env.infos[root].parent].operator[2]
        sorts == ToSet(env.infos[root].sorts)
        given == {s \in sorts : env.infos[s].finals # 0}
    IN  /\ [i \in DOMAIN env.infos[root].keys |-> keys[env.infos[root].keys[i] + 1]]
              = env.infos[root].asked
        /\ \A s \in given : keys[env.infos[s].field + 1] = env.infos[s].asked[1]
        /\ \A s \in {p} \cup {env.infos[r].parent : r \in given} : s \in sorts => s \in given
        /\ env.infos[env.infos[root].parent].types = KeyValueType(Len(keys))

\* A grouping that is used once groups and sorts by the fields the script named, at
\* however many levels.
GroupsOnUserKeys ==
    phase = "build" => \A c \in GroupReaders : env.infos[RootOf(c)].finals = 1 => ReadsUserKeys(c)

\* Action property: only a function that no other set or sink than its child reads
\* is merged with it, and the child leaves the plan in the same step. (A broadcast
\* may read it: BroadcastMerged.)
MergedAlone ==
    [][\A p \in Known(env) : env'.infos[p].chained # env.infos[p].chained =>
          /\ {s \in ToSet(env.sets \o env.sinks) : p \in {env.infos[s].parent, env.infos[s].other}}
                = {env'.infos[p].chained}
          /\ ~Contains(env'.sets, env'.infos[p].chained)]_vars
=============================================================================
