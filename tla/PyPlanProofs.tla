---------------------------- MODULE PyPlanProofs ----------------------------
(***************************************************************************)
(* What the plan of any script is, and what merging functions does to it.  *)
(*                                                                         *)
(* A method is made of few changes of an Environment: an info allocated,   *)
(* numbered, adopted, enlisted or changed in one field.  A lemma for each  *)
(* says what it keeps (Keeps, Added, Renumbered, Created, Grown), and each *)
(* method is put together from them; it Follows the Environment before.    *)
(* The merge is followed in the order of the code: the parent takes the    *)
(* child's function (Begin), the child's readers become the parent's       *)
(* (Moved), sinks and broadcasts too (Redirected), the child leaves        *)
(* (Merge).  An Environment between two of these steps is not whole, and   *)
(* each lemma says how far it is.                                          *)
(*                                                                         *)
(* The invariant has three parts.  The first, Whole, is about links.  Its  *)
(* core is Registered: a set is among the children of whatever it reads    *)
(* and a sink among its sinks.  _find_chains looks at the parent's lists   *)
(* only, so this is what makes its test of one child and no sinks mean     *)
(* that nobody else reads the parent.  That the child leaves the plan, and *)
(* nothing else does, needs that ids are unique, that every set has one    *)
(* and that nothing is listed twice, for _remove_set goes by ids.  That    *)
(* what is sent reads only what is sent (Resolved) needs for a merge that  *)
(* the parent is listed, which a source is too, but it has no function.    *)
(*                                                                         *)
(* The second, Apart, is about the functions: each is in the chain of one  *)
(* listed set.  A merge keeps this only if the parent was not merged       *)
(* before, or the chain it had would be cut off.  No line of _find_chains  *)
(* tests that: it holds because the loop runs from the last set to the     *)
(* first and a set that may be merged is listed after the one it reads     *)
(* (Ordered), and because its one child was the merged one (NoMore).       *)
(*                                                                         *)
(* The third, Faithful, is about groupings while the script runs; it holds *)
(* given the other two, and only GroupingsKeepKeys needs it.  A script     *)
(* may hold a grouping for long and extend it, and _finalize changes four  *)
(* kinds of objects in place.  What a grouping is left with names what the *)
(* script named because its identity map is nobody else's (PreOK) and no   *)
(* method touches it (Quiet), because a sort points to the grouping that   *)
(* lists it (SortOK), and because nothing is put below a sort before       *)
(* _finalize has replaced its field by a position (Usable).                *)
(***************************************************************************)
EXTENDS PyPlan, FiniteSetTheorems, SequenceTheorems, TLAPS

-----------------------------------------------------------------------------
(* The types of an Environment.                                            *)

EnvFields == {"infos", "counter", "sources", "sets", "sinks", "broadcast"}
Fields == {"identifier", "cls", "id", "parent", "other", "keys", "key1", "key2", "field",
           "name", "types", "operator", "chained", "group", "sorts", "bcvars", "sinks",
           "children", "asked", "finals"}

\* The identifiers of what is enlisted as a set.
SetKinds == Identifiers \ (Sources \cup SinkKinds \cup {"broadcast"})

\* The script holds no sink and no broadcast, the groupings it holds are of the two
\* kinds, and a source runs no function.
ClassOK(info) ==
    /\ info.cls # "hidden" => info.identifier \notin SinkKinds \cup {"broadcast"}
    /\ info.cls = "grouping" => info.identifier \in {"groupby", "sort"}
    /\ info.identifier \in Sources => info.cls = "set" /\ info.operator = NoFun

\* An info among n of them, when the counter is at k.
InfoOK(info, n, k) ==
    /\ ClassOK(info)
    /\ DOMAIN info = Fields
    /\ info.identifier \in Identifiers
    /\ info.id \in -1 .. k - 1
    /\ info.parent \in 0 .. n
    /\ info.other \in 0 .. n
    /\ info.chained \in 0 .. n
    /\ info.group \in 0 .. n
    /\ info.children \in Seq(1 .. n)
    /\ info.sinks \in Seq(1 .. n)
    /\ info.bcvars \in Seq(1 .. n)
    /\ info.sorts \in Seq(1 .. n)

SomeSeq(s) == \E S : s \in Seq(S)

Typed(e) ==
    /\ DOMAIN e = EnvFields
    /\ SomeSeq(e.infos)
    /\ e.counter \in Nat
    /\ e.sources \in Seq(1 .. New(e))
    /\ e.sets \in Seq(1 .. New(e))
    /\ e.sinks \in Seq(1 .. New(e))
    /\ e.broadcast \in Seq(1 .. New(e))
    /\ \A i \in 1 .. New(e) : InfoOK(e.infos[i], New(e), e.counter)

LEMMA SomeSeqKnown ==
    ASSUME NEW s, SomeSeq(s)
    PROVE  Len(s) \in Nat /\ DOMAIN s = 1 .. Len(s)
  BY LenProperties DEF SomeSeq

LEMMA SomeSeqAppend ==
    ASSUME NEW s, SomeSeq(s), NEW v
    PROVE  /\ SomeSeq(Append(s, v)) /\ Len(Append(s, v)) = Len(s) + 1
           /\ Append(s, v)[Len(s) + 1] = v
           /\ \A i \in 1 .. Len(s) : Append(s, v)[i] = s[i]
  <1>1. PICK S : s \in Seq(S)
    BY DEF SomeSeq
  <1>2. s \in Seq(S \cup {v})
    BY <1>1, SeqMonotonic
  <1>3. v \in S \cup {v}
    OBVIOUS
  <1>4. /\ Append(s, v) \in Seq(S \cup {v}) /\ Len(Append(s, v)) = Len(s) + 1
        /\ Append(s, v)[Len(s) + 1] = v
        /\ \A i \in 1 .. Len(s) : Append(s, v)[i] = s[i]
    BY <1>2, <1>3, AppendProperties
  <1> QED  BY <1>4 DEF SomeSeq

Put(s, i, v) == [s EXCEPT ![i] = v]

LEMMA SomeSeqPut ==
    ASSUME NEW s, SomeSeq(s), NEW i, NEW v
    PROVE  /\ SomeSeq(Put(s, i, v)) /\ Len(Put(s, i, v)) = Len(s)
           /\ i \in 1 .. Len(s) => Put(s, i, v)[i] = v
           /\ \A j \in 1 .. Len(s) : j # i => Put(s, i, v)[j] = s[j]
  <1>1. PICK S : s \in Seq(S)
    BY DEF SomeSeq
  <1>2. s \in Seq(S \cup {v})
    BY <1>1, SeqMonotonic
  <1>3. Len(s) \in Nat /\ DOMAIN s = 1 .. Len(s) /\ s \in [1 .. Len(s) -> S \cup {v}]
    BY <1>2, LenProperties
  <1>4. PICK t : t = Put(s, i, v)
    OBVIOUS
  <1>5. t = [s EXCEPT ![i] = v]
    BY <1>4 DEF Put
  <1>5a. t \in [1 .. Len(s) -> S \cup {v}]
    BY <1>3, <1>5
  <1>6. t \in Seq(S \cup {v}) /\ Len(t) = Len(s)
    BY <1>3, <1>5a, SeqDef, LenProperties
  <1>7. SomeSeq(t) /\ Len(t) = Len(s)
    BY <1>6 DEF SomeSeq
  <1> QED  BY <1>3, <1>4, <1>5, <1>7

\* d is e with info i changed to w.
Changed(e, d, i, w) ==
    /\ Typed(d) /\ New(d) = New(e) /\ d.counter = e.counter
    /\ d.sources = e.sources /\ d.sets = e.sets /\ d.sinks = e.sinks /\ d.broadcast = e.broadcast
    /\ d.infos[i] = w
    /\ \A j \in 1 .. New(e) : j # i => d.infos[j] = e.infos[j]

LEMMA Change ==
    ASSUME NEW e, Typed(e), NEW i \in 1 .. New(e), NEW w, InfoOK(w, New(e), e.counter),
           NEW d, d = [e EXCEPT !.infos[i] = w]
    PROVE  Changed(e, d, i, w)
  <1>1. PICK s : s = Put(e.infos, i, w)
    OBVIOUS
  <1>2. d = [e EXCEPT !.infos = s]
    BY <1>1 DEF Put
  <1>3. /\ SomeSeq(s) /\ Len(s) = Len(e.infos) /\ s[i] = w
        /\ \A j \in 1 .. Len(e.infos) : j # i => s[j] = e.infos[j]
    <2>1. SomeSeq(e.infos) /\ i \in 1 .. Len(e.infos)
      BY DEF Typed, New
    <2> QED  BY <1>1, <2>1, SomeSeqPut
  <1>4. /\ d.infos = s /\ d.counter = e.counter /\ d.sources = e.sources /\ d.sets = e.sets
        /\ d.sinks = e.sinks /\ d.broadcast = e.broadcast /\ DOMAIN d = EnvFields
    BY <1>2 DEF Typed, EnvFields
  <1>5. New(d) = New(e)
    BY <1>3, <1>4 DEF New
  <1>6. \A j \in 1 .. New(e) : InfoOK(d.infos[j], New(e), e.counter)
    BY <1>3, <1>4 DEF Typed, New
  <1>7. Typed(d)
    BY <1>3, <1>4, <1>5, <1>6 DEF Typed
  <1> QED  BY <1>3, <1>4, <1>5, <1>7 DEF Changed, New

\* The fields that a plan's links are made of.
Same(v, w) ==
    /\ w.identifier = v.identifier /\ w.id = v.id
    /\ w.parent = v.parent /\ w.other = v.other /\ w.chained = v.chained /\ w.group = v.group
    /\ w.sinks = v.sinks /\ w.bcvars = v.bcvars

WithChildren(e, i, v) == [e EXCEPT !.infos[i].children = v]

LEMMA SetChildren ==
    ASSUME NEW e, Typed(e), NEW i \in 1 .. New(e), NEW v, v \in Seq(1 .. New(e))
    PROVE  \E w : /\ Changed(e, WithChildren(e, i, v), i, w)
                  /\ Same(e.infos[i], w) /\ w.children = v /\ w.types = e.infos[i].types
  <1>1. PICK w : w = [e.infos[i] EXCEPT !.children = v]
    OBVIOUS
  <1>2. InfoOK(e.infos[i], New(e), e.counter)
    BY DEF Typed
  <1>3. /\ Same(e.infos[i], w) /\ w.children = v /\ w.sorts = e.infos[i].sorts /\ DOMAIN w = Fields
        /\ w.cls = e.infos[i].cls /\ w.operator = e.infos[i].operator
        /\ w.types = e.infos[i].types
    BY <1>1, <1>2 DEF Same, InfoOK, Fields
  <1>4. InfoOK(w, New(e), e.counter)
    BY <1>2, <1>3 DEF InfoOK, Same, ClassOK
  <1>5. WithChildren(e, i, v) = [e EXCEPT !.infos[i] = w]
    BY <1>1 DEF WithChildren
  <1> QED  BY <1>3, <1>4, <1>5, Change

-----------------------------------------------------------------------------
(* What is true of an Environment at any time, in the middle of a method   *)
(* too.                                                                    *)

\* Set s may be a reader of i: a set that may be merged comes after what it reads.
MayRead(e, i, s) == /\ e.infos[s].identifier \in SetKinds
                    /\ e.infos[s].identifier \in Chainable => i < s

\* Each list holds infos of its kind, and only what reads two inputs has a second one.
Kinds(e) == \A s \in 1 .. New(e) :
    /\ Contains(e.sources, s) => /\ e.infos[s].identifier \in Sources
                                 /\ e.infos[s].parent = 0 /\ e.infos[s].other = 0
    /\ Contains(e.sets, s) => /\ e.infos[s].identifier \in SetKinds
                              /\ e.infos[s].identifier \notin Dual => e.infos[s].other = 0
    /\ Contains(e.sinks, s) => e.infos[s].identifier \in SinkKinds /\ e.infos[s].other = 0
    /\ Contains(e.broadcast, s) => e.infos[s].identifier = "broadcast"
    /\ \A i \in 1 .. New(e) :
          /\ Contains(e.infos[i].sinks, s) => e.infos[s].identifier \in SinkKinds
          /\ Contains(e.infos[i].bcvars, s) => e.infos[s].identifier = "broadcast"
          /\ Contains(e.infos[i].children, s) => MayRead(e, i, s)

\* Set s is known to be a reader of p, or to read it through both its inputs.
Reads(e, p, s) == p \in 1 .. New(e) /\ Contains(e.infos[p].children, s)
TwiceIn(l, s) == \E i, j \in 1 .. Len(l) : i # j /\ l[i] = s /\ l[j] = s
ReadsTwice(e, p, s) == p \in 1 .. New(e) /\ TwiceIn(e.infos[p].children, s)

\* What a set, a sink or a broadcast reads knows it.
SetKnown(e, s) == /\ Reads(e, e.infos[s].parent, s)
                  /\ e.infos[s].other # 0 => Reads(e, e.infos[s].other, s)
                  /\ e.infos[s].other = e.infos[s].parent => ReadsTwice(e, e.infos[s].parent, s)

SinkKnown(e, s) == /\ e.infos[s].parent # 0
                   /\ Contains(e.infos[e.infos[s].parent].sinks, s)

BroadcastKnown(e, s) == /\ e.infos[s].parent # 0
                        /\ Contains(e.infos[e.infos[s].parent].bcvars, s)

Registered(e) == \A s \in 1 .. New(e) : /\ Contains(e.sets, s) => SetKnown(e, s)
                                        /\ Contains(e.sinks, s) => SinkKnown(e, s)
                                        /\ Contains(e.broadcast, s) => BroadcastKnown(e, s)

UniqueIds(e) == \A i, j \in 1 .. New(e) :
    e.infos[i].id = e.infos[j].id /\ e.infos[i].id # -1 => i = j

\* Nothing is listed twice.
IsOnce(l) == \A i, j \in 1 .. Len(l) : l[i] = l[j] => i = j
Once(e) == IsOnce(e.sources) /\ IsOnce(e.sets) /\ IsOnce(e.sinks) /\ IsOnce(e.broadcast)

\* A set that may be merged is listed after all sets that were created before it.
Ordered(e) == \A k, l \in 1 .. Len(e.sets) :
    k < l /\ e.infos[e.sets[l]].identifier \in Chainable => e.sets[k] < e.sets[l]

\* Whatever is sent reads only what is sent.
Sent(e, i) == Contains(e.sources, i) \/ Contains(e.sets, i)
Fed(e, s) == /\ Sent(e, e.infos[s].parent)
             /\ e.infos[s].other # 0 => Sent(e, e.infos[s].other)
Resolved(e) == \A s \in 1 .. New(e) :
    Contains(e.sets, s) \/ Contains(e.sinks, s) \/ Contains(e.broadcast, s) => Fed(e, s)

Sane(e) == Kinds(e) /\ Registered(e) /\ UniqueIds(e) /\ Once(e) /\ Ordered(e) /\ Resolved(e)

LEMMA ContainsAppend ==
    ASSUME NEW S, NEW s \in Seq(S), NEW v \in S
    PROVE  \A y : Contains(Append(s, v), y) <=> Contains(s, y) \/ y = v
  <1>1. /\ Len(Append(s, v)) = Len(s) + 1 /\ Append(s, v)[Len(s) + 1] = v
        /\ \A i \in 1 .. Len(s) : Append(s, v)[i] = s[i]
    BY AppendProperties
  <1>2. Len(s) \in Nat
    BY LenProperties
  <1> QED  BY <1>1, <1>2 DEF Contains

LEMMA ContainsIn ==
    ASSUME NEW S, NEW s \in Seq(S), NEW y, Contains(s, y)
    PROVE  y \in S
  BY ElementOfSeq DEF Contains

LEMMA TwiceAppend ==
    ASSUME NEW S, NEW s \in Seq(S), NEW v \in S
    PROVE  /\ \A y : TwiceIn(s, y) => TwiceIn(Append(s, v), y)
           /\ Contains(s, v) => TwiceIn(Append(s, v), v)
  <1>1. /\ Len(Append(s, v)) = Len(s) + 1 /\ Append(s, v)[Len(s) + 1] = v
        /\ \A i \in 1 .. Len(s) : Append(s, v)[i] = s[i]
    BY AppendProperties
  <1>2. Len(s) \in Nat
    BY LenProperties
  <1>3. PICK t : t = Append(s, v)
    OBVIOUS
  <1>4. \A i \in 1 .. Len(s) : i \in 1 .. Len(t) /\ t[i] = s[i]
    BY <1>1, <1>2, <1>3
  <1>5. Len(s) + 1 \in 1 .. Len(t) /\ t[Len(s) + 1] = v /\ Len(s) + 1 \notin 1 .. Len(s)
    BY <1>1, <1>2, <1>3
  <1>6. \A y : TwiceIn(s, y) => TwiceIn(t, y)
    BY <1>4 DEF TwiceIn
  <1>7. Contains(s, v) => TwiceIn(t, v)
    BY <1>4, <1>5 DEF TwiceIn, Contains
  <1> QED  BY <1>3, <1>6, <1>7

LEMMA OnceAppend ==
    ASSUME NEW S, NEW s \in Seq(S), NEW v \in S, IsOnce(s), ~Contains(s, v)
    PROVE  IsOnce(Append(s, v))
  <1>1. /\ Len(Append(s, v)) = Len(s) + 1 /\ Append(s, v)[Len(s) + 1] = v
        /\ \A i \in 1 .. Len(s) : Append(s, v)[i] = s[i]
    BY AppendProperties
  <1>2. Len(s) \in Nat
    BY LenProperties
  <1>3. \A i \in 1 .. Len(s) : s[i] # v
    BY DEF Contains
  <1> QED  BY <1>1, <1>2, <1>3 DEF IsOnce

\* Steps that only add readers to what is read, and change nothing else of the links.
Keeps(e, d) ==
    /\ New(d) = New(e) /\ d.counter = e.counter
    /\ d.sources = e.sources /\ d.sets = e.sets /\ d.sinks = e.sinks /\ d.broadcast = e.broadcast
    /\ \A j \in 1 .. New(e) : /\ Same(e.infos[j], d.infos[j])
                              /\ \A s \in 1 .. New(e) : Reads(e, j, s) => Reads(d, j, s)
                              /\ \A s \in 1 .. New(e) : ReadsTwice(e, j, s) => ReadsTwice(d, j, s)
                              /\ \A s \in 1 .. New(e) : Reads(d, j, s) =>
                                   Reads(e, j, s) \/ MayRead(e, j, s)

LEMMA KeepsSane ==
    ASSUME NEW e, NEW d, Typed(e), Typed(d), Keeps(e, d), Sane(e)
    PROVE  Sane(d)
  <1>1. Kinds(d)
    BY DEF Sane, Kinds, Keeps, Same, Reads, MayRead
  <1>2. Registered(d)
    <2> SUFFICES ASSUME NEW s \in 1 .. New(e)
                 PROVE  /\ Contains(d.sets, s) => SetKnown(d, s)
                        /\ Contains(d.sinks, s) => SinkKnown(d, s)
                        /\ Contains(d.broadcast, s) => BroadcastKnown(d, s)
      BY DEF Registered, Keeps
    <2>1. /\ Same(e.infos[s], d.infos[s]) /\ d.sets = e.sets /\ d.sinks = e.sinks
          /\ d.broadcast = e.broadcast
      BY DEF Keeps
    <2>2. \A p : (Reads(e, p, s) => Reads(d, p, s)) /\ (ReadsTwice(e, p, s) => ReadsTwice(d, p, s))
      <3> TAKE p
      <3>1. CASE p \in 1 .. New(e)
        BY <3>1 DEF Keeps
      <3>2. CASE p \notin 1 .. New(e)
        BY <3>2 DEF Reads, ReadsTwice
      <3> QED  BY <3>1, <3>2
    <2>3. Contains(e.sets, s) => SetKnown(e, s)
      BY DEF Sane, Registered
    <2>4. /\ Contains(e.sinks, s) => SinkKnown(e, s)
          /\ Contains(e.broadcast, s) => BroadcastKnown(e, s)
      BY DEF Sane, Registered
    <2>5. Contains(e.sets, s) => SetKnown(d, s)
      BY <2>1, <2>2, <2>3 DEF SetKnown, Same
    <2>6. ASSUME e.infos[s].parent # 0
          PROVE  LET p == e.infos[s].parent IN
                 /\ d.infos[p].sinks = e.infos[p].sinks /\ d.infos[p].bcvars = e.infos[p].bcvars
                 /\ d.infos[s].parent = p
      <3>1. e.infos[s].parent \in 0 .. New(e) /\ New(e) \in Nat
        BY SomeSeqKnown DEF Typed, New, InfoOK
      <3>2. PICK p : p = e.infos[s].parent
        OBVIOUS
      <3>3. p \in 1 .. New(e)
        BY <2>6, <3>1, <3>2
      <3>4. d.infos[p].sinks = e.infos[p].sinks /\ d.infos[p].bcvars = e.infos[p].bcvars
        BY <3>3 DEF Keeps, Same
      <3>5. d.infos[s].parent = p
        BY <2>1, <3>2 DEF Same
      <3> QED  BY <3>2, <3>4, <3>5
    <2>7. Contains(e.sinks, s) => SinkKnown(d, s)
      BY <2>4, <2>6 DEF SinkKnown
    <2>8. Contains(e.broadcast, s) => BroadcastKnown(d, s)
      BY <2>4, <2>6 DEF BroadcastKnown
    <2> QED  BY <2>1, <2>5, <2>7, <2>8
  <1>3. UniqueIds(d) /\ Once(d)
    BY DEF Sane, UniqueIds, Once, Keeps, Same
  <1>4. Ordered(d)
    <2>1. e.sets \in Seq(1 .. New(e)) /\ d.sets = e.sets
      BY DEF Typed, Keeps
    <2>2. \A k \in 1 .. Len(e.sets) : e.sets[k] \in 1 .. New(e)
      BY <2>1, ElementOfSeq
    <2>3. \A i \in 1 .. New(e) : d.infos[i].identifier = e.infos[i].identifier
      BY DEF Keeps, Same
    <2> QED  BY <2>1, <2>2, <2>3 DEF Sane, Ordered
  <1>5. Resolved(d)
    BY DEF Sane, Resolved, Keeps, Same, Fed, Sent
  <1> QED  BY <1>1, <1>2, <1>3, <1>4, <1>5 DEF Sane

LEMMA AdoptKeeps ==
    ASSUME NEW e, Typed(e), NEW p \in 1 .. New(e), NEW c \in 1 .. New(e), MayRead(e, p, c)
    PROVE  LET d == Adopt(e, p, c) IN
           /\ Typed(d) /\ Keeps(e, d) /\ Reads(d, p, c)
           /\ Reads(e, p, c) => ReadsTwice(d, p, c)
           /\ \A j \in 1 .. New(e) : d.infos[j].types = e.infos[j].types
  <1>1. PICK l : l = e.infos[p].children
    OBVIOUS
  <1>2. PICK v : v = Append(l, c)
    OBVIOUS
  <1>3. PICK d : d = WithChildren(e, p, v)
    OBVIOUS
  <1>4. l \in Seq(1 .. New(e))
    BY <1>1 DEF Typed, InfoOK
  <1>5. v \in Seq(1 .. New(e))
    BY <1>2, <1>4, AppendProperties
  <1>5a. PICK T : T = 1 .. New(e)
    OBVIOUS
  <1>5b. l \in Seq(T) /\ c \in T
    BY <1>4, <1>5a
  <1>6. \A y : Contains(v, y) <=> (Contains(l, y) \/ y = c)
    BY <1>2, <1>5b, ContainsAppend
  <1>6a. /\ \A y : TwiceIn(l, y) => TwiceIn(v, y)
         /\ Contains(l, c) => TwiceIn(v, c)
    BY <1>2, <1>5b, TwiceAppend
  <1>7. PICK w : Changed(e, d, p, w) /\ Same(e.infos[p], w) /\ w.children = v
                  /\ w.types = e.infos[p].types
    BY <1>3, <1>5, SetChildren
  <1>8. Keeps(e, d)
    BY <1>1, <1>6, <1>6a, <1>7 DEF Changed, Keeps, Same, Reads, ReadsTwice
  <1>9. Typed(d) /\ Reads(d, p, c) /\ (Reads(e, p, c) => ReadsTwice(d, p, c))
    BY <1>1, <1>6, <1>6a, <1>7 DEF Changed, Reads, ReadsTwice
  <1>9a. \A j \in 1 .. New(e) : d.infos[j].types = e.infos[j].types
    BY <1>7 DEF Changed
  <1>10. Adopt(e, p, c) = d
    BY <1>1, <1>2, <1>3, Zenon DEF Adopt, WithChildren
  <1> QED  BY <1>8, <1>9, <1>9a, <1>10

LEMMA KnownLen == ASSUME NEW e, Typed(e) PROVE New(e) \in Nat /\ Known(e) = 1 .. New(e)
  BY SomeSeqKnown DEF Typed, New, Known

\* An id given to info i.
Renumbered(e, d, i) ==
    /\ New(d) = New(e) /\ d.counter = e.counter + 1
    /\ d.sources = e.sources /\ d.sets = e.sets /\ d.sinks = e.sinks /\ d.broadcast = e.broadcast
    /\ d.infos[i].id = e.counter
    /\ \A j \in 1 .. New(e) :
          /\ j # i => d.infos[j].id = e.infos[j].id
          /\ d.infos[j].identifier = e.infos[j].identifier
          /\ d.infos[j].parent = e.infos[j].parent /\ d.infos[j].other = e.infos[j].other
          /\ d.infos[j].chained = e.infos[j].chained /\ d.infos[j].group = e.infos[j].group
          /\ d.infos[j].sinks = e.infos[j].sinks /\ d.infos[j].bcvars = e.infos[j].bcvars
          /\ d.infos[j].children = e.infos[j].children

LEMMA InfoMore ==
    ASSUME NEW n \in Nat, NEW m \in Nat, n <= m, NEW k \in Nat, NEW l \in Nat, k <= l,
           NEW v, InfoOK(v, n, k)
    PROVE  InfoOK(v, m, l)
  <1>1. 1 .. n \subseteq 1 .. m /\ 0 .. n \subseteq 0 .. m /\ -1 .. k - 1 \subseteq -1 .. l - 1
    OBVIOUS
  <1>2. \A s \in Seq(1 .. n) : s \in Seq(1 .. m)
    BY <1>1, SeqMonotonic
  <1> QED  BY <1>1, <1>2 DEF InfoOK

LEMMA NumberStep ==
    ASSUME NEW e, Typed(e), NEW i \in 1 .. New(e)
    PROVE  LET d == Number(e, i) IN Typed(d) /\ Renumbered(e, d, i)
  <1>1. PICK w : w = [e.infos[i] EXCEPT !.id = e.counter]
    OBVIOUS
  <1>2. PICK k : k = e.counter + 1
    OBVIOUS
  <1>3. PICK s : s = Put(e.infos, i, w)
    OBVIOUS
  <1>4. PICK d : d = [e EXCEPT !.infos = s, !.counter = k]
    OBVIOUS
  <1>5. Number(e, i) = d
    BY <1>1, <1>2, <1>3, <1>4, Zenon DEF Number, Put
  <1>6. /\ InfoOK(e.infos[i], New(e), e.counter) /\ e.counter \in Nat /\ k \in Nat
        /\ SomeSeq(e.infos) /\ New(e) \in Nat
    <2>1. InfoOK(e.infos[i], New(e), e.counter) /\ e.counter \in Nat /\ SomeSeq(e.infos)
      BY DEF Typed
    <2> QED  BY <1>2, <2>1, KnownLen
  <1>7. /\ w.id = e.counter /\ DOMAIN w = Fields
        /\ w.identifier = e.infos[i].identifier
        /\ w.parent = e.infos[i].parent /\ w.other = e.infos[i].other
        /\ w.chained = e.infos[i].chained /\ w.group = e.infos[i].group
        /\ w.sinks = e.infos[i].sinks /\ w.bcvars = e.infos[i].bcvars
        /\ w.children = e.infos[i].children /\ w.sorts = e.infos[i].sorts
        /\ w.cls = e.infos[i].cls /\ w.operator = e.infos[i].operator
    BY <1>1, <1>6 DEF InfoOK, Fields
  <1>8. InfoOK(w, New(e), k)
    <2>1. ClassOK(w)
      BY <1>6, <1>7 DEF InfoOK, ClassOK
    <2> QED  BY <1>2, <1>6, <1>7, <2>1 DEF InfoOK
  <1>9. /\ SomeSeq(s) /\ Len(s) = New(e) /\ s[i] = w
        /\ \A j \in 1 .. New(e) : j # i => s[j] = e.infos[j]
    <2>1. New(e) = Len(e.infos)
      BY DEF New
    <2>2. SomeSeq(e.infos) /\ i \in 1 .. Len(e.infos)
      BY <1>6, <2>1
    <2>3. /\ SomeSeq(s) /\ Len(s) = Len(e.infos) /\ s[i] = w
          /\ \A j \in 1 .. Len(e.infos) : j # i => s[j] = e.infos[j]
      BY <1>3, <2>2, SomeSeqPut
    <2> QED  BY <2>1, <2>3
  <1>10. /\ d.infos = s /\ d.counter = k /\ d.sources = e.sources /\ d.sets = e.sets
         /\ d.sinks = e.sinks /\ d.broadcast = e.broadcast /\ DOMAIN d = EnvFields
    BY <1>4 DEF Typed, EnvFields
  <1>11. New(d) = New(e)
    BY <1>9, <1>10 DEF New
  <1>12. ASSUME NEW j \in 1 .. New(e), j # i PROVE InfoOK(e.infos[j], New(e), k)
    <2>1. InfoOK(e.infos[j], New(e), e.counter)
      BY DEF Typed
    <2> QED  BY <1>2, <1>6, <2>1, InfoMore
  <1>13. \A j \in 1 .. New(e) : InfoOK(d.infos[j], New(e), k)
    BY <1>8, <1>9, <1>10, <1>12
  <1>14. Typed(d)
    BY <1>6, <1>9, <1>10, <1>11, <1>13 DEF Typed
  <1>15. Renumbered(e, d, i)
    BY <1>2, <1>7, <1>9, <1>10, <1>11 DEF Renumbered
  <1> QED  BY <1>5, <1>14, <1>15

LEMMA NumberSane ==
    ASSUME NEW e, NEW d, NEW i \in 1 .. New(e), Typed(e), Renumbered(e, d, i), Sane(e)
    PROVE  Sane(d)
  <1>1. Kinds(d)
    BY DEF Sane, Kinds, Renumbered, MayRead
  <1>2. Registered(d)
    <2>1. \A p, s : /\ Reads(e, p, s) => Reads(d, p, s)
                    /\ ReadsTwice(e, p, s) => ReadsTwice(d, p, s)
      BY DEF Reads, ReadsTwice, Renumbered
    <2>2. ASSUME NEW s \in 1 .. New(e), SetKnown(e, s) PROVE SetKnown(d, s)
      BY <2>1, <2>2 DEF SetKnown, Renumbered
    <2>3. ASSUME NEW s \in 1 .. New(e), e.infos[s].parent # 0 PROVE e.infos[s].parent \in 1 .. New(e)
      <3>1. e.infos[s].parent \in 0 .. New(e) /\ New(e) \in Nat
        BY KnownLen DEF Typed, InfoOK
      <3> QED  BY <2>3, <3>1
    <2>4. ASSUME NEW s \in 1 .. New(e), SinkKnown(e, s) PROVE SinkKnown(d, s)
      BY <2>3, <2>4 DEF SinkKnown, Renumbered
    <2>5. ASSUME NEW s \in 1 .. New(e), BroadcastKnown(e, s) PROVE BroadcastKnown(d, s)
      BY <2>3, <2>5 DEF BroadcastKnown, Renumbered
    <2> QED  BY <2>2, <2>4, <2>5 DEF Sane, Registered, Renumbered
  <1>3. UniqueIds(d)
    <2>1. \A j \in 1 .. New(e) : e.infos[j].id \in -1 .. e.counter - 1
      BY DEF Typed, InfoOK
    <2>2. e.counter \in Nat
      BY DEF Typed
    <2> QED  BY <2>1, <2>2 DEF Sane, UniqueIds, Renumbered
  <1>4. Once(d)
    BY DEF Sane, Once, Renumbered
  <1>5. Ordered(d)
    <2>1. \A k \in 1 .. Len(e.sets) : e.sets[k] \in 1 .. New(e)
      BY ElementOfSeq DEF Typed
    <2> QED  BY <2>1 DEF Sane, Ordered, Renumbered
  <1>6. Resolved(d)
    BY DEF Sane, Resolved, Renumbered, Fed, Sent
  <1> QED  BY <1>1, <1>2, <1>3, <1>4, <1>5, <1>6 DEF Sane

\* An info as it is created, to become number n.
Fresh(v, n) ==
    /\ InfoOK(v, n, 0)
    /\ v.children = <<>> /\ v.sinks = <<>> /\ v.bcvars = <<>> /\ v.chained = 0

Added(e, d, v) ==
    /\ New(d) = New(e) + 1 /\ d.counter = e.counter
    /\ d.sources = e.sources /\ d.sets = e.sets /\ d.sinks = e.sinks /\ d.broadcast = e.broadcast
    /\ d.infos[New(d)] = v
    /\ \A j \in 1 .. New(e) : d.infos[j] = e.infos[j]

LEMMA AllocateStep ==
    ASSUME NEW e, Typed(e), NEW v, Fresh(v, New(e) + 1)
    PROVE  LET d == Allocate(e, v) IN Typed(d) /\ Added(e, d, v)
  <1>1. PICK s : s = Append(e.infos, v)
    OBVIOUS
  <1>2. PICK d : d = [e EXCEPT !.infos = s]
    OBVIOUS
  <1>3. Allocate(e, v) = d
    BY <1>1, <1>2, Zenon DEF Allocate
  <1>4. SomeSeq(e.infos) /\ New(e) \in Nat /\ e.counter \in Nat
    BY KnownLen DEF Typed
  <1>5. /\ SomeSeq(s) /\ Len(s) = New(e) + 1 /\ s[New(e) + 1] = v
        /\ \A j \in 1 .. New(e) : s[j] = e.infos[j]
    BY <1>1, <1>4, SomeSeqAppend DEF New
  <1>6. /\ d.infos = s /\ d.counter = e.counter /\ d.sources = e.sources /\ d.sets = e.sets
        /\ d.sinks = e.sinks /\ d.broadcast = e.broadcast /\ DOMAIN d = EnvFields
    BY <1>2 DEF Typed, EnvFields
  <1>7. New(d) = New(e) + 1
    BY <1>5, <1>6 DEF New
  <1>8. Added(e, d, v)
    BY <1>5, <1>6, <1>7 DEF Added
  <1>9. InfoOK(v, New(e) + 1, e.counter)
    BY <1>4, InfoMore DEF Fresh
  <1>10. ASSUME NEW j \in 1 .. New(e) PROVE InfoOK(e.infos[j], New(e) + 1, e.counter)
    <2>1. InfoOK(e.infos[j], New(e), e.counter)
      BY DEF Typed
    <2> QED  BY <1>4, <2>1, InfoMore
  <1>11. \A j \in 1 .. New(d) : InfoOK(d.infos[j], New(d), d.counter)
    BY <1>4, <1>5, <1>6, <1>7, <1>9, <1>10
  <1>12. \A l \in Seq(1 .. New(e)) : l \in Seq(1 .. New(d))
    BY <1>4, <1>7, SeqMonotonic
  <1>13. Typed(d)
    BY <1>4, <1>5, <1>6, <1>11, <1>12 DEF Typed
  <1> QED  BY <1>3, <1>8, <1>13

LEMMA AllocateSane ==
    ASSUME NEW e, Typed(e), NEW v, Fresh(v, New(e) + 1), NEW d, Typed(d), Added(e, d, v), Sane(e)
    PROVE  Sane(d)
  <1>0. New(e) \in Nat /\ New(d) = New(e) + 1
    BY KnownLen DEF Added
  <1>1. \A y : ~Contains(<<>>, y)
    BY DEF Contains
  <1>2. \A s : Contains(e.sources, s) \/ Contains(e.sets, s) \/ Contains(e.sinks, s)
               \/ Contains(e.broadcast, s) => s \in 1 .. New(e)
    BY ContainsIn DEF Typed
  <1>3. \A j \in 1 .. New(e) : \A s :
          Contains(e.infos[j].sinks, s) \/ Contains(e.infos[j].bcvars, s)
            \/ Contains(e.infos[j].children, s) => s \in 1 .. New(e)
    BY ContainsIn DEF Typed, InfoOK
  <1>4. Kinds(d)
    BY <1>0, <1>1, <1>2, <1>3 DEF Sane, Kinds, Added, Fresh, MayRead
  <1>5. Registered(d)
    <2>1. \A p, s : /\ Reads(e, p, s) => Reads(d, p, s)
                    /\ ReadsTwice(e, p, s) => ReadsTwice(d, p, s)
      BY <1>0 DEF Reads, ReadsTwice, Added
    <2>2. ASSUME NEW s \in 1 .. New(e), SetKnown(e, s) PROVE SetKnown(d, s)
      BY <2>1, <2>2 DEF SetKnown, Added
    <2>3. ASSUME NEW s \in 1 .. New(e), e.infos[s].parent # 0 PROVE e.infos[s].parent \in 1 .. New(e)
      <3>1. e.infos[s].parent \in 0 .. New(e) /\ New(e) \in Nat
        BY KnownLen DEF Typed, InfoOK
      <3> QED  BY <2>3, <3>1
    <2>4. ASSUME NEW s \in 1 .. New(e), SinkKnown(e, s) PROVE SinkKnown(d, s)
      BY <2>3, <2>4 DEF SinkKnown, Added
    <2>5. ASSUME NEW s \in 1 .. New(e), BroadcastKnown(e, s) PROVE BroadcastKnown(d, s)
      BY <2>3, <2>5 DEF BroadcastKnown, Added
    <2> QED  BY <1>2, <2>2, <2>4, <2>5 DEF Sane, Registered, Added
  <1>6. UniqueIds(d)
    <2>1. v.id = -1
      BY DEF Fresh, InfoOK
    <2> QED  BY <1>0, <2>1 DEF Sane, UniqueIds, Added
  <1>7. Once(d)
    BY DEF Sane, Once, Added
  <1>8. Ordered(d)
    <2>1. \A k \in 1 .. Len(e.sets) : e.sets[k] \in 1 .. New(e)
      BY ElementOfSeq DEF Typed
    <2> QED  BY <2>1 DEF Sane, Ordered, Added
  <1>9. Resolved(d)
    BY <1>2 DEF Sane, Resolved, Added, Fed, Sent
  <1> QED  BY <1>4, <1>5, <1>6, <1>7, <1>8, <1>9 DEF Sane

\* Fields that say nothing of links, and those that say nothing of links but something
\* of the object the script holds.
Plain == {"keys", "key1", "key2", "field", "name", "types", "asked", "finals"}

Unlinked == Plain \cup {"cls", "operator"}

WithField(e, i, f, v) == [e EXCEPT !.infos[i][f] = v]
InfoField(v, f, u) == [v EXCEPT ![f] = u]

LEMMA PlainFits ==
    ASSUME NEW v, DOMAIN v = Fields, ClassOK(v), NEW f \in Plain, NEW u
    PROVE  ClassOK(InfoField(v, f, u))
  <1>1. PICK w : w = InfoField(v, f, u)
    OBVIOUS
  <1>2. DOMAIN w = Fields /\ \A g \in Fields : g # f => w[g] = v[g]
    BY <1>1 DEF InfoField
  <1>3. f \notin {"identifier", "cls", "operator"}
    BY DEF Plain
  <1>4. w.identifier = v.identifier /\ w.cls = v.cls /\ w.operator = v.operator
    BY <1>2, <1>3 DEF Fields
  <1> QED  BY <1>1, <1>4 DEF ClassOK

LEMMA UnlinkedStep ==
    ASSUME NEW e, Typed(e), NEW i, NEW f \in Unlinked, NEW v,
           i \in 1 .. New(e) => ClassOK(InfoField(e.infos[i], f, v))
    PROVE  LET d == WithField(e, i, f, v) IN Typed(d) /\ Keeps(e, d)
  <1>1. PICK w : w = [e.infos[i] EXCEPT ![f] = v]
    OBVIOUS
  <1>2. PICK s : s = Put(e.infos, i, w)
    OBVIOUS
  <1>3. PICK d : d = [e EXCEPT !.infos = s]
    OBVIOUS
  <1>4. WithField(e, i, f, v) = d
    BY <1>1, <1>2, <1>3, Zenon DEF WithField, Put
  <1>5. SomeSeq(e.infos) /\ New(e) = Len(e.infos)
    BY DEF Typed, New
  <1>6. /\ SomeSeq(s) /\ Len(s) = Len(e.infos)
        /\ i \in 1 .. Len(e.infos) => s[i] = w
        /\ \A j \in 1 .. Len(e.infos) : j # i => s[j] = e.infos[j]
    <2>1. SomeSeq(e.infos)
      BY <1>5
    <2> QED  BY <1>2, <2>1, SomeSeqPut
  <1>7. ASSUME i \in 1 .. New(e)
        PROVE  /\ InfoOK(w, New(e), e.counter) /\ Same(e.infos[i], w)
               /\ w.children = e.infos[i].children
    <2>1. InfoOK(e.infos[i], New(e), e.counter)
      BY <1>7 DEF Typed
    <2>2. DOMAIN w = Fields /\ \A g \in Fields : g # f => w[g] = e.infos[i][g]
      BY <1>1, <2>1 DEF InfoOK
    <2>3. f \notin {"identifier", "id", "parent", "other", "chained", "group", "children",
                    "sinks", "bcvars", "sorts"}
      BY DEF Plain, Unlinked
    <2>4. /\ w.identifier = e.infos[i].identifier /\ w.id = e.infos[i].id
          /\ w.parent = e.infos[i].parent /\ w.other = e.infos[i].other
          /\ w.chained = e.infos[i].chained /\ w.group = e.infos[i].group
          /\ w.sinks = e.infos[i].sinks /\ w.bcvars = e.infos[i].bcvars
          /\ w.children = e.infos[i].children /\ w.sorts = e.infos[i].sorts
      BY <2>2, <2>3 DEF Fields
    <2>5. ClassOK(w)
      BY <1>1, <1>7, Zenon DEF InfoField
    <2> QED  BY <2>1, <2>2, <2>4, <2>5 DEF InfoOK, Same
  <1>8. /\ d.infos = s /\ d.counter = e.counter /\ d.sources = e.sources /\ d.sets = e.sets
        /\ d.sinks = e.sinks /\ d.broadcast = e.broadcast /\ DOMAIN d = EnvFields
    BY <1>3 DEF Typed, EnvFields
  <1>9. New(d) = New(e)
    BY <1>5, <1>6, <1>8 DEF New
  <1>10. ASSUME NEW j \in 1 .. New(e)
         PROVE  /\ InfoOK(d.infos[j], New(e), e.counter) /\ Same(e.infos[j], d.infos[j])
                /\ d.infos[j].children = e.infos[j].children
    <2>1. CASE j = i
      <3>1. d.infos[j] = w
        BY <1>5, <1>6, <1>8, <2>1
      <3> QED  BY <1>7, <2>1, <3>1
    <2>2. CASE j # i
      <3>1. d.infos[j] = e.infos[j]
        BY <1>5, <1>6, <1>8, <2>2
      <3> QED  BY <3>1 DEF Typed, Same
    <2> QED  BY <2>1, <2>2
  <1>11. Typed(d)
    BY <1>6, <1>8, <1>9, <1>10 DEF Typed
  <1>12. Keeps(e, d)
    BY <1>8, <1>9, <1>10 DEF Keeps, Reads, ReadsTwice
  <1> QED  BY <1>4, <1>11, <1>12

LEMMA FieldStep ==
    ASSUME NEW e, Typed(e), NEW i, NEW f \in Plain, NEW v
    PROVE  LET d == WithField(e, i, f, v) IN Typed(d) /\ Keeps(e, d)
  <1>1. f \in Unlinked
    BY DEF Unlinked
  <1>2. ASSUME i \in 1 .. New(e) PROVE ClassOK(InfoField(e.infos[i], f, v))
    <2>1. PICK w : w = e.infos[i]
      OBVIOUS
    <2>2. DOMAIN w = Fields /\ ClassOK(w)
      BY <1>2, <2>1 DEF Typed, InfoOK
    <2>3. ClassOK(InfoField(w, f, v))
      BY <2>2, PlainFits
    <2> QED  BY <2>1, <2>3
  <1> QED  BY <1>1, <1>2, UnlinkedStep

LEMMA KeepsAgain ==
    ASSUME NEW e, NEW d, NEW g, Keeps(e, d), Keeps(d, g)
    PROVE  Keeps(e, g)
  <1>1. \A i, s : s \in 1 .. New(e) /\ MayRead(d, i, s) => MayRead(e, i, s)
    BY DEF Keeps, Same, MayRead
  <1>2. \A j \in 1 .. New(e) : Same(e.infos[j], g.infos[j])
    BY DEF Keeps, Same
  <1>3. ASSUME NEW j \in 1 .. New(e), NEW s \in 1 .. New(e)
        PROVE  /\ Reads(e, j, s) => Reads(g, j, s)
               /\ ReadsTwice(e, j, s) => ReadsTwice(g, j, s)
               /\ Reads(g, j, s) => Reads(e, j, s) \/ MayRead(e, j, s)
    BY <1>1, <1>3 DEF Keeps
  <1> QED  BY <1>2, <1>3 DEF Keeps

LEMMA EnlistStep ==
    ASSUME NEW e, Typed(e), NEW c \in 1 .. New(e)
    PROVE  LET d == Enlist(e, c) IN
           /\ Typed(d) /\ New(d) = New(e) /\ d.infos = e.infos /\ d.counter = e.counter
           /\ d.sources = e.sources /\ d.sinks = e.sinks /\ d.broadcast = e.broadcast
           /\ d.sets = Append(e.sets, c)
  <1>1. PICK s : s = Append(e.sets, c)
    OBVIOUS
  <1>2. PICK d : d = [e EXCEPT !.sets = s]
    OBVIOUS
  <1>3. Enlist(e, c) = d
    BY <1>1, <1>2, Zenon DEF Enlist
  <1>4. s \in Seq(1 .. New(e))
    BY <1>1, AppendProperties DEF Typed
  <1>5. /\ d.infos = e.infos /\ d.counter = e.counter
        /\ d.sources = e.sources /\ d.sinks = e.sinks /\ d.broadcast = e.broadcast
        /\ d.sets = s /\ DOMAIN d = EnvFields
    BY <1>2 DEF Typed, EnvFields
  <1>6. New(d) = New(e)
    BY <1>5 DEF New
  <1>7. Typed(d)
    BY <1>4, <1>5, <1>6 DEF Typed
  <1> QED  BY <1>1, <1>3, <1>5, <1>6, <1>7

LEMMA EnlistSane ==
    ASSUME NEW e, Typed(e), NEW c \in 1 .. New(e), Sane(e),
           ~Contains(e.sets, c), SetKnown(e, c), Fed(e, c),
           e.infos[c].identifier \in SetKinds,
           e.infos[c].identifier \in Chainable => c = New(e),
           e.infos[c].identifier \notin Dual => e.infos[c].other = 0
    PROVE  Sane(Enlist(e, c))
  <1>1. PICK s : s = Append(e.sets, c)
    OBVIOUS
  <1>2. PICK d : d = Enlist(e, c)
    OBVIOUS
  <1>3. /\ New(d) = New(e) /\ d.infos = e.infos /\ d.sources = e.sources
        /\ d.sinks = e.sinks /\ d.broadcast = e.broadcast /\ d.sets = s
    BY <1>1, <1>2, EnlistStep
  <1>4. e.sets \in Seq(1 .. New(e)) /\ Len(e.sets) \in Nat
    BY LenProperties DEF Typed
  <1>5. \A y : Contains(s, y) <=> (Contains(e.sets, y) \/ y = c)
    <2>1. PICK l : l = e.sets
      OBVIOUS
    <2>2. PICK T : T = 1 .. New(e)
      OBVIOUS
    <2>3. l \in Seq(T) /\ c \in T
      BY <1>4, <2>1, <2>2
    <2>4. \A y : Contains(Append(l, c), y) <=> (Contains(l, y) \/ y = c)
      BY <2>3, ContainsAppend
    <2> QED  BY <1>1, <2>1, <2>4
  <1>6. Kinds(d)
    BY <1>3, <1>5 DEF Sane, Kinds, MayRead
  <1>7. Registered(d)
    <2>1. \A y : SetKnown(e, y) => SetKnown(d, y)
      BY <1>3 DEF SetKnown, Reads, ReadsTwice
    <2>2. \A y : SinkKnown(e, y) => SinkKnown(d, y)
      BY <1>3 DEF SinkKnown
    <2>3. \A y : BroadcastKnown(e, y) => BroadcastKnown(d, y)
      BY <1>3 DEF BroadcastKnown
    <2> QED  BY <1>3, <1>5, <2>1, <2>2, <2>3 DEF Sane, Registered
  <1>8. UniqueIds(d)
    BY <1>3 DEF Sane, UniqueIds
  <1>9. Once(d)
    <2>1. IsOnce(s)
      BY <1>1, <1>4, OnceAppend DEF Sane, Once
    <2> QED  BY <1>3, <2>1 DEF Sane, Once
  <1>10. Ordered(d)
    <2>1. /\ Len(s) = Len(e.sets) + 1 /\ s[Len(e.sets) + 1] = c
          /\ \A i \in 1 .. Len(e.sets) : s[i] = e.sets[i]
      BY <1>1, <1>4, AppendProperties
    <2>2. \A i \in 1 .. Len(e.sets) : e.sets[i] \in 1 .. New(e) /\ e.sets[i] # c
      BY <1>4, ElementOfSeq DEF Contains
    <2>3. New(e) \in Nat
      BY KnownLen
    <2>4. ASSUME NEW k \in 1 .. Len(s), NEW l \in 1 .. Len(s), k < l,
                 e.infos[s[l]].identifier \in Chainable
          PROVE  s[k] < s[l]
      <3>1. CASE l = Len(e.sets) + 1
        <4>1. k \in 1 .. Len(e.sets)
          BY <1>4, <2>1, <2>4, <3>1
        <4>2. s[k] \in 1 .. New(e) /\ s[k] # c /\ s[l] = c /\ c = New(e)
          BY <2>1, <2>2, <2>4, <3>1, <4>1
        <4> QED  BY <2>3, <4>2
      <3>2. CASE l # Len(e.sets) + 1
        <4>1. k \in 1 .. Len(e.sets) /\ l \in 1 .. Len(e.sets)
          BY <1>4, <2>1, <2>4, <3>2
        <4> QED  BY <2>1, <2>4, <4>1 DEF Sane, Ordered
      <3> QED  BY <3>1, <3>2
    <2> QED  BY <1>3, <2>4 DEF Ordered
  <1>11. Resolved(d)
    <2>1. \A y : Fed(e, y) => Fed(d, y)
      BY <1>3, <1>5 DEF Fed, Sent
    <2> QED  BY <1>3, <1>5, <2>1 DEF Sane, Resolved
  <1> QED  BY <1>2, <1>6, <1>7, <1>8, <1>9, <1>10, <1>11 DEF Sane

-----------------------------------------------------------------------------
(* New infos.                                                              *)

\* A script may hold an object of class cls for an info that runs op.
Suits(ident, cls, op) ==
    /\ cls # "hidden" => ident \notin SinkKinds \cup {"broadcast"}
    /\ cls = "grouping" => ident \in {"groupby", "sort"}
    /\ ident \in Sources => cls = "set" /\ op = NoFun

LEMMA InfoFresh ==
    ASSUME NEW n \in Nat, NEW ident \in Identifiers, NEW cls, NEW p \in 0 .. n, NEW op, NEW types,
           Suits(ident, cls, op)
    PROVE  LET v == Info(ident, cls, p, op, types) IN
           Fresh(v, n) /\ v.identifier = ident /\ v.id = -1 /\ v.parent = p /\ v.other = 0
  <1>1. PICK v : v = Info(ident, cls, p, op, types)
    OBVIOUS
  <1>2. /\ v.identifier = ident /\ v.id = -1 /\ v.parent = p /\ v.other = 0 /\ v.chained = 0
        /\ v.group = 0 /\ v.children = <<>> /\ v.sinks = <<>> /\ v.bcvars = <<>>
        /\ v.sorts = <<>> /\ DOMAIN v = Fields /\ v.cls = cls /\ v.operator = op
    BY <1>1 DEF Info, Fields
  <1>3. <<>> \in Seq(1 .. n)
    OBVIOUS
  <1>4. ClassOK(v)
    BY <1>2 DEF ClassOK, Suits
  <1> QED  BY <1>1, <1>2, <1>3, <1>4 DEF Fresh, InfoOK

\* What follows a fresh info of an identifier, a parent and another input.
Brand(v, n, ident, p, o) ==
    Fresh(v, n) /\ v.identifier = ident /\ v.id = -1 /\ v.parent = p /\ v.other = o

LEMMA BrandField ==
    ASSUME NEW n, NEW v, NEW ident, NEW p, NEW o, Brand(v, n, ident, p, o),
           NEW f \in Plain, NEW u
    PROVE  Brand(InfoField(v, f, u), n, ident, p, o) /\ InfoField(v, f, u).group = v.group
  <1>1. PICK w : w = InfoField(v, f, u)
    OBVIOUS
  <1>2. InfoOK(v, n, 0)
    BY DEF Brand, Fresh
  <1>3. DOMAIN w = Fields /\ \A g \in Fields : g # f => w[g] = v[g]
    BY <1>1, <1>2 DEF InfoOK, InfoField
  <1>4. f \notin {"identifier", "id", "parent", "other", "chained", "group", "children",
                    "sinks", "bcvars", "sorts"}
    BY DEF Plain
  <1>5. /\ w.identifier = v.identifier /\ w.id = v.id
        /\ w.parent = v.parent /\ w.other = v.other
        /\ w.chained = v.chained /\ w.group = v.group
        /\ w.sinks = v.sinks /\ w.bcvars = v.bcvars
        /\ w.children = v.children /\ w.sorts = v.sorts
    BY <1>3, <1>4 DEF Fields
  <1>6. InfoOK(w, n, 0)
    <2>1. ClassOK(w)
      BY <1>1, <1>2, PlainFits DEF InfoOK
    <2> QED  BY <1>2, <1>3, <1>5, <2>1 DEF InfoOK
  <1> QED  BY <1>1, <1>5, <1>6 DEF Brand, Fresh

LEMMA BrandOther ==
    ASSUME NEW n, NEW v, NEW ident, NEW p, NEW o, Brand(v, n, ident, p, o), NEW q \in 0 .. n
    PROVE  Brand(InfoField(v, "other", q), n, ident, p, q)
  <1>1. PICK w : w = InfoField(v, "other", q)
    OBVIOUS
  <1>2. InfoOK(v, n, 0)
    BY DEF Brand, Fresh
  <1>3. /\ w.identifier = v.identifier /\ w.id = v.id
        /\ w.parent = v.parent /\ w.other = q
        /\ w.chained = v.chained /\ w.group = v.group
        /\ w.sinks = v.sinks /\ w.bcvars = v.bcvars
        /\ w.children = v.children /\ w.sorts = v.sorts /\ DOMAIN w = Fields
        /\ w.cls = v.cls /\ w.operator = v.operator
    BY <1>1, <1>2 DEF InfoField, InfoOK, Fields
  <1>4. InfoOK(w, n, 0)
    BY <1>2, <1>3 DEF InfoOK, ClassOK
  <1> QED  BY <1>1, <1>3, <1>4 DEF Brand, Fresh

LEMMA BrandGroup ==
    ASSUME NEW n, NEW v, NEW ident, NEW p, NEW o, Brand(v, n, ident, p, o), NEW q \in 0 .. n
    PROVE  Brand(InfoField(v, "group", q), n, ident, p, o) /\ InfoField(v, "group", q).group = q
  <1>1. PICK w : w = InfoField(v, "group", q)
    OBVIOUS
  <1>2. InfoOK(v, n, 0)
    BY DEF Brand, Fresh
  <1>3. /\ w.identifier = v.identifier /\ w.id = v.id
        /\ w.parent = v.parent /\ w.other = v.other
        /\ w.chained = v.chained /\ w.group = q
        /\ w.sinks = v.sinks /\ w.bcvars = v.bcvars
        /\ w.children = v.children /\ w.sorts = v.sorts /\ DOMAIN w = Fields
        /\ w.cls = v.cls /\ w.operator = v.operator
    BY <1>1, <1>2 DEF InfoField, InfoOK, Fields
  <1>4. InfoOK(w, n, 0)
    BY <1>2, <1>3 DEF InfoOK, ClassOK
  <1> QED  BY <1>1, <1>3, <1>4 DEF Brand, Fresh

\* While the script runs nothing is merged, and the groupings are what _finalize takes
\* them for: below a pre-step that is no source, and sorts in a group. v is info i.
GroupFit(e, v, i) ==
    /\ v.identifier = "groupby" => /\ v.group = i /\ v.parent \in 1 .. New(e)
                                   /\ e.infos[v.parent].identifier \in SetKinds
    /\ v.identifier = "sort" => /\ v.group \in 1 .. New(e)
                                /\ e.infos[v.group].identifier = "groupby"
Building(e) == \A i \in 1 .. New(e) : e.infos[i].chained = 0 /\ GroupFit(e, e.infos[i], i)

LEMMA KeepsBuilding ==
    ASSUME NEW e, NEW d, Keeps(e, d), Building(e)
    PROVE  Building(d)
  <1>1. ASSUME NEW i \in 1 .. New(e) PROVE d.infos[i].chained = 0 /\ GroupFit(d, d.infos[i], i)
    <2>1. e.infos[i].chained = 0 /\ GroupFit(e, e.infos[i], i)
      BY DEF Building
    <2>2. New(d) = New(e) /\ \A j \in 1 .. New(e) : Same(e.infos[j], d.infos[j])
      BY DEF Keeps
    <2> QED  BY <2>1, <2>2 DEF GroupFit, Same
  <1> QED  BY <1>1 DEF Building, Keeps

LEMMA NumberBuilding ==
    ASSUME NEW e, NEW d, NEW i, Renumbered(e, d, i), Building(e)
    PROVE  Building(d)
  BY DEF Building, Renumbered, GroupFit

LEMMA AllocateBuilding ==
    ASSUME NEW e, Typed(e), NEW d, NEW v, Fresh(v, New(e) + 1), Added(e, d, v), Building(e),
           GroupFit(e, v, New(e) + 1)
    PROVE  Building(d)
  <1>1. New(e) \in Nat /\ New(d) = New(e) + 1
    BY KnownLen DEF Added
  <1>2. ASSUME NEW w, NEW i, GroupFit(e, w, i) PROVE GroupFit(d, w, i)
    BY <1>1, <1>2 DEF GroupFit, Added
  <1>3. v.chained = 0
    BY DEF Fresh
  <1> QED  BY <1>1, <1>2, <1>3 DEF Building, Added

\* Create: a new info with an id.
Created(e, d, ident, p, o) ==
    /\ New(d) = New(e) + 1 /\ d.counter = e.counter + 1
    /\ d.sources = e.sources /\ d.sets = e.sets /\ d.sinks = e.sinks /\ d.broadcast = e.broadcast
    /\ d.infos[New(d)].identifier = ident /\ d.infos[New(d)].parent = p
    /\ d.infos[New(d)].other = o /\ d.infos[New(d)].id = e.counter
    /\ \A j \in 1 .. New(e) : /\ Same(e.infos[j], d.infos[j])
                              /\ d.infos[j].children = e.infos[j].children

LEMMA CreateStep ==
    ASSUME NEW e, Typed(e), Sane(e), NEW v, NEW ident, NEW p, NEW o,
           Brand(v, New(e) + 1, ident, p, o), GroupFit(e, v, New(e) + 1)
    PROVE  LET d == Create(e, v) IN
           /\ Typed(d) /\ Sane(d) /\ Created(e, d, ident, p, o)
           /\ Building(e) => Building(d)
  <1>1. PICK e1 : e1 = Allocate(e, v)
    OBVIOUS
  <1>2. PICK d : d = Number(e1, New(e1))
    OBVIOUS
  <1>3. Create(e, v) = d
    BY <1>1, <1>2, Zenon DEF Create
  <1>4. Fresh(v, New(e) + 1)
    BY DEF Brand
  <1>5. Typed(e1) /\ Added(e, e1, v)
    BY <1>1, <1>4, AllocateStep
  <1>6. Sane(e1)
    BY <1>4, <1>5, AllocateSane
  <1>7. New(e) \in Nat /\ New(e1) = New(e) + 1
    BY <1>5, KnownLen DEF Added
  <1>8. PICK n : n = New(e1)
    OBVIOUS
  <1>9. n \in 1 .. New(e1)
    BY <1>7, <1>8
  <1>10. Typed(d) /\ Renumbered(e1, d, n)
    BY <1>2, <1>5, <1>8, <1>9, NumberStep
  <1>11. Sane(d)
    BY <1>5, <1>6, <1>9, <1>10, NumberSane
  <1>12. Created(e, d, ident, p, o)
    BY <1>5, <1>7, <1>8, <1>10 DEF Created, Added, Renumbered, Brand, Same
  <1>13. Building(e) => Building(d)
    BY <1>4, <1>5, <1>10, AllocateBuilding, NumberBuilding
  <1> QED  BY <1>3, <1>10, <1>11, <1>12, <1>13

\* A new set that is known to what it reads; nothing else changes in the links but
\* that there may be more readers.
Grown(e, d) ==
    /\ Typed(d) /\ Sane(d)
    /\ New(d) = New(e) + 1
    /\ d.sources = e.sources /\ d.sinks = e.sinks /\ d.broadcast = e.broadcast
    /\ d.sets = Append(e.sets, New(d))
    /\ d.infos[New(d)].id # -1
    /\ d.infos[New(d)].identifier \in SetKinds
    /\ \A j \in 1 .. New(e) : /\ Same(e.infos[j], d.infos[j])
                              /\ \A s \in 1 .. New(e) : Reads(e, j, s) => Reads(d, j, s)
                              /\ \A s \in 1 .. New(e) : ReadsTwice(e, j, s) => ReadsTwice(d, j, s)
    /\ Building(e) => Building(d)

LEMMA BelowStep ==
    ASSUME NEW e, Typed(e), Sane(e), NEW p \in 1 .. New(e), Sent(e, p), NEW v,
           NEW ident \in SetKinds, Brand(v, New(e) + 1, ident, p, 0), GroupFit(e, v, New(e) + 1)
    PROVE  Grown(e, Below(e, p, v)) /\ Below(e, p, v).infos[New(e) + 1].identifier = ident
  <1>1. PICK e1 : e1 = Create(e, v)
    OBVIOUS
  <1>2. PICK n : n = New(e1)
    OBVIOUS
  <1>3. PICK e2 : e2 = Adopt(e1, p, n)
    OBVIOUS
  <1>4. PICK d : d = Enlist(e2, n)
    OBVIOUS
  <1>5. Below(e, p, v) = d
    BY <1>1, <1>2, <1>3, <1>4, Zenon DEF Below
  <1>6. /\ Typed(e1) /\ Sane(e1) /\ Created(e, e1, ident, p, 0)
        /\ Building(e) => Building(e1)
    BY <1>1, CreateStep
  <1>7. New(e) \in Nat /\ n = New(e) + 1
    BY <1>2, <1>6, KnownLen DEF Created
  <1>8. n \in 1 .. New(e1) /\ p \in 1 .. New(e1)
    BY <1>2, <1>7
  <1>8a. MayRead(e1, p, n)
    <2>1. p < n
      BY <1>7
    <2> QED  BY <1>2, <1>6, <2>1 DEF Created, MayRead
  <1>9. Typed(e2) /\ Keeps(e1, e2) /\ Reads(e2, p, n)
    BY <1>3, <1>6, <1>8, <1>8a, AdoptKeeps
  <1>10. Sane(e2)
    BY <1>6, <1>9, KeepsSane
  <1>11. ~Contains(e2.sets, n)
    <2>1. e2.sets = e.sets /\ e.sets \in Seq(1 .. New(e))
      BY <1>6, <1>9 DEF Keeps, Created, Typed
    <2> QED  BY <1>7, <2>1, ContainsIn
  <1>12. /\ e2.infos[n].identifier = ident /\ e2.infos[n].parent = p /\ e2.infos[n].other = 0
         /\ e2.infos[n].id # -1 /\ New(e2) = n
    <2>1. e.counter \in Nat
      BY DEF Typed
    <2> QED  BY <1>2, <1>6, <1>8, <1>9, <2>1 DEF Keeps, Created, Same
  <1>12a. Fed(e2, n)
    BY <1>6, <1>9, <1>12 DEF Fed, Sent, Keeps, Created
  <1>13. SetKnown(e2, n)
    <2>1. p # 0
      BY <1>7
    <2> QED  BY <1>9, <1>12, <2>1 DEF SetKnown
  <1>14. n \in 1 .. New(e2)
    BY <1>7, <1>12
  <1>15. Sane(d)
    BY <1>4, <1>9, <1>10, <1>11, <1>12, <1>12a, <1>13, <1>14, EnlistSane
  <1>16. /\ Typed(d) /\ New(d) = New(e2) /\ d.infos = e2.infos /\ d.counter = e2.counter
         /\ d.sources = e2.sources /\ d.sinks = e2.sinks /\ d.broadcast = e2.broadcast
         /\ d.sets = Append(e2.sets, n)
    BY <1>4, <1>9, <1>14, EnlistStep
  <1>17. ASSUME NEW j \in 1 .. New(e)
         PROVE  /\ Same(e.infos[j], d.infos[j])
                /\ \A s \in 1 .. New(e) : Reads(e, j, s) => Reads(d, j, s)
                /\ \A s \in 1 .. New(e) : ReadsTwice(e, j, s) => ReadsTwice(d, j, s)
    <2>1. j \in 1 .. New(e1)
      BY <1>2, <1>7
    <2>2. Same(e.infos[j], e1.infos[j]) /\ Same(e1.infos[j], e2.infos[j])
      BY <1>6, <1>9, <2>1 DEF Created, Keeps
    <2>3. ASSUME NEW s \in 1 .. New(e)
          PROVE  /\ Reads(e, j, s) => Reads(d, j, s)
                 /\ ReadsTwice(e, j, s) => ReadsTwice(d, j, s)
      <3>1. /\ Reads(e, j, s) => Reads(e1, j, s)
            /\ ReadsTwice(e, j, s) => ReadsTwice(e1, j, s)
        BY <1>6, <2>1 DEF Created, Reads, ReadsTwice
      <3>2. s \in 1 .. New(e1)
        BY <1>2, <1>7
      <3>3. /\ Reads(e1, j, s) => Reads(e2, j, s)
            /\ ReadsTwice(e1, j, s) => ReadsTwice(e2, j, s)
        BY <1>9, <2>1, <3>2 DEF Keeps
      <3> QED  BY <1>16, <3>1, <3>3 DEF Reads, ReadsTwice
    <2> QED  BY <1>16, <2>2, <2>3 DEF Same
  <1>18. d.sets = Append(e.sets, New(d)) /\ New(d) = New(e) + 1
         /\ d.sources = e.sources /\ d.sinks = e.sinks /\ d.broadcast = e.broadcast
    BY <1>6, <1>7, <1>9, <1>12, <1>16 DEF Keeps, Created
  <1>19. Building(e) => Building(d)
    <2>1. Building(e2) => Building(d)
      BY <1>16 DEF Building, GroupFit
    <2> QED  BY <1>6, <1>9, <2>1, KeepsBuilding
  <1>20. d.infos[New(d)].id # -1 /\ d.infos[New(e) + 1].identifier = ident
         /\ d.infos[New(d)].identifier \in SetKinds
    BY <1>7, <1>12, <1>16
  <1> QED  BY <1>5, <1>15, <1>16, <1>17, <1>18, <1>19, <1>20 DEF Grown

-----------------------------------------------------------------------------
(* The methods.  Each leaves an Environment whole and has merged nothing.  *)

Numbered(e) == \A s \in 1 .. New(e) : Contains(e.sets, s) => e.infos[s].id # -1

Whole(e) == Typed(e) /\ Sane(e) /\ Numbered(e)

\* A set or source that is not listed, for a while or for good.
Missing(e, i) == i \in 1 .. New(e) /\ e.infos[i].identifier \in Sources \cup SetKinds /\ ~Sent(e, i)

\* What a method, or a part of it, leaves of e; a whole method lists all it creates.
Extends(e, d) ==
    /\ Whole(d)
    /\ New(e) <= New(d)
    /\ \A j \in 1 .. New(e) : d.infos[j].chained = e.infos[j].chained
    /\ \A i : Sent(e, i) => Sent(d, i)
    /\ Building(e) => Building(d)

Follows(e, d) == Extends(e, d) /\ \A i : Missing(d, i) => Missing(e, i)

LEMMA ExtendsAgain ==
    ASSUME NEW e, NEW d, NEW g, Typed(e), Extends(e, d), Extends(d, g)
    PROVE  Extends(e, g)
  <1>1. New(e) \in Nat /\ New(d) \in Nat /\ New(g) \in Nat
    BY KnownLen DEF Extends, Whole
  <1> QED  BY <1>1 DEF Extends

LEMMA FollowsAgain ==
    ASSUME NEW e, NEW d, NEW g, Typed(e), Follows(e, d), Follows(d, g)
    PROVE  Follows(e, g)
  BY ExtendsAgain DEF Follows

LEMMA FollowsWhole ==
    ASSUME NEW e, NEW d, Follows(e, d)
    PROVE  Whole(d) /\ Typed(d) /\ Sane(d) /\ \A i : Sent(e, i) => Sent(d, i)
  BY DEF Follows, Extends, Whole

LEMMA SentKnown ==
    ASSUME NEW e, Typed(e), NEW i, Sent(e, i)
    PROVE  i \in 1 .. New(e)
  BY ContainsIn DEF Sent, Typed

LEMMA GrownFollows ==
    ASSUME NEW e, NEW d, Whole(e), Grown(e, d)
    PROVE  /\ Follows(e, d) /\ New(d) \in 1 .. New(d) /\ Sent(d, New(d))
           /\ \A j \in 1 .. New(e) : j \in 1 .. New(d)
  <1>1. New(e) \in Nat /\ New(d) = New(e) + 1
    BY KnownLen DEF Whole, Grown
  <1>2. e.sets \in Seq(1 .. New(e))
    BY DEF Whole, Typed
  <1>3. e.sets \in Seq(1 .. New(d)) /\ New(d) \in 1 .. New(d)
    BY <1>1, <1>2, SeqMonotonic
  <1>4. PICK n : n = New(d)
    OBVIOUS
  <1>5. \A y : Contains(d.sets, y) <=> (Contains(e.sets, y) \/ y = n)
    <2>1. d.sets = Append(e.sets, n) /\ e.sets \in Seq(1 .. n) /\ n \in 1 .. n
      BY <1>3, <1>4 DEF Grown
    <2> QED  BY <2>1, ContainsAppend
  <1>6. Numbered(d)
    <2> SUFFICES ASSUME NEW s \in 1 .. New(d), Contains(d.sets, s) PROVE d.infos[s].id # -1
      BY DEF Numbered
    <2>1. CASE s = n
      BY <1>4, <2>1 DEF Grown
    <2>2. CASE s # n
      <3>1. s \in 1 .. New(e) /\ Contains(e.sets, s)
        BY <1>1, <1>4, <1>5, <2>2
      <3> QED  BY <3>1 DEF Grown, Same, Whole, Numbered
    <2> QED  BY <2>1, <2>2
  <1>7. \A j \in 1 .. New(e) : /\ d.infos[j].chained = e.infos[j].chained
                              /\ d.infos[j].identifier = e.infos[j].identifier
    BY DEF Grown, Same
  <1>8. Sent(d, n) /\ \A i : Sent(e, i) => Sent(d, i)
    BY <1>5 DEF Sent, Grown
  <1>9. ASSUME NEW i, Missing(d, i) PROVE Missing(e, i)
    <2>1. i \in 1 .. New(d) /\ i # n
      BY <1>8, <1>9 DEF Missing
    <2>2. i \in 1 .. New(e)
      BY <1>1, <1>4, <2>1
    <2> QED  BY <1>7, <1>8, <1>9, <2>2 DEF Missing
  <1> QED  BY <1>1, <1>3, <1>4, <1>6, <1>7, <1>8, <1>9 DEF Follows, Extends, Whole, Grown

LEMMA KeepsFollows ==
    ASSUME NEW e, NEW d, Whole(e), Typed(d), Keeps(e, d)
    PROVE  Follows(e, d)
  <1>1. Sane(d)
    BY KeepsSane DEF Whole
  <1>2. Numbered(d)
    BY DEF Whole, Numbered, Keeps, Same
  <1>3. New(e) \in Nat
    BY KnownLen DEF Whole
  <1>4. Building(e) => Building(d)
    BY KeepsBuilding
  <1>5. \A i : Sent(e, i) <=> Sent(d, i)
    BY DEF Sent, Keeps
  <1>6. \A i : Missing(d, i) => Missing(e, i)
    BY <1>5 DEF Missing, Keeps, Same
  <1> QED  BY <1>1, <1>2, <1>3, <1>4, <1>5, <1>6 DEF Follows, Extends, Whole, Keeps, Same

LEMMA GrownKeeps ==
    ASSUME NEW e, NEW d, NEW g, Typed(e), Grown(e, d), Typed(g), Keeps(d, g)
    PROVE  Grown(e, g) /\ New(g) = New(d)
  <1>1. Sane(g)
    BY KeepsSane DEF Grown
  <1>2. New(e) \in Nat /\ New(d) = New(e) + 1 /\ New(g) = New(d)
    BY KnownLen DEF Grown, Keeps
  <1>3. ASSUME NEW j \in 1 .. New(e)
        PROVE  /\ Same(e.infos[j], g.infos[j])
               /\ \A s \in 1 .. New(e) : Reads(e, j, s) => Reads(g, j, s)
               /\ \A s \in 1 .. New(e) : ReadsTwice(e, j, s) => ReadsTwice(g, j, s)
    <2>1. j \in 1 .. New(d) /\ \A s \in 1 .. New(e) : s \in 1 .. New(d)
      BY <1>2
    <2>2. /\ Same(e.infos[j], d.infos[j])
          /\ \A s \in 1 .. New(e) : Reads(e, j, s) => Reads(d, j, s)
          /\ \A s \in 1 .. New(e) : ReadsTwice(e, j, s) => ReadsTwice(d, j, s)
      BY DEF Grown
    <2>3. /\ Same(d.infos[j], g.infos[j])
          /\ \A s \in 1 .. New(d) : Reads(d, j, s) => Reads(g, j, s)
          /\ \A s \in 1 .. New(d) : ReadsTwice(d, j, s) => ReadsTwice(g, j, s)
      BY <2>1 DEF Keeps
    <2> QED  BY <2>1, <2>2, <2>3 DEF Same
  <1>4. /\ g.infos[New(g)].id = d.infos[New(d)].id
        /\ g.infos[New(g)].identifier = d.infos[New(d)].identifier
    <2>1. New(d) \in 1 .. New(d)
      BY <1>2
    <2> QED  BY <1>2, <2>1 DEF Keeps, Same
  <1>5. Building(e) => Building(g)
    BY KeepsBuilding DEF Grown
  <1> QED  BY <1>1, <1>2, <1>3, <1>4, <1>5 DEF Grown, Keeps

LEMMA InfoBrand ==
    ASSUME NEW e, Typed(e), NEW ident \in Identifiers, NEW cls, NEW p \in 0 .. New(e),
           NEW op, NEW types, Suits(ident, cls, op)
    PROVE  Brand(Info(ident, cls, p, op, types), New(e) + 1, ident, p, 0)
  <1>1. New(e) + 1 \in Nat /\ p \in 0 .. New(e) + 1
    BY KnownLen
  <1>2. PICK n : n = New(e) + 1
    OBVIOUS
  <1>3. n \in Nat /\ p \in 0 .. n
    BY <1>1, <1>2
  <1> QED  BY <1>2, <1>3, InfoFresh DEF Brand

\* The classes of sets that are no groupings, and the identifiers.
Classes == {"set", "op", "agg", "pair", "hidden"}

LEMMA SetSuits ==
    ASSUME NEW ident \in SetKinds, NEW cls, NEW op,
           cls \in Classes \/ ident \in {"groupby", "sort"}
    PROVE  Suits(ident, cls, op)
  BY DEF Suits, SetKinds, Classes

LEMMA NoGroupFit ==
    ASSUME NEW e, NEW v, NEW n, NEW ident, NEW p, NEW o, Brand(v, n, ident, p, o),
           ident \notin {"groupby", "sort"}, NEW i
    PROVE  GroupFit(e, v, i)
  BY DEF Brand, GroupFit

LEMMA NewSet ==
    ASSUME NEW e, Typed(e), Sane(e), NEW ident \in SetKinds, ident \notin {"groupby", "sort"},
           NEW cls \in Classes, NEW p \in 1 .. New(e), Sent(e, p), NEW op, NEW types
    PROVE  LET d == Below(e, p, Info(ident, cls, p, op, types)) IN
           Grown(e, d) /\ d.infos[New(e) + 1].identifier = ident
  <1>1. PICK v : v = Info(ident, cls, p, op, types)
    OBVIOUS
  <1>2. p \in 0 .. New(e)
    BY KnownLen
  <1>3. Suits(ident, cls, op)
    BY SetSuits
  <1>4. ident \in Identifiers
    BY DEF SetKinds
  <1>5. Brand(v, New(e) + 1, ident, p, 0)
    BY <1>1, <1>2, <1>3, <1>4, InfoBrand
  <1>6. GroupFit(e, v, New(e) + 1)
    BY <1>5, NoGroupFit
  <1> QED  BY <1>1, <1>5, <1>6, BelowStep

LEMMA SetKindsAre ==
    {"map", "filter", "flatmap", "mappartition", "reduce", "groupreduce", "first", "rebalance",
     "distinct", "partition_hash", "groupby", "sort"} \subseteq SetKinds
  BY DEF SetKinds, Identifiers, SinkKinds, Sources, Chainable, Dual, Crosses, Joins

LEMMA MapGrows ==
    ASSUME NEW e, Typed(e), Sane(e), NEW s \in 1 .. New(e), Sent(e, s), NEW op, NEW cls \in Classes
    PROVE  Grown(e, Map(e, s, op, cls)) /\ Map(e, s, op, cls).infos[New(e) + 1].identifier = "map"
  <1>1. "map" \in SetKinds /\ "map" \notin {"groupby", "sort"}
    BY SetKindsAre
  <1> QED  BY <1>1, NewSet DEF Map

LEMMA OneInputGrows ==
    ASSUME NEW e, Typed(e), Sane(e), NEW s \in 1 .. New(e), Sent(e, s), NEW op
    PROVE  /\ Grown(e, Filter(e, s)) /\ Grown(e, FlatMap(e, s)) /\ Grown(e, MapPartition(e, s, op))
           /\ Grown(e, Reduce(e, s)) /\ Grown(e, ReduceGroup(e, s)) /\ Grown(e, Aggregate(e, s))
           /\ Grown(e, Project(e, s)) /\ Grown(e, First(e, s)) /\ Grown(e, Rebalance(e, s))
  <1>1. {"set", "op", "agg"} \subseteq Classes
    BY DEF Classes
  <1>2. Grown(e, Filter(e, s)) /\ Grown(e, FlatMap(e, s)) /\ Grown(e, MapPartition(e, s, op))
    BY <1>1, NewSet, SetKindsAre DEF Filter, FlatMap, MapPartition
  <1>3. Grown(e, Reduce(e, s)) /\ Grown(e, ReduceGroup(e, s)) /\ Grown(e, Aggregate(e, s))
    BY <1>1, NewSet, SetKindsAre DEF Reduce, ReduceGroup, Aggregate
  <1>4. Grown(e, Project(e, s)) /\ Grown(e, First(e, s)) /\ Grown(e, Rebalance(e, s))
    BY <1>1, NewSet, MapGrows, SetKindsAre DEF Project, First, Rebalance
  <1> QED  BY <1>2, <1>3, <1>4

LEMMA KeyMapGrows ==
    ASSUME NEW e, Typed(e), Sane(e), NEW s \in 1 .. New(e), Sent(e, s), NEW fields
    PROVE  Grown(e, KeyMap(e, s, fields))
  <1>1. PICK m : m = Map(e, s, Extract(fields), "hidden")
    OBVIOUS
  <1>2. PICK d : d = WithField(m, New(m), "types", KeyValueType(Len(fields)))
    OBVIOUS
  <1>3. Grown(e, m) /\ Typed(m)
    <2>1. "hidden" \in Classes
      BY DEF Classes
    <2> QED  BY <1>1, <2>1, MapGrows DEF Grown
  <1>4. Typed(d) /\ Keeps(m, d)
    BY <1>2, <1>3, FieldStep DEF Plain
  <1>5. KeyMap(e, s, fields) = d
    BY <1>1, <1>2, Zenon DEF KeyMap, WithField
  <1> QED  BY <1>3, <1>4, <1>5, GrownKeeps

LEMMA KeyedFollows ==
    ASSUME NEW e, Whole(e), NEW s \in 1 .. New(e), Sent(e, s), NEW fields,
           NEW ident \in {"distinct", "partition_hash"}
    PROVE  Follows(e, Keyed(e, s, fields, ident))
  <1>1. PICK m : m = KeyMap(e, s, fields)
    OBVIOUS
  <1>2. PICK n : n = New(m)
    OBVIOUS
  <1>3. PICK v : v = Info(ident, "set", n, NoFun, NoType)
    OBVIOUS
  <1>4. PICK w : w = InfoField(v, "keys", Upto(Len(fields)))
    OBVIOUS
  <1>5. Keyed(e, s, fields, ident) = Below(m, n, w)
    BY <1>1, <1>2, <1>3, <1>4, Zenon DEF Keyed, InfoField
  <1>6. Grown(e, m) /\ Follows(e, m) /\ n \in 1 .. n /\ Sent(m, n)
    BY <1>1, <1>2, KeyMapGrows, GrownFollows DEF Whole
  <1>7. Typed(m) /\ Sane(m) /\ Whole(m)
    BY <1>6, FollowsWhole
  <1>8. ident \in SetKinds /\ ident \in Identifiers /\ ident \notin {"groupby", "sort"}
    BY SetKindsAre DEF SetKinds
  <1>9. n \in 0 .. n /\ Suits(ident, "set", NoFun)
    BY <1>6, <1>8, SetSuits DEF Classes
  <1>10. Brand(v, New(m) + 1, ident, n, 0)
    BY <1>2, <1>3, <1>7, <1>8, <1>9, InfoBrand
  <1>11. Brand(w, New(m) + 1, ident, n, 0)
    BY <1>4, <1>10, BrandField DEF Plain
  <1>12. Grown(m, Below(m, n, w))
    <2>1. GroupFit(m, w, New(m) + 1)
      BY <1>8, <1>11, NoGroupFit
    <2> QED  BY <1>2, <1>6, <1>7, <1>8, <1>11, <2>1, BelowStep
  <1>13. Follows(m, Below(m, n, w))
    BY <1>7, <1>12, GrownFollows
  <1> QED  BY <1>5, <1>6, <1>13, FollowsAgain DEF Whole

SinkBelow(e, p, n) == [e EXCEPT !.infos[p].sinks = Append(@, n), !.sinks = Append(@, n)]

LEMMA SinkBelowFollows ==
    ASSUME NEW e, Whole(e), NEW p \in 1 .. New(e), NEW n \in 1 .. New(e),
           e.infos[n].identifier \in SinkKinds, e.infos[n].parent = p, e.infos[n].other = 0,
           Sent(e, p), ~Contains(e.sinks, n)
    PROVE  Follows(e, SinkBelow(e, p, n))
  <1>1. PICK l : l = Append(e.infos[p].sinks, n)
    OBVIOUS
  <1>2. PICK w : w = [e.infos[p] EXCEPT !.sinks = l]
    OBVIOUS
  <1>3. PICK s : s = Put(e.infos, p, w)
    OBVIOUS
  <1>4. PICK t : t = Append(e.sinks, n)
    OBVIOUS
  <1>5. PICK d : d = [e EXCEPT !.infos = s, !.sinks = t]
    OBVIOUS
  <1>6. SinkBelow(e, p, n) = d
    BY <1>1, <1>2, <1>3, <1>4, <1>5, Zenon DEF SinkBelow, Put
  <1>7. /\ Typed(e) /\ SomeSeq(e.infos) /\ InfoOK(e.infos[p], New(e), e.counter)
        /\ e.sinks \in Seq(1 .. New(e)) /\ e.infos[p].sinks \in Seq(1 .. New(e))
        /\ DOMAIN e = EnvFields
    BY DEF Whole, Typed, InfoOK
  <1>8. l \in Seq(1 .. New(e)) /\ t \in Seq(1 .. New(e))
    BY <1>1, <1>4, <1>7, AppendProperties
  <1>9. \A y : Contains(l, y) <=> (Contains(e.infos[p].sinks, y) \/ y = n)
    <2>1. PICK k : k = e.infos[p].sinks
      OBVIOUS
    <2>2. k \in Seq(1 .. New(e))
      BY <1>7, <2>1
    <2>3. \A y : Contains(Append(k, n), y) <=> (Contains(k, y) \/ y = n)
      BY <2>2, ContainsAppend
    <2> QED  BY <1>1, <2>1, <2>3
  <1>10. \A y : Contains(t, y) <=> (Contains(e.sinks, y) \/ y = n)
    <2>1. PICK k : k = e.sinks
      OBVIOUS
    <2>2. k \in Seq(1 .. New(e))
      BY <1>7, <2>1
    <2>3. \A y : Contains(Append(k, n), y) <=> (Contains(k, y) \/ y = n)
      BY <2>2, ContainsAppend
    <2> QED  BY <1>4, <2>1, <2>3
  <1>11. /\ w.identifier = e.infos[p].identifier /\ w.id = e.infos[p].id
         /\ w.parent = e.infos[p].parent /\ w.other = e.infos[p].other
         /\ w.chained = e.infos[p].chained /\ w.group = e.infos[p].group
         /\ w.sinks = l /\ w.bcvars = e.infos[p].bcvars
         /\ w.children = e.infos[p].children /\ w.sorts = e.infos[p].sorts /\ DOMAIN w = Fields
         /\ w.cls = e.infos[p].cls /\ w.operator = e.infos[p].operator
    BY <1>2, <1>7 DEF InfoOK, Fields
  <1>12. InfoOK(w, New(e), e.counter)
    <2>1. ClassOK(w)
      BY <1>7, <1>11 DEF InfoOK, ClassOK
    <2> QED  BY <1>7, <1>8, <1>11, <2>1 DEF InfoOK
  <1>13. /\ SomeSeq(s) /\ Len(s) = Len(e.infos)
         /\ s[p] = w
         /\ \A j \in 1 .. Len(e.infos) : j # p => s[j] = e.infos[j]
    <2>1. p \in 1 .. Len(e.infos)
      BY DEF New
    <2> QED  BY <1>3, <1>7, <2>1, SomeSeqPut
  <1>14. /\ d.infos = s /\ d.counter = e.counter /\ d.sources = e.sources /\ d.sets = e.sets
         /\ d.sinks = t /\ d.broadcast = e.broadcast /\ DOMAIN d = EnvFields
    BY <1>5, <1>7 DEF EnvFields
  <1>15. New(d) = New(e)
    BY <1>13, <1>14 DEF New
  <1>16. d.infos[p] = w /\ \A j \in 1 .. New(e) : j # p => d.infos[j] = e.infos[j]
    BY <1>13, <1>14 DEF New
  <1>17. \A j \in 1 .. New(e) : InfoOK(d.infos[j], New(e), e.counter)
    BY <1>7, <1>12, <1>16 DEF Typed
  <1>18. Typed(d)
    BY <1>7, <1>8, <1>13, <1>14, <1>15, <1>17 DEF Typed
  <1>19. \A j \in 1 .. New(e) :
           /\ d.infos[j].identifier = e.infos[j].identifier /\ d.infos[j].id = e.infos[j].id
           /\ d.infos[j].parent = e.infos[j].parent /\ d.infos[j].other = e.infos[j].other
           /\ d.infos[j].chained = e.infos[j].chained /\ d.infos[j].group = e.infos[j].group
           /\ d.infos[j].bcvars = e.infos[j].bcvars /\ d.infos[j].children = e.infos[j].children
           /\ \A y : Contains(d.infos[j].sinks, y)
                       <=> (Contains(e.infos[j].sinks, y) \/ (j = p /\ y = n))
    BY <1>9, <1>11, <1>16
  <1>20. Kinds(d)
    BY <1>10, <1>14, <1>15, <1>19 DEF Whole, Sane, Kinds, MayRead
  <1>21. Registered(d)
    <2>1. \A q, y : /\ Reads(e, q, y) => Reads(d, q, y)
                    /\ ReadsTwice(e, q, y) => ReadsTwice(d, q, y)
      BY <1>15, <1>19 DEF Reads, ReadsTwice
    <2>2. ASSUME NEW y \in 1 .. New(e), SetKnown(e, y) PROVE SetKnown(d, y)
      BY <1>19, <2>1, <2>2 DEF SetKnown
    <2>3. ASSUME NEW y \in 1 .. New(e), e.infos[y].parent # 0 PROVE e.infos[y].parent \in 1 .. New(e)
      <3>1. e.infos[y].parent \in 0 .. New(e) /\ New(e) \in Nat
        BY <1>7, KnownLen DEF Typed, InfoOK
      <3> QED  BY <2>3, <3>1
    <2>4. p # 0
      BY <1>7, KnownLen
    <2>5. ASSUME NEW y \in 1 .. New(e), SinkKnown(e, y) \/ y = n PROVE SinkKnown(d, y)
      BY <1>19, <2>3, <2>4, <2>5 DEF SinkKnown
    <2>6. ASSUME NEW y \in 1 .. New(e), BroadcastKnown(e, y) PROVE BroadcastKnown(d, y)
      BY <1>19, <2>3, <2>6 DEF BroadcastKnown
    <2> QED  BY <1>10, <1>14, <1>15, <2>2, <2>5, <2>6 DEF Whole, Sane, Registered
  <1>22. UniqueIds(d) /\ Numbered(d)
    BY <1>14, <1>15, <1>19 DEF Whole, Sane, UniqueIds, Numbered
  <1>23. New(e) \in Nat
    BY <1>7, KnownLen
  <1>24. Once(d)
    <2>1. IsOnce(t)
      BY <1>4, <1>7, OnceAppend DEF Whole, Sane, Once
    <2> QED  BY <1>14, <2>1 DEF Whole, Sane, Once
  <1>25. Ordered(d)
    <2>1. \A k \in 1 .. Len(e.sets) : e.sets[k] \in 1 .. New(e)
      BY <1>7, ElementOfSeq DEF Typed
    <2> QED  BY <1>14, <1>19, <2>1 DEF Whole, Sane, Ordered
  <1>26. Resolved(d)
    <2>1. \A y : Sent(e, y) <=> Sent(d, y)
      BY <1>14 DEF Sent
    <2>2. ASSUME NEW y \in 1 .. New(e), Fed(e, y) \/ y = n PROVE Fed(d, y)
      BY <1>19, <2>1, <2>2 DEF Fed
    <2> QED  BY <1>10, <1>14, <1>15, <2>2 DEF Whole, Sane, Resolved
  <1>27. Sane(d)
    BY <1>20, <1>21, <1>22, <1>24, <1>25, <1>26 DEF Sane
  <1>28. Building(e) => Building(d)
    BY <1>15, <1>19 DEF Building, GroupFit
  <1>29. \A y : (Sent(e, y) => Sent(d, y)) /\ (Missing(d, y) => Missing(e, y))
    BY <1>14, <1>15, <1>19 DEF Sent, Missing
  <1>30. \A j \in 1 .. New(e) : d.infos[j].chained = e.infos[j].chained
    BY <1>19
  <1>31. Whole(d)
    BY <1>18, <1>22, <1>27 DEF Whole
  <1> QED  BY <1>6, <1>15, <1>23, <1>28, <1>29, <1>30, <1>31 DEF Follows, Extends

LEMMA CreatedExtends ==
    ASSUME NEW e, NEW d, Whole(e), Typed(d), Sane(d), NEW ident, NEW p, NEW o,
           Created(e, d, ident, p, o), Building(e) => Building(d)
    PROVE  /\ Extends(e, d) /\ New(d) \in 1 .. New(d)
           /\ \A i : i # New(d) /\ Missing(d, i) => Missing(e, i)
  <1>1. New(e) \in Nat /\ New(d) = New(e) + 1
    BY KnownLen DEF Whole, Created
  <1>2. \A y : Contains(d.sets, y) => y \in 1 .. New(e)
    BY ContainsIn DEF Whole, Typed, Created
  <1>3. Numbered(d)
    BY <1>2 DEF Whole, Numbered, Created, Same
  <1>4. \A i : Sent(e, i) <=> Sent(d, i)
    BY DEF Sent, Created
  <1>5. \A j \in 1 .. New(e) : d.infos[j].identifier = e.infos[j].identifier
    BY DEF Created, Same
  <1>6. ASSUME NEW i, i # New(d), Missing(d, i) PROVE Missing(e, i)
    <2>1. i \in 1 .. New(e)
      BY <1>1, <1>6 DEF Missing
    <2> QED  BY <1>4, <1>5, <1>6, <2>1 DEF Missing
  <1> QED  BY <1>1, <1>3, <1>4, <1>6 DEF Extends, Whole, Created, Same

LEMMA SinkFollows ==
    ASSUME NEW e, Whole(e), NEW p \in 1 .. New(e), Sent(e, p), NEW ident \in SinkKinds
    PROVE  Follows(e, Sink(e, p, ident))
  <1>1. PICK v : v = Info(ident, "hidden", p, NoFun, NoType)
    OBVIOUS
  <1>2. PICK e1 : e1 = Create(e, v)
    OBVIOUS
  <1>3. PICK n : n = New(e1)
    OBVIOUS
  <1>4. Sink(e, p, ident) = SinkBelow(e1, p, n)
    BY <1>1, <1>2, <1>3, Zenon DEF Sink, SinkBelow
  <1>5. Typed(e) /\ Sane(e) /\ ident \in Identifiers /\ p \in 0 .. New(e) /\ New(e) \in Nat
    BY KnownLen DEF Whole, Identifiers
  <1>5a. Suits(ident, "hidden", NoFun) /\ ident \notin {"groupby", "sort"}
         /\ ident \notin Sources \cup SetKinds
    BY DEF Suits, SinkKinds, Sources, SetKinds
  <1>6. Brand(v, New(e) + 1, ident, p, 0) /\ GroupFit(e, v, New(e) + 1)
    BY <1>1, <1>5, <1>5a, InfoBrand, NoGroupFit
  <1>7. Typed(e1) /\ Sane(e1) /\ Created(e, e1, ident, p, 0) /\ (Building(e) => Building(e1))
    BY <1>2, <1>5, <1>6, CreateStep
  <1>8. /\ Extends(e, e1) /\ n \in 1 .. New(e1)
        /\ \A i : i # n /\ Missing(e1, i) => Missing(e, i)
    BY <1>3, <1>7, CreatedExtends
  <1>9. p \in 1 .. New(e1) /\ e1.infos[n].identifier = ident /\ e1.infos[n].parent = p
        /\ e1.infos[n].other = 0 /\ e1.sinks = e.sinks /\ n = New(e) + 1
    BY <1>3, <1>5, <1>7 DEF Created
  <1>10. ~Missing(e1, n)
    BY <1>5a, <1>9 DEF Missing
  <1>11. Follows(e, e1)
    BY <1>8, <1>10 DEF Follows
  <1>12. ~Contains(e1.sinks, n)
    <2>1. e.sinks \in Seq(1 .. New(e))
      BY <1>5 DEF Typed
    <2> QED  BY <1>5, <1>9, <2>1, ContainsIn
  <1>13. Whole(e1) /\ Sent(e1, p)
    BY <1>11, FollowsWhole
  <1>14. Follows(e1, SinkBelow(e1, p, n))
    BY <1>8, <1>9, <1>12, <1>13, SinkBelowFollows
  <1> QED  BY <1>4, <1>5, <1>11, <1>14, FollowsAgain

LEMMA FinishFollows ==
    ASSUME NEW e, Whole(e), NEW s \in 1 .. New(e), Sent(e, s)
    PROVE  Follows(e, Output(e, s)) /\ Follows(e, WriteText(e, s)) /\ Follows(e, WriteCsv(e, s))
  <1>1. ASSUME NEW op, NEW ident \in SinkKinds
        PROVE  LET m == Map(e, s, op, "hidden") IN Follows(e, Sink(m, New(m), ident))
    <2>1. PICK m : m = Map(e, s, op, "hidden")
      OBVIOUS
    <2>2. Grown(e, m)
      BY <2>1, MapGrows DEF Whole, Classes
    <2>3. Follows(e, m) /\ New(m) \in 1 .. New(m) /\ Sent(m, New(m))
      BY <2>2, GrownFollows
    <2>4. Follows(m, Sink(m, New(m), ident))
      BY <2>3, SinkFollows, FollowsWhole
    <2> QED  BY <2>1, <2>3, <2>4, FollowsAgain DEF Whole
  <1>2. {"sink_print", "sink_text", "sink_csv"} \subseteq SinkKinds
    BY DEF SinkKinds
  <1> QED  BY <1>1, <1>2 DEF Output, WriteText, WriteCsv

BroadcastTo(e, p, n) == [e EXCEPT !.infos[p].bcvars = Append(@, n), !.broadcast = Append(@, n)]

LEMMA BroadcastToFollows ==
    ASSUME NEW e, Whole(e), NEW p \in 1 .. New(e), NEW n \in 1 .. New(e),
           e.infos[n].identifier = "broadcast", e.infos[n].parent = p, Fed(e, n),
           ~Contains(e.broadcast, n)
    PROVE  Follows(e, BroadcastTo(e, p, n))
  <1>1. PICK l : l = Append(e.infos[p].bcvars, n)
    OBVIOUS
  <1>2. PICK w : w = [e.infos[p] EXCEPT !.bcvars = l]
    OBVIOUS
  <1>3. PICK s : s = Put(e.infos, p, w)
    OBVIOUS
  <1>4. PICK t : t = Append(e.broadcast, n)
    OBVIOUS
  <1>5. PICK d : d = [e EXCEPT !.infos = s, !.broadcast = t]
    OBVIOUS
  <1>6. BroadcastTo(e, p, n) = d
    BY <1>1, <1>2, <1>3, <1>4, <1>5, Zenon DEF BroadcastTo, Put
  <1>7. /\ Typed(e) /\ SomeSeq(e.infos) /\ InfoOK(e.infos[p], New(e), e.counter)
        /\ e.broadcast \in Seq(1 .. New(e)) /\ e.infos[p].bcvars \in Seq(1 .. New(e))
        /\ DOMAIN e = EnvFields
    BY DEF Whole, Typed, InfoOK
  <1>8. l \in Seq(1 .. New(e)) /\ t \in Seq(1 .. New(e))
    BY <1>1, <1>4, <1>7, AppendProperties
  <1>9. \A y : Contains(l, y) <=> (Contains(e.infos[p].bcvars, y) \/ y = n)
    <2>1. PICK k : k = e.infos[p].bcvars
      OBVIOUS
    <2>2. k \in Seq(1 .. New(e))
      BY <1>7, <2>1
    <2>3. \A y : Contains(Append(k, n), y) <=> (Contains(k, y) \/ y = n)
      BY <2>2, ContainsAppend
    <2> QED  BY <1>1, <2>1, <2>3
  <1>10. \A y : Contains(t, y) <=> (Contains(e.broadcast, y) \/ y = n)
    <2>1. PICK k : k = e.broadcast
      OBVIOUS
    <2>2. k \in Seq(1 .. New(e))
      BY <1>7, <2>1
    <2>3. \A y : Contains(Append(k, n), y) <=> (Contains(k, y) \/ y = n)
      BY <2>2, ContainsAppend
    <2> QED  BY <1>4, <2>1, <2>3
  <1>11. /\ w.identifier = e.infos[p].identifier /\ w.id = e.infos[p].id
         /\ w.parent = e.infos[p].parent /\ w.other = e.infos[p].other
         /\ w.chained = e.infos[p].chained /\ w.group = e.infos[p].group
         /\ w.sinks = e.infos[p].sinks /\ w.bcvars = l
         /\ w.children = e.infos[p].children /\ w.sorts = e.infos[p].sorts /\ DOMAIN w = Fields
         /\ w.cls = e.infos[p].cls /\ w.operator = e.infos[p].operator
    BY <1>2, <1>7 DEF InfoOK, Fields
  <1>12. InfoOK(w, New(e), e.counter)
    <2>1. ClassOK(w)
      BY <1>7, <1>11 DEF InfoOK, ClassOK
    <2> QED  BY <1>7, <1>8, <1>11, <2>1 DEF InfoOK
  <1>13. /\ SomeSeq(s) /\ Len(s) = Len(e.infos)
         /\ s[p] = w
         /\ \A j \in 1 .. Len(e.infos) : j # p => s[j] = e.infos[j]
    <2>1. p \in 1 .. Len(e.infos)
      BY DEF New
    <2> QED  BY <1>3, <1>7, <2>1, SomeSeqPut
  <1>14. /\ d.infos = s /\ d.counter = e.counter /\ d.sources = e.sources /\ d.sets = e.sets
         /\ d.sinks = e.sinks /\ d.broadcast = t /\ DOMAIN d = EnvFields
    BY <1>5, <1>7 DEF EnvFields
  <1>15. New(d) = New(e)
    BY <1>13, <1>14 DEF New
  <1>16. d.infos[p] = w /\ \A j \in 1 .. New(e) : j # p => d.infos[j] = e.infos[j]
    BY <1>13, <1>14 DEF New
  <1>17. \A j \in 1 .. New(e) : InfoOK(d.infos[j], New(e), e.counter)
    BY <1>7, <1>12, <1>16 DEF Typed
  <1>18. Typed(d)
    BY <1>7, <1>8, <1>13, <1>14, <1>15, <1>17 DEF Typed
  <1>19. \A j \in 1 .. New(e) :
           /\ d.infos[j].identifier = e.infos[j].identifier /\ d.infos[j].id = e.infos[j].id
           /\ d.infos[j].parent = e.infos[j].parent /\ d.infos[j].other = e.infos[j].other
           /\ d.infos[j].chained = e.infos[j].chained /\ d.infos[j].group = e.infos[j].group
           /\ d.infos[j].sinks = e.infos[j].sinks /\ d.infos[j].children = e.infos[j].children
           /\ \A y : Contains(d.infos[j].bcvars, y)
                       <=> (Contains(e.infos[j].bcvars, y) \/ (j = p /\ y = n))
    BY <1>9, <1>11, <1>16
  <1>20. Kinds(d)
    BY <1>10, <1>14, <1>15, <1>19 DEF Whole, Sane, Kinds, MayRead
  <1>21. Registered(d)
    <2>1. \A q, y : /\ Reads(e, q, y) => Reads(d, q, y)
                    /\ ReadsTwice(e, q, y) => ReadsTwice(d, q, y)
      BY <1>15, <1>19 DEF Reads, ReadsTwice
    <2>2. ASSUME NEW y \in 1 .. New(e), SetKnown(e, y) PROVE SetKnown(d, y)
      BY <1>19, <2>1, <2>2 DEF SetKnown
    <2>3. ASSUME NEW y \in 1 .. New(e), e.infos[y].parent # 0 PROVE e.infos[y].parent \in 1 .. New(e)
      <3>1. e.infos[y].parent \in 0 .. New(e) /\ New(e) \in Nat
        BY <1>7, KnownLen DEF Typed, InfoOK
      <3> QED  BY <2>3, <3>1
    <2>4. p # 0
      BY <1>7, KnownLen
    <2>5. ASSUME NEW y \in 1 .. New(e), SinkKnown(e, y) PROVE SinkKnown(d, y)
      BY <1>19, <2>3, <2>4, <2>5 DEF SinkKnown
    <2>6. ASSUME NEW y \in 1 .. New(e), BroadcastKnown(e, y) \/ y = n PROVE BroadcastKnown(d, y)
      BY <1>19, <2>3, <2>4, <2>6 DEF BroadcastKnown
    <2> QED  BY <1>10, <1>14, <1>15, <2>2, <2>5, <2>6 DEF Whole, Sane, Registered
  <1>22. UniqueIds(d) /\ Numbered(d)
    BY <1>14, <1>15, <1>19 DEF Whole, Sane, UniqueIds, Numbered
  <1>23. New(e) \in Nat
    BY <1>7, KnownLen
  <1>24. Once(d)
    <2>1. IsOnce(t)
      BY <1>4, <1>7, OnceAppend DEF Whole, Sane, Once
    <2> QED  BY <1>14, <2>1 DEF Whole, Sane, Once
  <1>25. Ordered(d)
    <2>1. \A k \in 1 .. Len(e.sets) : e.sets[k] \in 1 .. New(e)
      BY <1>7, ElementOfSeq DEF Typed
    <2> QED  BY <1>14, <1>19, <2>1 DEF Whole, Sane, Ordered
  <1>26. Resolved(d)
    <2>1. \A y : Sent(e, y) <=> Sent(d, y)
      BY <1>14 DEF Sent
    <2>2. ASSUME NEW y \in 1 .. New(e), Fed(e, y) \/ y = n PROVE Fed(d, y)
      BY <1>19, <2>1, <2>2 DEF Fed
    <2> QED  BY <1>10, <1>14, <1>15, <2>2 DEF Whole, Sane, Resolved
  <1>27. Sane(d)
    BY <1>20, <1>21, <1>22, <1>24, <1>25, <1>26 DEF Sane
  <1>28. Building(e) => Building(d)
    BY <1>15, <1>19 DEF Building, GroupFit
  <1>29. \A y : (Sent(e, y) => Sent(d, y)) /\ (Missing(d, y) => Missing(e, y))
    BY <1>14, <1>15, <1>19 DEF Sent, Missing
  <1>30. \A j \in 1 .. New(e) : d.infos[j].chained = e.infos[j].chained
    BY <1>19
  <1>31. Whole(d)
    BY <1>18, <1>22, <1>27 DEF Whole
  <1> QED  BY <1>6, <1>15, <1>23, <1>28, <1>29, <1>30, <1>31 DEF Follows, Extends

LEMMA AddedExtends ==
    ASSUME NEW e, NEW d, Whole(e), Typed(d), Sane(d), NEW v, Added(e, d, v),
           Building(e) => Building(d)
    PROVE  /\ Extends(e, d) /\ New(d) \in 1 .. New(d)
           /\ \A i : i # New(d) /\ Missing(d, i) => Missing(e, i)
  <1>1. New(e) \in Nat /\ New(d) = New(e) + 1
    BY KnownLen DEF Whole, Added
  <1>2. \A y : Contains(d.sets, y) => y \in 1 .. New(e)
    BY ContainsIn DEF Whole, Typed, Added
  <1>3. Numbered(d)
    BY <1>2 DEF Whole, Numbered, Added
  <1>4. \A i : Sent(e, i) <=> Sent(d, i)
    BY DEF Sent, Added
  <1>5. \A j \in 1 .. New(e) : d.infos[j] = e.infos[j]
    BY DEF Added
  <1>6. ASSUME NEW i, i # New(d), Missing(d, i) PROVE Missing(e, i)
    <2>1. i \in 1 .. New(e)
      BY <1>1, <1>6 DEF Missing
    <2> QED  BY <1>4, <1>5, <1>6, <2>1 DEF Missing
  <1> QED  BY <1>1, <1>3, <1>4, <1>5, <1>6 DEF Extends, Whole

LEMMA WithBroadcastFollows ==
    ASSUME NEW e, Whole(e), NEW s \in 1 .. New(e), Sent(e, s), NEW name,
           NEW o \in 1 .. New(e), Sent(e, o)
    PROVE  Follows(e, WithBroadcast(e, s, name, o))
  <1>1. PICK v : v = Info("broadcast", "hidden", s, NoFun, NoType)
    OBVIOUS
  <1>2. PICK u : u = InfoField(v, "other", o)
    OBVIOUS
  <1>3. PICK w : w = InfoField(u, "name", name)
    OBVIOUS
  <1>4. PICK e1 : e1 = Allocate(e, w)
    OBVIOUS
  <1>5. PICK n : n = New(e1)
    OBVIOUS
  <1>6. WithBroadcast(e, s, name, o) = BroadcastTo(e1, s, n)
    BY <1>1, <1>2, <1>3, <1>4, <1>5, Zenon DEF WithBroadcast, BroadcastTo, InfoField
  <1>7. /\ Typed(e) /\ Sane(e) /\ "broadcast" \in Identifiers
        /\ s \in 0 .. New(e) /\ New(e) \in Nat /\ o \in 0 .. New(e) + 1
    BY KnownLen DEF Whole, Identifiers
  <1>7a. Suits("broadcast", "hidden", NoFun) /\ "broadcast" \notin {"groupby", "sort"}
         /\ "broadcast" \notin Sources \cup SetKinds
    BY DEF Suits, Sources, SetKinds
  <1>8. Brand(v, New(e) + 1, "broadcast", s, 0)
    BY <1>1, <1>7, <1>7a, InfoBrand
  <1>9. Brand(u, New(e) + 1, "broadcast", s, o)
    BY <1>2, <1>7, <1>8, BrandOther
  <1>10. Brand(w, New(e) + 1, "broadcast", s, o)
    BY <1>3, <1>9, BrandField DEF Plain
  <1>11. Fresh(w, New(e) + 1) /\ GroupFit(e, w, New(e) + 1)
    BY <1>7a, <1>10, NoGroupFit DEF Brand
  <1>12. Typed(e1) /\ Added(e, e1, w)
    BY <1>4, <1>7, <1>11, AllocateStep
  <1>13. Sane(e1) /\ (Building(e) => Building(e1))
    BY <1>7, <1>11, <1>12, AllocateSane, AllocateBuilding
  <1>14. /\ Extends(e, e1) /\ n \in 1 .. New(e1)
         /\ \A i : i # n /\ Missing(e1, i) => Missing(e, i)
    BY <1>5, <1>12, <1>13, AddedExtends
  <1>15. /\ s \in 1 .. New(e1) /\ e1.infos[n].identifier = "broadcast" /\ n = New(e) + 1
         /\ e1.infos[n].parent = s /\ e1.infos[n].other = o /\ e1.broadcast = e.broadcast
    BY <1>5, <1>7, <1>10, <1>12 DEF Added, Brand
  <1>16. Follows(e, e1)
    <2>1. ~Missing(e1, n)
      BY <1>7a, <1>15 DEF Missing
    <2> QED  BY <1>14, <2>1 DEF Follows
  <1>17. Whole(e1) /\ Fed(e1, n)
    BY <1>15, <1>16, FollowsWhole DEF Fed
  <1>18. ~Contains(e1.broadcast, n)
    <2>1. e.broadcast \in Seq(1 .. New(e))
      BY <1>7 DEF Typed
    <2> QED  BY <1>7, <1>15, <2>1, ContainsIn
  <1>19. Follows(e1, BroadcastTo(e1, s, n))
    BY <1>14, <1>15, <1>17, <1>18, BroadcastToFollows
  <1> QED  BY <1>6, <1>7, <1>16, <1>19, FollowsAgain

LEMMA ZipWithIndexFollows ==
    ASSUME NEW e, Whole(e), NEW s \in 1 .. New(e), Sent(e, s)
    PROVE  Follows(e, ZipWithIndex(e, s))
  <1>1. PICK c : c = CountElements(e, s)
    OBVIOUS
  <1>2. PICK z : z = MapPartition(c, s, <<"zip">>)
    OBVIOUS
  <1>3. PICK n : n = New(c)
    OBVIOUS
  <1>4. PICK m : m = New(z)
    OBVIOUS
  <1>5. ZipWithIndex(e, s) = WithBroadcast(z, m, "counts", n)
    BY <1>1, <1>2, <1>3, <1>4, Zenon DEF ZipWithIndex
  <1>6. Grown(e, c)
    BY <1>1, OneInputGrows DEF Whole, CountElements
  <1>7. Follows(e, c) /\ n \in 1 .. n /\ s \in 1 .. New(c) /\ Sent(c, n)
    BY <1>3, <1>6, GrownFollows
  <1>7a. Whole(c) /\ Typed(c) /\ Sane(c) /\ Sent(c, s)
    BY <1>7, FollowsWhole
  <1>8. Grown(c, z)
    BY <1>2, <1>7, <1>7a, OneInputGrows
  <1>9. Follows(c, z) /\ m \in 1 .. m /\ n \in 1 .. m /\ Sent(z, m)
    BY <1>3, <1>4, <1>7, <1>7a, <1>8, GrownFollows
  <1>9a. Whole(z) /\ Sent(z, n)
    BY <1>7, <1>9, FollowsWhole
  <1>10. Follows(z, WithBroadcast(z, m, "counts", n))
    BY <1>4, <1>9, <1>9a, WithBroadcastFollows
  <1>11. Follows(e, z)
    BY <1>7, <1>9, FollowsAgain DEF Whole
  <1> QED  BY <1>5, <1>10, <1>11, FollowsAgain DEF Whole

SourceOf(e, n) == [e EXCEPT !.sources = Append(@, n)]

LEMMA SourceOfFollows ==
    ASSUME NEW e, Whole(e), NEW n \in 1 .. New(e), e.infos[n].identifier \in Sources,
           e.infos[n].parent = 0, e.infos[n].other = 0, ~Contains(e.sources, n)
    PROVE  LET d == SourceOf(e, n) IN
           /\ Follows(e, d) /\ Sent(d, n) /\ \A i : Missing(d, i) => i # n
           /\ d.sets = e.sets
  <1>1. PICK l : l = Append(e.sources, n)
    OBVIOUS
  <1>2. PICK d : d = [e EXCEPT !.sources = l]
    OBVIOUS
  <1>3. SourceOf(e, n) = d
    BY <1>1, <1>2, Zenon DEF SourceOf
  <1>4. Typed(e) /\ Sane(e) /\ Numbered(e) /\ New(e) \in Nat
    BY KnownLen DEF Whole
  <1>5. l \in Seq(1 .. New(e)) /\ e.sources \in Seq(1 .. New(e))
    BY <1>1, <1>4, AppendProperties DEF Typed
  <1>6. /\ d.infos = e.infos /\ d.counter = e.counter /\ d.sources = l /\ d.sets = e.sets
        /\ d.sinks = e.sinks /\ d.broadcast = e.broadcast /\ DOMAIN d = EnvFields
    BY <1>2, <1>4 DEF Typed, EnvFields
  <1>7. New(d) = New(e)
    BY <1>6 DEF New
  <1>8. Typed(d)
    BY <1>4, <1>5, <1>6, <1>7 DEF Typed
  <1>9. \A s : /\ SetKnown(e, s) => SetKnown(d, s)
               /\ SinkKnown(e, s) => SinkKnown(d, s)
               /\ BroadcastKnown(e, s) => BroadcastKnown(d, s)
    BY <1>6, <1>7 DEF SetKnown, SinkKnown, BroadcastKnown, Reads, ReadsTwice
  <1>10. \A y : Contains(l, y) <=> (Contains(e.sources, y) \/ y = n)
    <2>1. PICK k : k = e.sources
      OBVIOUS
    <2>2. k \in Seq(1 .. New(e))
      BY <1>5, <2>1
    <2>3. \A y : Contains(Append(k, n), y) <=> (Contains(k, y) \/ y = n)
      BY <2>2, ContainsAppend
    <2> QED  BY <1>1, <2>1, <2>3
  <1>11. Kinds(d)
    BY <1>4, <1>6, <1>7, <1>10 DEF Sane, Kinds, MayRead
  <1>12. Registered(d) /\ UniqueIds(d) /\ Numbered(d) /\ Ordered(d)
    <2>1. Registered(d)
      <3> SUFFICES ASSUME NEW s \in 1 .. New(e)
                   PROVE  /\ Contains(d.sets, s) => SetKnown(d, s)
                          /\ Contains(d.sinks, s) => SinkKnown(d, s)
                          /\ Contains(d.broadcast, s) => BroadcastKnown(d, s)
        BY <1>7 DEF Registered
      <3>1. /\ Contains(e.sets, s) => SetKnown(e, s)
            /\ Contains(e.sinks, s) => SinkKnown(e, s)
            /\ Contains(e.broadcast, s) => BroadcastKnown(e, s)
        BY <1>4 DEF Sane, Registered
      <3>2. d.sets = e.sets /\ d.sinks = e.sinks /\ d.broadcast = e.broadcast
        BY <1>6
      <3> QED  BY <1>9, <3>1, <3>2
    <2>2. UniqueIds(d) /\ Numbered(d)
      BY <1>4, <1>6, <1>7 DEF Sane, UniqueIds, Numbered
    <2>3. Ordered(d)
      BY <1>4, <1>6 DEF Sane, Ordered
    <2> QED  BY <2>1, <2>2, <2>3
  <1>13. Once(d)
    <2>1. IsOnce(l)
      BY <1>1, <1>4, <1>5, OnceAppend DEF Sane, Once
    <2> QED  BY <1>4, <1>6, <2>1 DEF Sane, Once
  <1>14. \A y : (Sent(e, y) => Sent(d, y)) /\ (Sent(d, y) => Sent(e, y) \/ y = n) /\ Sent(d, n)
    BY <1>6, <1>10 DEF Sent
  <1>15. Resolved(d)
    <2>1. \A y : Fed(e, y) => Fed(d, y)
      BY <1>6, <1>14 DEF Fed
    <2> QED  BY <1>4, <1>6, <1>7, <2>1 DEF Sane, Resolved
  <1>16. \A y : Missing(d, y) => Missing(e, y) /\ y # n
    BY <1>6, <1>7, <1>14 DEF Missing
  <1>17. Building(e) => Building(d)
    BY <1>6, <1>7 DEF Building, GroupFit
  <1>18. Whole(d)
    BY <1>8, <1>11, <1>12, <1>13, <1>15 DEF Whole, Sane
  <1>19. Follows(e, d)
    BY <1>4, <1>6, <1>7, <1>14, <1>16, <1>17, <1>18 DEF Follows, Extends
  <1> QED  BY <1>3, <1>6, <1>14, <1>16, <1>19

LEMMA SourceFollows ==
    ASSUME NEW e, Whole(e), NEW ident \in Sources
    PROVE  Follows(e, Source(e, ident))
  <1>1. PICK v : v = Info(ident, "set", 0, NoFun, NoType)
    OBVIOUS
  <1>2. PICK e1 : e1 = Create(e, v)
    OBVIOUS
  <1>3. PICK n : n = New(e1)
    OBVIOUS
  <1>4. Source(e, ident) = SourceOf(e1, n)
    BY <1>1, <1>2, <1>3, Zenon DEF Source, SourceOf
  <1>5. Typed(e) /\ Sane(e) /\ ident \in Identifiers /\ New(e) \in Nat /\ 0 \in 0 .. New(e)
    BY KnownLen DEF Whole, Identifiers
  <1>6. Suits(ident, "set", NoFun) /\ ident \notin {"groupby", "sort"}
    BY DEF Suits, Sources, SinkKinds
  <1>7. Brand(v, New(e) + 1, ident, 0, 0) /\ GroupFit(e, v, New(e) + 1)
    BY <1>1, <1>5, <1>6, InfoBrand, NoGroupFit
  <1>8. Typed(e1) /\ Sane(e1) /\ Created(e, e1, ident, 0, 0) /\ (Building(e) => Building(e1))
    BY <1>2, <1>5, <1>7, CreateStep
  <1>9. /\ Extends(e, e1) /\ n \in 1 .. New(e1)
        /\ \A i : i # n /\ Missing(e1, i) => Missing(e, i)
    BY <1>3, <1>8, CreatedExtends
  <1>10. e1.infos[n].identifier = ident /\ e1.infos[n].parent = 0 /\ e1.infos[n].other = 0
         /\ e1.sources = e.sources /\ n = New(e) + 1
    BY <1>3, <1>8 DEF Created
  <1>11. ~Contains(e1.sources, n)
    <2>1. e.sources \in Seq(1 .. New(e))
      BY <1>5 DEF Typed
    <2> QED  BY <1>5, <1>10, <2>1, ContainsIn
  <1>12. Whole(e1) /\ e1.infos[n].identifier \in Sources
    BY <1>9, <1>10 DEF Extends
  <1>13. PICK d : d = SourceOf(e1, n)
    OBVIOUS
  <1>14. Follows(e1, d) /\ Sent(d, n) /\ \A i : Missing(d, i) => i # n
    BY <1>9, <1>10, <1>11, <1>12, <1>13, SourceOfFollows
  <1>15. Extends(e, d)
    BY <1>5, <1>9, <1>14, ExtendsAgain DEF Follows
  <1>16. \A i : Missing(d, i) => Missing(e, i)
    BY <1>9, <1>14 DEF Follows
  <1> QED  BY <1>4, <1>13, <1>15, <1>16 DEF Follows

-----------------------------------------------------------------------------
(* Two inputs.                                                             *)

LEMMA DualKinds ==
    /\ Dual \subseteq SetKinds /\ SetKinds \subseteq Identifiers
    /\ \A ident \in Dual : ident \notin Chainable \cup {"groupby", "sort"}
    /\ {"cross", "union", "join", "cogroup"} \subseteq Dual
  BY DEF SetKinds, Identifiers, SinkKinds, Sources, Chainable, Dual, Crosses, Joins

LEMMA EnlistNumbered ==
    ASSUME NEW e, Whole(e), NEW c \in 1 .. New(e), ~Contains(e.sets, c), SetKnown(e, c), Fed(e, c),
           e.infos[c].identifier \in Dual, e.infos[c].id # -1
    PROVE  Follows(e, Enlist(e, c)) /\ Sent(Enlist(e, c), c)
  <1>1. PICK d : d = Enlist(e, c)
    OBVIOUS
  <1>2. e.infos[c].identifier \in SetKinds /\ e.infos[c].identifier \notin Chainable
    BY DualKinds
  <1>3. Typed(e) /\ Sane(e) /\ New(e) \in Nat /\ e.sets \in Seq(1 .. New(e))
    BY KnownLen DEF Whole, Typed
  <1>4. Sane(d)
    BY <1>1, <1>2, <1>3, EnlistSane
  <1>5. /\ Typed(d) /\ New(d) = New(e) /\ d.infos = e.infos /\ d.sets = Append(e.sets, c)
        /\ d.sources = e.sources
    BY <1>1, <1>3, EnlistStep
  <1>6. PICK l : l = e.sets
    OBVIOUS
  <1>7. PICK T : T = 1 .. New(e)
    OBVIOUS
  <1>7a. l \in Seq(T) /\ c \in T
    BY <1>3, <1>6, <1>7
  <1>8. \A y : Contains(Append(l, c), y) <=> (Contains(l, y) \/ y = c)
    BY <1>7a, ContainsAppend
  <1>9. Numbered(d)
    BY <1>5, <1>6, <1>8 DEF Whole, Numbered
  <1>10. Sent(d, c) /\ \A i : Sent(e, i) => Sent(d, i)
    BY <1>5, <1>6, <1>8 DEF Sent
  <1>11. \A i : Missing(d, i) => Missing(e, i)
    BY <1>5, <1>10 DEF Missing
  <1>12. Building(e) => Building(d)
    BY <1>5 DEF Building, GroupFit
  <1> QED  BY <1>1, <1>3, <1>4, <1>5, <1>9, <1>10, <1>11, <1>12 DEF Follows, Extends, Whole

\* A method that first creates info c lists it in the end.
LEMMA AllListed ==
    ASSUME NEW e, NEW f, NEW d, NEW c, Typed(e), Extends(e, f),
           \A i : i # c /\ Missing(f, i) => Missing(e, i), Follows(f, d), Sent(d, c)
    PROVE  Follows(e, d)
  <1>1. Extends(e, d)
    BY ExtendsAgain DEF Follows
  <1>2. ASSUME NEW i, Missing(d, i) PROVE Missing(e, i)
    <2>1. i # c
      BY <1>2 DEF Missing
    <2> QED  BY <1>2, <2>1 DEF Follows
  <1> QED  BY <1>1, <1>2 DEF Follows

LEMMA TwoInputsFollows ==
    ASSUME NEW e, Whole(e), NEW a \in 1 .. New(e), NEW b \in 1 .. New(e), Sent(e, a), Sent(e, b),
           NEW v, NEW ident \in Dual, Brand(v, New(e) + 1, ident, a, 0)
    PROVE  Follows(e, TwoInputs(e, a, b, v))
  <1>1. PICK w : w = InfoField(v, "other", b)
    OBVIOUS
  <1>2. PICK e1 : e1 = Create(e, w)
    OBVIOUS
  <1>3. PICK c : c = New(e1)
    OBVIOUS
  <1>4. PICK e2 : e2 = Adopt(e1, a, c)
    OBVIOUS
  <1>5. PICK e3 : e3 = Adopt(e2, b, c)
    OBVIOUS
  <1>6. TwoInputs(e, a, b, v) = Enlist(e3, c)
    BY <1>1, <1>2, <1>3, <1>4, <1>5, Zenon DEF TwoInputs, InfoField
  <1>7. /\ Typed(e) /\ Sane(e) /\ New(e) \in Nat /\ e.counter \in Nat
        /\ e.sets \in Seq(1 .. New(e))
    <2>1. Typed(e) /\ Sane(e)
      BY DEF Whole
    <2> QED  BY <2>1, KnownLen DEF Typed
  <1>8. b \in 0 .. New(e) + 1
    BY <1>7
  <1>9. Brand(w, New(e) + 1, ident, a, b)
    BY <1>1, <1>8, BrandOther
  <1>9a. GroupFit(e, w, New(e) + 1)
    BY <1>9, DualKinds, NoGroupFit
  <1>10. /\ Typed(e1) /\ Sane(e1) /\ Created(e, e1, ident, a, b)
         /\ Building(e) => Building(e1)
    BY <1>2, <1>7, <1>9, <1>9a, CreateStep
  <1>11. Extends(e, e1) /\ \A i : i # c /\ Missing(e1, i) => Missing(e, i)
    BY <1>3, <1>10, CreatedExtends
  <1>11a. Whole(e1) /\ Sent(e1, a) /\ Sent(e1, b)
    BY <1>11 DEF Extends
  <1>12. c = New(e) + 1 /\ c \in 1 .. New(e1) /\ a \in 1 .. New(e1) /\ b \in 1 .. New(e1)
    BY <1>3, <1>7, <1>10 DEF Created
  <1>12a. MayRead(e1, a, c) /\ MayRead(e1, b, c)
    BY <1>3, <1>10, DualKinds DEF Created, MayRead
  <1>13. Typed(e2) /\ Keeps(e1, e2) /\ Reads(e2, a, c)
    BY <1>4, <1>10, <1>12, <1>12a, AdoptKeeps
  <1>14. /\ c \in 1 .. New(e2) /\ b \in 1 .. New(e2) /\ a \in 1 .. New(e2)
         /\ MayRead(e2, b, c)
    BY <1>12, <1>12a, <1>13 DEF Keeps, Same, MayRead
  <1>15. /\ Typed(e3) /\ Keeps(e2, e3) /\ Reads(e3, b, c)
         /\ Reads(e2, b, c) => ReadsTwice(e3, b, c)
    BY <1>5, <1>13, <1>14, AdoptKeeps
  <1>16. Reads(e3, a, c)
    BY <1>13, <1>14, <1>15 DEF Keeps
  <1>17. Keeps(e1, e3)
    BY <1>13, <1>15, KeepsAgain
  <1>18. Follows(e1, e3)
    BY <1>11a, <1>15, <1>17, KeepsFollows
  <1>18a. Whole(e3) /\ Sent(e3, a) /\ Sent(e3, b)
    BY <1>11a, <1>18, FollowsWhole
  <1>19. /\ e3.infos[c].identifier = ident /\ e3.infos[c].parent = a /\ e3.infos[c].other = b
         /\ e3.infos[c].id = e.counter /\ c \in 1 .. New(e3) /\ e3.sets = e.sets
    BY <1>3, <1>10, <1>12, <1>17 DEF Keeps, Created, Same
  <1>20. SetKnown(e3, c) /\ Fed(e3, c)
    BY <1>13, <1>15, <1>16, <1>18a, <1>19 DEF SetKnown, Fed
  <1>21. ~Contains(e3.sets, c) /\ e3.infos[c].id # -1
    BY <1>7, <1>12, <1>19, ContainsIn
  <1>22. Follows(e3, Enlist(e3, c)) /\ Sent(Enlist(e3, c), c)
    BY <1>18a, <1>19, <1>20, <1>21, EnlistNumbered
  <1>23. Follows(e1, Enlist(e3, c))
    BY <1>10, <1>18, <1>22, FollowsAgain
  <1> QED  BY <1>6, <1>7, <1>11, <1>22, <1>23, AllListed

LEMMA CrossUnionFollow ==
    ASSUME NEW e, Whole(e), NEW a \in 1 .. New(e), NEW b \in 1 .. New(e), Sent(e, a), Sent(e, b)
    PROVE  Follows(e, Cross(e, a, b, "cross")) /\ Follows(e, Union(e, a, b))
  <1>1. Typed(e) /\ a \in 0 .. New(e)
    BY KnownLen DEF Whole
  <1>2. ASSUME NEW ident \in Dual, NEW cls \in Classes
        PROVE  Follows(e, TwoInputs(e, a, b, Info(ident, cls, a, NoFun, NoType)))
    <2>1. PICK v : v = Info(ident, cls, a, NoFun, NoType)
      OBVIOUS
    <2>2. ident \in Identifiers /\ Suits(ident, cls, NoFun)
      BY DualKinds, SetSuits
    <2>3. Brand(v, New(e) + 1, ident, a, 0)
      BY <1>1, <2>1, <2>2, InfoBrand
    <2> QED  BY <2>1, <2>3, TwoInputsFollows
  <1>3. {"pair", "set"} \subseteq Classes
    BY DEF Classes
  <1> QED  BY <1>2, <1>3, DualKinds DEF Cross, Union

\* An info that is not listed yet, to become a set with two inputs.
Loose(e, c) == c \in 1 .. New(e) /\ ~Sent(e, c) /\ e.infos[c].identifier \in Dual

\* Input p of info c, which is loose, becomes q.
WithInput(e, c, side, q) == [e EXCEPT !.infos[c][side] = q]

LEMMA InputStep ==
    ASSUME NEW e, Whole(e), NEW c, Loose(e, c), NEW q \in 1 .. New(e),
           NEW side \in {"parent", "other"}
    PROVE  LET d == WithInput(e, c, side, q) IN
           /\ Follows(e, d) /\ New(d) = New(e) /\ d.sets = e.sets /\ d.sources = e.sources
           /\ d.infos[c][side] = q
           /\ side = "other" => d.infos[c].parent = e.infos[c].parent
           /\ side = "parent" => d.infos[c].other = e.infos[c].other
           /\ \A j \in 1 .. New(e) : d.infos[j].identifier = e.infos[j].identifier
           /\ \A p, s : /\ Reads(e, p, s) => Reads(d, p, s)
                        /\ ReadsTwice(e, p, s) => ReadsTwice(d, p, s)
  <1>1. PICK w : w = [e.infos[c] EXCEPT ![side] = q]
    OBVIOUS
  <1>2. PICK s : s = Put(e.infos, c, w)
    OBVIOUS
  <1>3. PICK d : d = [e EXCEPT !.infos = s]
    OBVIOUS
  <1>4. WithInput(e, c, side, q) = d
    BY <1>1, <1>2, <1>3, Zenon DEF WithInput, Put
  <1>5. /\ Typed(e) /\ Sane(e) /\ SomeSeq(e.infos) /\ InfoOK(e.infos[c], New(e), e.counter)
        /\ DOMAIN e = EnvFields /\ c \in 1 .. New(e) /\ ~Contains(e.sets, c)
        /\ ~Contains(e.sources, c) /\ e.infos[c].identifier \in Dual
    BY DEF Whole, Typed, Loose, Sent
  <1>5a. /\ e.infos[c].identifier \in SetKinds
         /\ e.infos[c].identifier \notin Chainable \cup {"groupby", "sort"}
    BY <1>5, DualKinds
  <1>6. New(e) \in Nat
    BY <1>5, KnownLen
  <1>7. /\ w.identifier = e.infos[c].identifier /\ w.id = e.infos[c].id
        /\ w.chained = e.infos[c].chained /\ w.group = e.infos[c].group
        /\ w.sinks = e.infos[c].sinks /\ w.bcvars = e.infos[c].bcvars
        /\ w.children = e.infos[c].children /\ w.sorts = e.infos[c].sorts /\ DOMAIN w = Fields
        /\ w[side] = q /\ w.cls = e.infos[c].cls /\ w.operator = e.infos[c].operator
        /\ side = "other" => w.parent = e.infos[c].parent
        /\ side = "parent" => w.other = e.infos[c].other
    BY <1>1, <1>5 DEF InfoOK, Fields
  <1>8. q \in 0 .. New(e)
    BY <1>6
  <1>9. InfoOK(w, New(e), e.counter)
    <2>1. ClassOK(w)
      BY <1>5, <1>7 DEF InfoOK, ClassOK
    <2> QED  BY <1>5, <1>7, <1>8, <2>1 DEF InfoOK
  <1>10. /\ SomeSeq(s) /\ Len(s) = Len(e.infos)
         /\ s[c] = w
         /\ \A j \in 1 .. Len(e.infos) : j # c => s[j] = e.infos[j]
    <2>1. c \in 1 .. Len(e.infos)
      BY <1>5 DEF New
    <2>2. SomeSeq(e.infos)
      BY <1>5
    <2> QED  BY <1>2, <2>1, <2>2, SomeSeqPut
  <1>11. /\ d.infos = s /\ d.counter = e.counter /\ d.sources = e.sources /\ d.sets = e.sets
         /\ d.sinks = e.sinks /\ d.broadcast = e.broadcast /\ DOMAIN d = EnvFields
    BY <1>3, <1>5 DEF EnvFields
  <1>12. New(d) = New(e)
    BY <1>10, <1>11 DEF New
  <1>13. d.infos[c] = w /\ \A j \in 1 .. New(e) : j # c => d.infos[j] = e.infos[j]
    BY <1>10, <1>11 DEF New
  <1>14. \A j \in 1 .. New(e) : InfoOK(d.infos[j], New(e), e.counter)
    BY <1>5, <1>9, <1>13 DEF Typed
  <1>15. Typed(d)
    BY <1>5, <1>10, <1>11, <1>12, <1>14 DEF Typed
  <1>16. \A j \in 1 .. New(e) :
           /\ d.infos[j].identifier = e.infos[j].identifier /\ d.infos[j].id = e.infos[j].id
           /\ d.infos[j].chained = e.infos[j].chained /\ d.infos[j].sinks = e.infos[j].sinks
           /\ d.infos[j].bcvars = e.infos[j].bcvars /\ d.infos[j].children = e.infos[j].children
           /\ d.infos[j].group = e.infos[j].group
           /\ j # c => /\ d.infos[j].parent = e.infos[j].parent
                       /\ d.infos[j].other = e.infos[j].other
    BY <1>7, <1>13
  <1>17. ~Contains(e.sinks, c) /\ ~Contains(e.broadcast, c)
    BY <1>5, <1>5a DEF Sane, Kinds, SetKinds
  <1>18. Kinds(d)
    BY <1>5, <1>11, <1>12, <1>16, <1>17 DEF Sane, Kinds, MayRead
  <1>19. \A p, y : /\ Reads(e, p, y) => Reads(d, p, y)
                   /\ ReadsTwice(e, p, y) => ReadsTwice(d, p, y)
    BY <1>12, <1>16 DEF Reads, ReadsTwice
  <1>20. Registered(d)
    <2>1. ASSUME NEW y \in 1 .. New(e), y # c, SetKnown(e, y) PROVE SetKnown(d, y)
      BY <1>16, <1>19, <2>1 DEF SetKnown
    <2>2. ASSUME NEW y \in 1 .. New(e), e.infos[y].parent # 0 PROVE e.infos[y].parent \in 1 .. New(e)
      <3>1. e.infos[y].parent \in 0 .. New(e)
        BY <1>5 DEF Typed, InfoOK
      <3> QED  BY <1>6, <2>2, <3>1
    <2>3. ASSUME NEW y \in 1 .. New(e), y # c, SinkKnown(e, y) PROVE SinkKnown(d, y)
      BY <1>16, <2>2, <2>3 DEF SinkKnown
    <2>4. ASSUME NEW y \in 1 .. New(e), y # c, BroadcastKnown(e, y) PROVE BroadcastKnown(d, y)
      BY <1>16, <2>2, <2>4 DEF BroadcastKnown
    <2> QED  BY <1>5, <1>11, <1>12, <1>17, <2>1, <2>3, <2>4 DEF Sane, Registered
  <1>21. UniqueIds(d) /\ Once(d) /\ Numbered(d)
    BY <1>5, <1>11, <1>12, <1>16 DEF Whole, Sane, UniqueIds, Once, Numbered
  <1>22. Ordered(d)
    <2>1. \A k \in 1 .. Len(e.sets) : e.sets[k] \in 1 .. New(e)
      BY <1>5, ElementOfSeq DEF Typed
    <2> QED  BY <1>5, <1>11, <1>16, <2>1 DEF Sane, Ordered
  <1>23. \A y : Sent(d, y) <=> Sent(e, y)
    BY <1>11 DEF Sent
  <1>24. Resolved(d)
    <2>1. ASSUME NEW y \in 1 .. New(e), y # c, Fed(e, y) PROVE Fed(d, y)
      BY <1>16, <1>23, <2>1 DEF Fed
    <2> QED  BY <1>5, <1>11, <1>12, <1>17, <2>1 DEF Sane, Resolved
  <1>25. Sane(d)
    BY <1>18, <1>20, <1>21, <1>22, <1>24 DEF Sane
  <1>26. Building(e) => Building(d)
    <2>1. ASSUME NEW j \in 1 .. New(e), GroupFit(e, e.infos[j], j) PROVE GroupFit(d, d.infos[j], j)
      BY <1>5a, <1>12, <1>16, <2>1 DEF GroupFit
    <2> QED  BY <1>12, <1>16, <2>1 DEF Building
  <1>27. \A y : Missing(d, y) => Missing(e, y)
    BY <1>12, <1>16, <1>23 DEF Missing
  <1>28. Follows(e, d)
    BY <1>6, <1>12, <1>15, <1>16, <1>21, <1>23, <1>25, <1>26, <1>27 DEF Follows, Extends, Whole
  <1> QED  BY <1>4, <1>7, <1>11, <1>12, <1>13, <1>16, <1>19, <1>28

\* where and equal_to, of either side.
Attach(e, c, side, a, k) ==
    LET m == KeyMap(e, a, k) IN Adopt(WithInput(m, c, side, New(m)), New(m), c)

\* What attaching an input leaves of the rest.
Attached(e, d, c) ==
    /\ Follows(e, d) /\ Loose(d, c)
    /\ \A p, s \in 1 .. New(e) : Reads(e, p, s) => Reads(d, p, s)

LEMMA AttachStep ==
    ASSUME NEW e, Whole(e), NEW c, Loose(e, c), NEW a \in 1 .. New(e), Sent(e, a), NEW k,
           NEW side \in {"parent", "other"}
    PROVE  LET d == Attach(e, c, side, a, k) IN
           /\ Attached(e, d, c)
           /\ Reads(d, d.infos[c][side], c) /\ Sent(d, d.infos[c][side])
           /\ d.infos[c][side] = New(e) + 1
           /\ side = "other" => d.infos[c].parent = e.infos[c].parent
           /\ side = "parent" => d.infos[c].other = e.infos[c].other
  <1>1. PICK m : m = KeyMap(e, a, k)
    OBVIOUS
  <1>2. PICK n : n = New(m)
    OBVIOUS
  <1>3. PICK f : f = WithInput(m, c, side, n)
    OBVIOUS
  <1>4. PICK d : d = Adopt(f, n, c)
    OBVIOUS
  <1>5. Attach(e, c, side, a, k) = d
    BY <1>1, <1>2, <1>3, <1>4, Zenon DEF Attach
  <1>6. Typed(e) /\ Sane(e) /\ New(e) \in Nat
    BY KnownLen DEF Whole
  <1>7. Grown(e, m)
    BY <1>1, <1>6, KeyMapGrows
  <1>8. Follows(e, m) /\ n \in 1 .. New(m) /\ Sent(m, n)
    BY <1>2, <1>7, GrownFollows
  <1>9. n = New(e) + 1 /\ c \in 1 .. New(e) /\ c \in 1 .. New(m)
    BY <1>2, <1>6, <1>7 DEF Grown, Loose
  <1>10. ~Sent(m, c)
    <2>1. PICK l : l = e.sets
      OBVIOUS
    <2>2. PICK T : T = 1 .. n
      OBVIOUS
    <2>3. l \in Seq(1 .. New(e))
      BY <1>6, <2>1 DEF Typed
    <2>4. l \in Seq(T) /\ n \in T
      BY <1>6, <1>9, <2>2, <2>3, SeqMonotonic
    <2>5. \A y : Contains(Append(l, n), y) <=> (Contains(l, y) \/ y = n)
      BY <2>4, ContainsAppend
    <2>6. ~Contains(l, c) /\ ~Contains(e.sources, c)
      BY <2>1 DEF Loose, Sent
    <2>7. m.sets = Append(l, n) /\ m.sources = e.sources
      BY <1>2, <1>7, <2>1 DEF Grown
    <2>8. c # n
      BY <1>6, <1>9
    <2> QED  BY <2>5, <2>6, <2>7, <2>8 DEF Sent
  <1>11. Loose(m, c)
    BY <1>7, <1>9, <1>10 DEF Loose, Grown, Same
  <1>12. Whole(m)
    BY <1>8, FollowsWhole
  <1>13. /\ Follows(m, f) /\ New(f) = New(m) /\ f.sets = m.sets /\ f.sources = m.sources
         /\ f.infos[c][side] = n
         /\ side = "other" => f.infos[c].parent = m.infos[c].parent
         /\ side = "parent" => f.infos[c].other = m.infos[c].other
         /\ \A j \in 1 .. New(m) : f.infos[j].identifier = m.infos[j].identifier
         /\ \A p, s : Reads(m, p, s) => Reads(f, p, s)
    BY <1>3, <1>8, <1>11, <1>12, InputStep
  <1>14. Loose(f, c)
    BY <1>9, <1>11, <1>13 DEF Loose, Sent
  <1>15. /\ Whole(f) /\ Typed(f) /\ n \in 1 .. New(f) /\ c \in 1 .. New(f)
         /\ MayRead(f, n, c)
    BY <1>8, <1>9, <1>13, <1>14, FollowsWhole, DualKinds DEF Loose, MayRead
  <1>16. Typed(d) /\ Keeps(f, d) /\ Reads(d, n, c)
    BY <1>4, <1>15, AdoptKeeps
  <1>17. Follows(f, d)
    BY <1>15, <1>16, KeepsFollows
  <1>18. Follows(e, d)
    <2>1. Follows(e, f)
      BY <1>6, <1>8, <1>13, FollowsAgain
    <2> QED  BY <1>6, <1>17, <2>1, FollowsAgain
  <1>19. Same(f.infos[c], d.infos[c])
    BY <1>15, <1>16 DEF Keeps
  <1>20. Loose(d, c)
    BY <1>14, <1>16, <1>19 DEF Loose, Keeps, Same, Sent
  <1>21. /\ d.infos[c].parent = f.infos[c].parent /\ d.infos[c].other = f.infos[c].other
         /\ m.infos[c].parent = e.infos[c].parent /\ m.infos[c].other = e.infos[c].other
    BY <1>7, <1>9, <1>19 DEF Same, Grown
  <1>22. ASSUME NEW p \in 1 .. New(e), NEW s \in 1 .. New(e), Reads(e, p, s) PROVE Reads(d, p, s)
    <2>1. Reads(m, p, s)
      BY <1>7, <1>22 DEF Grown
    <2>2. Reads(f, p, s)
      BY <1>13, <2>1
    <2>3. New(f) = New(e) + 1
      BY <1>2, <1>9, <1>13
    <2>4. p \in 1 .. New(f) /\ s \in 1 .. New(f)
      BY <1>6, <2>3
    <2> QED  BY <1>16, <2>2, <2>4 DEF Keeps
  <1>23. d.infos[c][side] = n
    BY <1>13, <1>21
  <1>24. Sent(d, n)
    BY <1>8, <1>13, <1>17, FollowsWhole
  <1> QED  BY <1>5, <1>9, <1>13, <1>16, <1>18, <1>20, <1>21, <1>22, <1>23, <1>24 DEF Attached

LEMMA NumberFollows ==
    ASSUME NEW e, Whole(e), NEW i \in 1 .. New(e)
    PROVE  LET d == Number(e, i) IN Follows(e, d) /\ Renumbered(e, d, i)
  <1>1. PICK d : d = Number(e, i)
    OBVIOUS
  <1>2. Typed(e) /\ Sane(e) /\ New(e) \in Nat /\ e.counter \in Nat
    BY KnownLen DEF Whole, Typed
  <1>3. Typed(d) /\ Renumbered(e, d, i)
    BY <1>1, <1>2, NumberStep
  <1>4. Sane(d)
    BY <1>2, <1>3, NumberSane
  <1>5. Numbered(d)
    BY <1>2, <1>3 DEF Whole, Numbered, Renumbered
  <1>6. Building(e) => Building(d)
    BY <1>3, NumberBuilding
  <1>7. \A j : (Sent(e, j) => Sent(d, j)) /\ (Missing(d, j) => Missing(e, j))
    BY <1>3 DEF Sent, Missing, Renumbered
  <1> QED  BY <1>1, <1>2, <1>3, <1>4, <1>5, <1>6, <1>7 DEF Follows, Extends, Whole, Renumbered

\* Both inputs of c, which read the sets a and b by keys.
LEMMA BothAttached ==
    ASSUME NEW e, Whole(e), NEW c, Loose(e, c), NEW a \in 1 .. New(e), NEW b \in 1 .. New(e),
           Sent(e, a), Sent(e, b), NEW k1, NEW k2
    PROVE  LET d == EqualTo(Where(e, c, a, k1), c, b, k2) IN
           Follows(e, d) /\ Loose(d, c) /\ SetKnown(d, c) /\ Fed(d, c)
  <1>1. PICK f : f = Attach(e, c, "parent", a, k1)
    OBVIOUS
  <1>2. PICK d : d = Attach(f, c, "other", b, k2)
    OBVIOUS
  <1>3. f = Where(e, c, a, k1)
    BY <1>1, Zenon DEF Where, Attach, WithInput
  <1>4. d = EqualTo(f, c, b, k2)
    BY <1>2, Zenon DEF EqualTo, Attach, WithInput
  <1>5. /\ Attached(e, f, c) /\ Reads(f, f.infos[c].parent, c)
        /\ Sent(f, f.infos[c].parent)
    BY <1>1, AttachStep
  <1>6. Whole(f) /\ Loose(f, c) /\ Sent(f, b)
    BY <1>5, FollowsWhole DEF Attached
  <1>7. b \in 1 .. New(f)
    <2> QED  BY <1>6, SentKnown DEF Whole
  <1>8. /\ Attached(f, d, c) /\ Reads(d, d.infos[c].other, c)
        /\ d.infos[c].parent = f.infos[c].parent /\ Sent(d, d.infos[c].other)
        /\ d.infos[c].other = New(f) + 1
    BY <1>2, <1>6, <1>7, AttachStep
  <1>9. Reads(d, d.infos[c].parent, c)
    <2>1. PICK p : p = f.infos[c].parent
      OBVIOUS
    <2>2. Reads(f, p, c) /\ p \in 1 .. New(f) /\ c \in 1 .. New(f)
      BY <1>5, <1>6, <2>1 DEF Reads, Loose
    <2> QED  BY <1>8, <2>1, <2>2 DEF Attached
  <1>10. Follows(e, d)
    BY <1>5, <1>8, FollowsAgain DEF Attached, Whole
  <1>11. d.infos[c].other # d.infos[c].parent
    <2>1. New(f) \in Nat /\ f.infos[c].parent \in 1 .. New(f)
      BY <1>5, <1>6, KnownLen DEF Whole, Reads
    <2> QED  BY <1>8, <2>1
  <1>12. Fed(d, c)
    BY <1>5, <1>8, FollowsWhole DEF Fed, Attached
  <1> QED  BY <1>3, <1>4, <1>8, <1>9, <1>10, <1>11, <1>12 DEF SetKnown, Attached

\* The info that join and co_group allocate.
PairInfo(ident, cls, types, k1, k2) ==
    [Info(ident, cls, 0, NoFun, types) EXCEPT !.key1 = k1, !.key2 = k2]

LEMMA LooseAllocated ==
    ASSUME NEW e, Whole(e), NEW ident \in Dual, NEW cls \in Classes, NEW types, NEW k1, NEW k2, NEW c,
           c = New(e) + 1
    PROVE  LET d == Allocate(e, PairInfo(ident, cls, types, k1, k2)) IN
           /\ Extends(e, d) /\ Loose(d, c) /\ New(d) = c
           /\ \A i : i # c /\ Missing(d, i) => Missing(e, i)
  <1>1. PICK v : v = Info(ident, cls, 0, NoFun, types)
    OBVIOUS
  <1>2. PICK u : u = InfoField(v, "key1", k1)
    OBVIOUS
  <1>3. PICK w : w = InfoField(u, "key2", k2)
    OBVIOUS
  <1>4. PICK d : d = Allocate(e, w)
    OBVIOUS
  <1>5. d = Allocate(e, PairInfo(ident, cls, types, k1, k2))
    BY <1>1, <1>2, <1>3, <1>4, Zenon DEF InfoField, PairInfo
  <1>6. /\ Typed(e) /\ Sane(e) /\ New(e) \in Nat /\ 0 \in 0 .. New(e) /\ ident \in Identifiers
        /\ e.sets \in Seq(1 .. New(e)) /\ e.sources \in Seq(1 .. New(e))
    BY KnownLen, DualKinds DEF Whole, Typed
  <1>6a. Suits(ident, cls, NoFun) /\ ident \notin {"groupby", "sort"}
    BY DualKinds, SetSuits
  <1>7. Brand(v, New(e) + 1, ident, 0, 0)
    BY <1>1, <1>6, <1>6a, InfoBrand
  <1>8. Brand(u, New(e) + 1, ident, 0, 0)
    BY <1>2, <1>7, BrandField DEF Plain
  <1>9. Brand(w, New(e) + 1, ident, 0, 0)
    BY <1>3, <1>8, BrandField DEF Plain
  <1>10. Fresh(w, New(e) + 1) /\ GroupFit(e, w, New(e) + 1)
    BY <1>6a, <1>9, NoGroupFit DEF Brand
  <1>11. Typed(d) /\ Added(e, d, w)
    BY <1>4, <1>6, <1>10, AllocateStep
  <1>12. Sane(d) /\ (Building(e) => Building(d))
    BY <1>6, <1>10, <1>11, AllocateSane, AllocateBuilding
  <1>13. /\ Extends(e, d) /\ New(d) \in 1 .. New(d)
         /\ \A i : i # New(d) /\ Missing(d, i) => Missing(e, i)
    BY <1>11, <1>12, AddedExtends
  <1>14. New(d) = c /\ c \in 1 .. New(d) /\ d.infos[c].identifier = ident /\ d.sets = e.sets
         /\ d.sources = e.sources
    BY <1>6, <1>9, <1>11 DEF Added, Brand
  <1>15. ~Contains(e.sets, c) /\ ~Contains(e.sources, c)
    BY <1>6, ContainsIn
  <1> QED  BY <1>5, <1>13, <1>14, <1>15 DEF Loose, Sent

LEMMA JoinFollows ==
    ASSUME NEW e, Whole(e), NEW a \in 1 .. New(e), NEW b \in 1 .. New(e), Sent(e, a), Sent(e, b),
           NEW k1, NEW k2
    PROVE  Follows(e, Join(e, a, b, "join", k1, k2))
  <1>1. PICK c : c = New(e) + 1
    OBVIOUS
  <1>u. PICK u : u = Upto(Len(k1))
    OBVIOUS
  <1>v. PICK v : v = Upto(Len(k2))
    OBVIOUS
  <1>2. PICK f : f = Allocate(e, PairInfo("join", "pair", NoType, u, v))
    OBVIOUS
  <1>3. PICK g : g = EqualTo(Where(f, c, a, k1), c, b, k2)
    OBVIOUS
  <1>4. PICK h : h = Enlist(g, c)
    OBVIOUS
  <1>5. PICK d : d = Number(h, c)
    OBVIOUS
  <1>6. Join(e, a, b, "join", k1, k2) = d
    BY <1>u, <1>v, <1>1, <1>2, <1>3, <1>4, <1>5, Zenon DEF Join, PairInfo
  <1>7. "join" \in Dual /\ "pair" \in Classes
    BY DualKinds DEF Classes
  <1>8. /\ Extends(e, f) /\ Loose(f, c) /\ New(f) = c
        /\ \A i : i # c /\ Missing(f, i) => Missing(e, i)
    BY <1>1, <1>2, <1>7, LooseAllocated
  <1>9. Typed(e) /\ New(e) \in Nat
    BY KnownLen DEF Whole
  <1>10. a \in 1 .. New(f) /\ b \in 1 .. New(f) /\ Whole(f) /\ Sent(f, a) /\ Sent(f, b)
    BY <1>1, <1>8, <1>9 DEF Extends
  <1>11. Follows(f, g) /\ Loose(g, c) /\ SetKnown(g, c) /\ Fed(g, c)
    BY <1>3, <1>8, <1>10, BothAttached
  <1>12. /\ Typed(g) /\ Sane(g) /\ Numbered(g) /\ c \in 1 .. New(g) /\ ~Contains(g.sets, c)
         /\ g.infos[c].identifier \in Dual
    BY <1>11, FollowsWhole DEF Whole, Loose, Sent
  <1>12a. g.infos[c].identifier \in SetKinds /\ g.infos[c].identifier \notin Chainable
    BY <1>12, DualKinds
  <1>13. Sane(h)
    BY <1>4, <1>11, <1>12, <1>12a, EnlistSane
  <1>14. /\ Typed(h) /\ New(h) = New(g) /\ h.infos = g.infos /\ h.sets = Append(g.sets, c)
         /\ h.sources = g.sources
    BY <1>4, <1>12, EnlistStep
  <1>15. c \in 1 .. New(h)
    BY <1>12, <1>14
  <1>16. Typed(d) /\ Renumbered(h, d, c)
    BY <1>5, <1>14, <1>15, NumberStep
  <1>17. Sane(d)
    BY <1>13, <1>14, <1>15, <1>16, NumberSane
  <1>18. /\ Numbered(d) /\ Sent(d, c) /\ \A i : Sent(g, i) => Sent(d, i)
    <2>1. PICK l : l = g.sets
      OBVIOUS
    <2>2. PICK T : T = 1 .. New(g)
      OBVIOUS
    <2>3. l \in Seq(T) /\ c \in T
      BY <1>12, <2>1, <2>2 DEF Typed
    <2>4. \A y : Contains(Append(l, c), y) <=> (Contains(l, y) \/ y = c)
      BY <2>3, ContainsAppend
    <2>5. h.counter \in Nat
      BY <1>14 DEF Typed
    <2>6. Numbered(d)
      BY <1>12, <1>14, <1>16, <2>1, <2>4, <2>5 DEF Numbered, Renumbered
    <2>7. Sent(d, c) /\ \A i : Sent(g, i) => Sent(d, i)
      BY <1>14, <1>16, <2>1, <2>4 DEF Sent, Renumbered
    <2> QED  BY <2>6, <2>7
  <1>19. Follows(g, d)
    <2>1. New(g) \in Nat
      BY <1>12, KnownLen
    <2>2. Building(g) => Building(d)
      <3>1. Building(g) => Building(h)
        BY <1>14 DEF Building, GroupFit
      <3> QED  BY <1>16, <3>1, NumberBuilding
    <2>3. \A i : Missing(d, i) => Missing(g, i)
      BY <1>14, <1>16, <1>18 DEF Missing, Renumbered
    <2> QED  BY <1>14, <1>16, <1>17, <1>18, <2>1, <2>2, <2>3 DEF Follows, Extends, Whole, Renumbered
  <1>20. Follows(f, d)
    BY <1>10, <1>11, <1>19, FollowsAgain DEF Whole
  <1> QED  BY <1>6, <1>8, <1>9, <1>18, <1>20, AllListed

\* A call that changes nothing but what fields say.
LEMMA UnlinkedFollows ==
    ASSUME NEW e, Whole(e), NEW i, NEW f \in Unlinked, NEW v,
           i \in 1 .. New(e) => ClassOK(InfoField(e.infos[i], f, v))
    PROVE  LET d == WithField(e, i, f, v) IN
           Follows(e, d) /\ New(d) = New(e) /\ Whole(d) /\ Keeps(e, d)
  <1>1. PICK d : d = WithField(e, i, f, v)
    OBVIOUS
  <1>2. Typed(d) /\ Keeps(e, d)
    BY <1>1, UnlinkedStep DEF Whole
  <1>3. Follows(e, d)
    BY <1>2, KeepsFollows
  <1> QED  BY <1>1, <1>2, <1>3, FollowsWhole DEF Keeps

\* What no source is may get a function and become another kind of set.
LEMMA SetChanges ==
    ASSUME NEW v, DOMAIN v = Fields, ClassOK(v), v.identifier \in SetKinds, NEW u
    PROVE  /\ ClassOK(InfoField(v, "operator", u))
           /\ u \in Classes => ClassOK(InfoField(v, "cls", u))
  <1>1. PICK w : w = InfoField(v, "operator", u)
    OBVIOUS
  <1>2. w.identifier = v.identifier /\ w.cls = v.cls
    BY <1>1 DEF InfoField, Fields
  <1>3. ClassOK(w)
    BY <1>2 DEF ClassOK, SetKinds
  <1>4. PICK z : z = InfoField(v, "cls", u)
    OBVIOUS
  <1>5. z.identifier = v.identifier /\ z.cls = u
    BY <1>4 DEF InfoField, Fields
  <1>6. u \in Classes => ClassOK(z)
    BY <1>5 DEF ClassOK, SetKinds, Classes
  <1> QED  BY <1>1, <1>3, <1>4, <1>6

LEMMA CoGroupFollows ==
    ASSUME NEW e, Whole(e), NEW a \in 1 .. New(e), NEW b \in 1 .. New(e), Sent(e, a), Sent(e, b),
           NEW k1, NEW k2
    PROVE  Follows(e, CoGroup(e, a, b, k1, k2))
  <1>1. PICK c : c = New(e) + 1
    OBVIOUS
  <1>u. PICK u : u = Upto(Len(k1))
    OBVIOUS
  <1>v. PICK v : v = Upto(Len(k2))
    OBVIOUS
  <1>2. PICK f : f = Allocate(e, PairInfo("cogroup", "op", ArrayType, u, v))
    OBVIOUS
  <1>2a. PICK f2 : f2 = Adopt(f, b, c)
    OBVIOUS
  <1>3. PICK g : g = EqualTo(Where(f2, c, a, k1), c, b, k2)
    OBVIOUS
  <1>4. PICK h : h = Number(g, c)
    OBVIOUS
  <1>5. PICK i : i = WithField(h, c, "operator", <<"udf", c>>)
    OBVIOUS
  <1>6. CoGroup(e, a, b, k1, k2) = Enlist(i, c)
    BY <1>u, <1>v, <1>1, <1>2, <1>2a, <1>3, <1>4, <1>5, Zenon DEF CoGroup, WithField, PairInfo
  <1>7. "cogroup" \in Dual /\ "op" \in Classes
    BY DualKinds DEF Classes
  <1>8. /\ Extends(e, f) /\ Loose(f, c) /\ New(f) = c
        /\ \A j : j # c /\ Missing(f, j) => Missing(e, j)
    BY <1>1, <1>2, <1>7, LooseAllocated
  <1>9. Typed(e) /\ New(e) \in Nat
    BY KnownLen DEF Whole
  <1>10. /\ a \in 1 .. New(f) /\ b \in 1 .. New(f) /\ Whole(f) /\ Typed(f)
         /\ Sent(f, a) /\ Sent(f, b) /\ c \in 1 .. New(f) /\ MayRead(f, b, c)
    BY <1>1, <1>8, <1>9, DualKinds DEF Extends, Whole, Loose, MayRead
  <1>11. Typed(f2) /\ Keeps(f, f2)
    BY <1>2a, <1>10, AdoptKeeps
  <1>12. /\ Follows(f, f2) /\ Loose(f2, c) /\ Whole(f2) /\ a \in 1 .. New(f2) /\ b \in 1 .. New(f2)
         /\ Sent(f2, a) /\ Sent(f2, b)
    <2>1. Follows(f, f2)
      BY <1>10, <1>11, KeepsFollows
    <2> QED  BY <1>8, <1>10, <1>11, <2>1, FollowsWhole DEF Keeps, Loose, Same, Sent
  <1>13. Follows(f2, g) /\ Loose(g, c) /\ SetKnown(g, c) /\ Fed(g, c)
    BY <1>3, <1>12, BothAttached
  <1>14. Whole(g) /\ c \in 1 .. New(g) /\ g.counter \in Nat
    BY <1>13, FollowsWhole DEF Loose, Typed
  <1>15. Follows(g, h) /\ Renumbered(g, h, c)
    BY <1>4, <1>14, NumberFollows
  <1>16. Typed(h) /\ Whole(h) /\ c \in 1 .. New(h) /\ h.infos[c].identifier \in Dual
    BY <1>13, <1>14, <1>15, FollowsWhole DEF Renumbered, Loose
  <1>17. Follows(h, i) /\ Keeps(h, i)
    <2>1. PICK w : w = h.infos[c]
      OBVIOUS
    <2>2. DOMAIN w = Fields /\ ClassOK(w) /\ w.identifier \in SetKinds
      BY <1>16, <2>1, DualKinds DEF Typed, InfoOK
    <2>3. ClassOK(InfoField(w, "operator", <<"udf", c>>))
      BY <2>2, SetChanges
    <2> QED  BY <1>5, <1>16, <2>1, <2>3, UnlinkedFollows DEF Unlinked
  <1>18. Whole(i)
    BY <1>17, FollowsWhole
  <1>19. /\ c \in 1 .. New(i) /\ ~Contains(i.sets, c) /\ i.infos[c].identifier \in Dual
         /\ i.infos[c].id # -1
    BY <1>13, <1>14, <1>15, <1>17 DEF Loose, Renumbered, Keeps, Same, Sent
  <1>20. SetKnown(i, c) /\ Fed(i, c)
    <2>1. ASSUME NEW p PROVE (Reads(g, p, c) => Reads(i, p, c)) /\ (ReadsTwice(g, p, c) => ReadsTwice(i, p, c))
      <3>1. (Reads(g, p, c) => Reads(h, p, c)) /\ (ReadsTwice(g, p, c) => ReadsTwice(h, p, c))
        BY <1>15 DEF Reads, ReadsTwice, Renumbered
      <3>2. CASE p \in 1 .. New(h)
        BY <1>16, <1>17, <3>1, <3>2 DEF Keeps
      <3>3. CASE p \notin 1 .. New(h)
        BY <3>1, <3>3 DEF Reads, ReadsTwice
      <3> QED  BY <3>2, <3>3
    <2>2. i.infos[c].parent = g.infos[c].parent /\ i.infos[c].other = g.infos[c].other
      BY <1>14, <1>15, <1>17 DEF Renumbered, Keeps, Same
    <2>3. \A j : Sent(g, j) => Sent(i, j)
      BY <1>15, <1>17 DEF Sent, Renumbered, Keeps
    <2> QED  BY <1>13, <2>1, <2>2, <2>3 DEF SetKnown, Fed
  <1>21. Follows(i, Enlist(i, c)) /\ Sent(Enlist(i, c), c)
    BY <1>18, <1>19, <1>20, EnlistNumbered
  <1>22. Follows(f, Enlist(i, c))
    <2>1. Follows(f, g)
      BY <1>10, <1>12, <1>13, FollowsAgain
    <2>2. Follows(f, h)
      BY <1>10, <1>15, <2>1, FollowsAgain
    <2>3. Follows(f, i)
      BY <1>10, <1>17, <2>2, FollowsAgain
    <2> QED  BY <1>10, <1>21, <2>3, FollowsAgain
  <1> QED  BY <1>6, <1>8, <1>9, <1>21, <1>22, AllListed

LEMMA UsingFollows ==
    ASSUME NEW e, Whole(e), NEW c \in 1 .. New(e), e.infos[c].cls = "pair"
    PROVE  Follows(e, Using(e, c))
  <1>1. PICK f : f = WithField(e, c, "operator", <<"udf", c>>)
    OBVIOUS
  <1>2. PICK g : g = WithField(f, c, "types", ArrayType)
    OBVIOUS
  <1>3. PICK h : h = WithField(g, c, "cls", "op")
    OBVIOUS
  <1>4. Using(e, c) = Number(h, c)
    BY <1>1, <1>2, <1>3, Zenon DEF Using, WithField
  <1>4a. /\ Typed(e) /\ DOMAIN e.infos[c] = Fields /\ ClassOK(e.infos[c])
         /\ e.infos[c].identifier \in SetKinds
    BY DEF Whole, Typed, InfoOK, ClassOK, SetKinds
  <1>5. Follows(e, f) /\ New(f) = New(e) /\ Whole(f) /\ Keeps(e, f)
    <2>1. PICK w : w = e.infos[c]
      OBVIOUS
    <2>2. ClassOK(InfoField(w, "operator", <<"udf", c>>))
      BY <1>4a, <2>1, SetChanges
    <2> QED  BY <1>1, <2>1, <2>2, UnlinkedFollows DEF Unlinked
  <1>6. Follows(f, g) /\ New(g) = New(f) /\ Whole(g) /\ Keeps(f, g)
    <2>1. Typed(g) /\ Keeps(f, g)
      BY <1>2, <1>5, FieldStep DEF Plain, Whole
    <2> QED  BY <1>5, <2>1, KeepsFollows, FollowsWhole DEF Keeps
  <1>7. Follows(g, h) /\ New(h) = New(g) /\ Whole(h)
    <2>1. PICK w : w = g.infos[c]
      OBVIOUS
    <2>2. c \in 1 .. New(f) /\ c \in 1 .. New(g)
      BY <1>5, <1>6
    <2>3. w.identifier = e.infos[c].identifier
      BY <1>5, <1>6, <2>1, <2>2 DEF Keeps, Same
    <2>4. DOMAIN w = Fields /\ ClassOK(w) /\ w.identifier \in SetKinds
      BY <1>4a, <1>6, <2>1, <2>2, <2>3 DEF Whole, Typed, InfoOK
    <2>5. ClassOK(InfoField(w, "cls", "op"))
      BY <2>4, SetChanges DEF Classes
    <2> QED  BY <1>3, <1>6, <2>1, <2>5, UnlinkedFollows DEF Unlinked
  <1>8. c \in 1 .. New(h)
    BY <1>5, <1>6, <1>7
  <1>9. Follows(h, Number(h, c))
    BY <1>7, <1>8, NumberFollows
  <1>11. Follows(e, g)
    BY <1>4a, <1>5, <1>6, FollowsAgain
  <1>12. Follows(e, h)
    BY <1>4a, <1>7, <1>11, FollowsAgain
  <1> QED  BY <1>4, <1>4a, <1>9, <1>12, FollowsAgain

LEMMA AndAggFollows ==
    ASSUME NEW e, Whole(e), NEW s \in 1 .. New(e), e.infos[s].cls = "agg"
    PROVE  Follows(e, AndAgg(e, s))
  <1>1. PICK v : v = <<"agg", e.infos[s].operator[2] + 1>>
    OBVIOUS
  <1>2. AndAgg(e, s) = WithField(e, s, "operator", v)
    BY <1>1, Zenon DEF AndAgg, WithField
  <1>3. PICK w : w = e.infos[s]
    OBVIOUS
  <1>4. DOMAIN w = Fields /\ ClassOK(w) /\ w.identifier \in SetKinds
    BY <1>3 DEF Whole, Typed, InfoOK, ClassOK, SetKinds
  <1>5. ClassOK(InfoField(w, "operator", v))
    BY <1>4, SetChanges
  <1> QED  BY <1>2, <1>3, <1>5, UnlinkedFollows DEF Unlinked

-----------------------------------------------------------------------------
(* Groupings.                                                              *)

LEMMA FunSeq ==
    ASSUME NEW n \in Nat, NEW S, NEW s \in [1 .. n -> S]
    PROVE  s \in Seq(S) /\ Len(s) = n
  BY SeqDef, LenProperties

\* All infos replaced.
Numbers(s, n) == s = [i \in 1 .. n |-> s[i]]
WithInfos(e, s) == [e EXCEPT !.infos = s]

LEMMA AllInfos ==
    ASSUME NEW e, Typed(e), NEW s, Numbers(s, New(e)),
           \A i \in 1 .. New(e) : InfoOK(s[i], New(e), e.counter)
    PROVE  LET d == WithInfos(e, s) IN
           /\ Typed(d) /\ New(d) = New(e) /\ d.infos = s /\ d.counter = e.counter
           /\ d.sources = e.sources /\ d.sets = e.sets /\ d.sinks = e.sinks
           /\ d.broadcast = e.broadcast
  <1>1. PICK n : n = New(e)
    OBVIOUS
  <1>2. n \in Nat
    BY <1>1, KnownLen
  <1>3. PICK S : S = {s[i] : i \in 1 .. n}
    OBVIOUS
  <1>4. s \in [1 .. n -> S]
    BY <1>1, <1>3 DEF Numbers
  <1>5. s \in Seq(S) /\ Len(s) = n
    BY <1>2, <1>4, FunSeq
  <1>6. SomeSeq(s)
    BY <1>5 DEF SomeSeq
  <1>. DEFINE d == WithInfos(e, s)
  <1>7. /\ d.infos = s /\ d.counter = e.counter /\ d.sources = e.sources /\ d.sets = e.sets
        /\ d.sinks = e.sinks /\ d.broadcast = e.broadcast /\ DOMAIN d = EnvFields
    BY DEF Typed, EnvFields, WithInfos
  <1>. HIDE DEF d
  <1>8. New(d) = n
    BY <1>5, <1>7 DEF New
  <1>9. Typed(d)
    BY <1>1, <1>6, <1>7, <1>8 DEF Typed
  <1> QED  BY <1>1, <1>7, <1>8, <1>9 DEF d

LEMMA GroupByFollows ==
    ASSUME NEW e, Whole(e), NEW s \in 1 .. New(e), Sent(e, s), NEW keys
    PROVE  Follows(e, GroupBy(e, s, keys))
  <1>1. PICK m : m = Map(e, s, <<"identity">>, "hidden")
    OBVIOUS
  <1>2. PICK n : n = New(m)
    OBVIOUS
  <1>3. PICK c : c = n + 1
    OBVIOUS
  <1>4. PICK v : v = Info("groupby", "grouping", n, NoFun, NoType)
    OBVIOUS
  <1>5. PICK u : u = InfoField(v, "keys", keys)
    OBVIOUS
  <1>6. PICK t : t = InfoField(u, "group", c)
    OBVIOUS
  <1>7. PICK w : w = InfoField(t, "asked", keys)
    OBVIOUS
  <1>8. GroupBy(e, s, keys) = Below(m, n, w)
    BY <1>1, <1>2, <1>3, <1>4, <1>5, <1>6, <1>7, Zenon DEF GroupBy, InfoField
  <1>9. Grown(e, m) /\ m.infos[n].identifier = "map"
    <2>1. "hidden" \in Classes
      BY DEF Classes
    <2>2. Grown(e, m) /\ m.infos[New(e) + 1].identifier = "map"
      BY <1>1, <2>1, MapGrows DEF Whole
    <2> QED  BY <1>2, <2>2 DEF Grown
  <1>10. Follows(e, m) /\ n \in 1 .. n /\ Sent(m, n)
    BY <1>2, <1>9, GrownFollows
  <1>11. Typed(m) /\ Sane(m) /\ Whole(m) /\ n \in 0 .. n /\ n \in Nat /\ c \in 0 .. c
    BY <1>2, <1>3, <1>10, FollowsWhole, KnownLen
  <1>12. "groupby" \in SetKinds /\ "groupby" \in Identifiers /\ Suits("groupby", "grouping", NoFun)
    BY SetKindsAre, SetSuits DEF SetKinds
  <1>13. Brand(v, New(m) + 1, "groupby", n, 0)
    BY <1>2, <1>4, <1>11, <1>12, InfoBrand
  <1>14. Brand(v, c, "groupby", n, 0)
    BY <1>2, <1>3, <1>13
  <1>15. Brand(u, c, "groupby", n, 0)
    BY <1>5, <1>14, BrandField DEF Plain
  <1>16. Brand(t, c, "groupby", n, 0) /\ t.group = c
    BY <1>6, <1>11, <1>15, BrandGroup
  <1>17. Brand(w, c, "groupby", n, 0) /\ w.group = c
    BY <1>7, <1>16, BrandField DEF Plain
  <1>18. Brand(w, New(m) + 1, "groupby", n, 0) /\ n \in 1 .. New(m)
    BY <1>2, <1>3, <1>10, <1>17
  <1>18a. GroupFit(m, w, New(m) + 1)
    <2>1. w.identifier = "groupby" /\ w.parent = n
      BY <1>17 DEF Brand
    <2>2. "map" \in SetKinds
      BY SetKindsAre
    <2> QED  BY <1>2, <1>3, <1>9, <1>17, <1>18, <2>1, <2>2 DEF GroupFit
  <1>19. Grown(m, Below(m, n, w))
    BY <1>10, <1>11, <1>12, <1>18, <1>18a, BelowStep
  <1>20. Follows(m, Below(m, n, w))
    BY <1>11, <1>19, GrownFollows
  <1> QED  BY <1>8, <1>10, <1>20, FollowsAgain DEF Whole

\* The pre-step of grouping g, and the grouping that a grouping g is or sorts.
PreFit(e, g) == /\ e.infos[g].parent \in 1 .. New(e)
                /\ e.infos[e.infos[g].parent].identifier \in SetKinds

LEMMA RootFound ==
    ASSUME NEW e, Typed(e), Building(e), NEW g \in 1 .. New(e), e.infos[g].cls = "grouping"
    PROVE  /\ e.infos[g].group \in 1 .. New(e)
           /\ e.infos[e.infos[g].group].identifier = "groupby" /\ PreFit(e, e.infos[g].group)
           /\ e.infos[g].identifier = "groupby" => PreFit(e, g)
  <1>1. e.infos[g].identifier \in {"groupby", "sort"}
    BY DEF Typed, InfoOK, ClassOK
  <1>2. ASSUME NEW i \in 1 .. New(e), e.infos[i].identifier = "groupby"
        PROVE  PreFit(e, i) /\ e.infos[i].group = i
    BY <1>2 DEF Building, GroupFit, PreFit
  <1>3. CASE e.infos[g].identifier = "groupby"
    BY <1>2, <1>3
  <1>4. CASE e.infos[g].identifier = "sort"
    <2>1. PICK q : q = e.infos[g].group
      OBVIOUS
    <2>2. q \in 1 .. New(e) /\ e.infos[q].identifier = "groupby"
      BY <1>4, <2>1 DEF Building, GroupFit
    <2> QED  BY <1>2, <1>4, <2>1, <2>2
  <1> QED  BY <1>1, <1>3, <1>4

\* A sort is added to those of its root.
SortBelow(e, root, n) == [e EXCEPT !.infos[root].sorts = Append(@, n)]

LEMMA SortStep ==
    ASSUME NEW e, Typed(e), NEW root, NEW n \in 1 .. New(e)
    PROVE  LET d == SortBelow(e, root, n) IN Typed(d) /\ Keeps(e, d)
  <1>1. PICK l : l = e.infos[root].sorts
    OBVIOUS
  <1>2. PICK k : k = Append(l, n)
    OBVIOUS
  <1>3. PICK w : w = [e.infos[root] EXCEPT !.sorts = k]
    OBVIOUS
  <1>4. PICK s : s = Put(e.infos, root, w)
    OBVIOUS
  <1>5. PICK d : d = [e EXCEPT !.infos = s]
    OBVIOUS
  <1>6. SortBelow(e, root, n) = d
    BY <1>1, <1>2, <1>3, <1>4, <1>5, Zenon DEF SortBelow, Put
  <1>7. SomeSeq(e.infos) /\ New(e) = Len(e.infos)
    BY DEF Typed, New
  <1>8. /\ SomeSeq(s) /\ Len(s) = Len(e.infos)
        /\ root \in 1 .. Len(e.infos) => s[root] = w
        /\ \A j \in 1 .. Len(e.infos) : j # root => s[j] = e.infos[j]
    <2>1. SomeSeq(e.infos)
      BY <1>7
    <2> QED  BY <1>4, <2>1, SomeSeqPut
  <1>9. ASSUME root \in 1 .. New(e)
        PROVE  /\ InfoOK(w, New(e), e.counter) /\ Same(e.infos[root], w)
               /\ w.children = e.infos[root].children
    <2>1. InfoOK(e.infos[root], New(e), e.counter)
      BY <1>9 DEF Typed
    <2>2. l \in Seq(1 .. New(e))
      BY <1>1, <2>1 DEF InfoOK
    <2>3. k \in Seq(1 .. New(e))
      BY <1>2, <2>2, AppendProperties
    <2>4. /\ w.identifier = e.infos[root].identifier /\ w.id = e.infos[root].id
          /\ w.parent = e.infos[root].parent /\ w.other = e.infos[root].other
          /\ w.chained = e.infos[root].chained /\ w.group = e.infos[root].group
          /\ w.sinks = e.infos[root].sinks /\ w.bcvars = e.infos[root].bcvars
          /\ w.children = e.infos[root].children /\ w.sorts = k /\ DOMAIN w = Fields
          /\ w.cls = e.infos[root].cls /\ w.operator = e.infos[root].operator
      BY <1>3, <2>1 DEF InfoOK, Fields
    <2> QED  BY <2>1, <2>3, <2>4 DEF InfoOK, Same, ClassOK
  <1>10. /\ d.infos = s /\ d.counter = e.counter /\ d.sources = e.sources /\ d.sets = e.sets
         /\ d.sinks = e.sinks /\ d.broadcast = e.broadcast /\ DOMAIN d = EnvFields
    BY <1>5 DEF Typed, EnvFields
  <1>11. New(d) = New(e)
    BY <1>7, <1>8, <1>10 DEF New
  <1>12. ASSUME NEW j \in 1 .. New(e)
         PROVE  /\ InfoOK(d.infos[j], New(e), e.counter) /\ Same(e.infos[j], d.infos[j])
                /\ d.infos[j].children = e.infos[j].children
    <2>1. CASE j = root
      <3>1. d.infos[j] = w
        BY <1>7, <1>8, <1>10, <2>1
      <3> QED  BY <1>9, <2>1, <3>1
    <2>2. CASE j # root
      <3>1. d.infos[j] = e.infos[j]
        BY <1>7, <1>8, <1>10, <2>2
      <3> QED  BY <3>1 DEF Typed, Same
    <2> QED  BY <2>1, <2>2
  <1>13. Typed(d)
    BY <1>8, <1>10, <1>11, <1>12 DEF Typed
  <1>14. Keeps(e, d)
    BY <1>10, <1>11, <1>12 DEF Keeps, Reads, ReadsTwice
  <1> QED  BY <1>6, <1>13, <1>14

LEMMA SortGroupFollows ==
    ASSUME NEW e, Whole(e), Building(e), NEW g \in 1 .. New(e), Sent(e, g),
           e.infos[g].cls = "grouping", NEW f
    PROVE  Follows(e, SortGroup(e, g, f))
  <1>1. PICK root : root = e.infos[g].group
    OBVIOUS
  <1>2. PICK v : v = Info("sort", "grouping", g, NoFun, NoType)
    OBVIOUS
  <1>3. PICK u : u = InfoField(v, "field", f)
    OBVIOUS
  <1>4. PICK t : t = InfoField(u, "group", root)
    OBVIOUS
  <1>5. PICK w : w = InfoField(t, "asked", <<f>>)
    OBVIOUS
  <1>6. PICK e1 : e1 = Below(e, g, w)
    OBVIOUS
  <1>7. PICK n : n = New(e1)
    OBVIOUS
  <1>8. SortGroup(e, g, f) = SortBelow(e1, root, n)
    BY <1>1, <1>2, <1>3, <1>4, <1>5, <1>6, <1>7, Zenon DEF SortGroup, SortBelow, InfoField
  <1>9. Typed(e) /\ Sane(e) /\ New(e) \in Nat /\ g \in 0 .. New(e)
    BY KnownLen DEF Whole
  <1>10. /\ root \in 0 .. New(e) + 1 /\ root \in 1 .. New(e)
         /\ e.infos[root].identifier = "groupby"
    <2>1. root \in 1 .. New(e) /\ e.infos[root].identifier = "groupby"
      BY <1>1, <1>9, RootFound
    <2> QED  BY <1>9, <2>1
  <1>11. "sort" \in SetKinds /\ "sort" \in Identifiers /\ Suits("sort", "grouping", NoFun)
    BY SetKindsAre, SetSuits DEF SetKinds
  <1>12. Brand(v, New(e) + 1, "sort", g, 0)
    BY <1>2, <1>9, <1>11, InfoBrand
  <1>13. Brand(u, New(e) + 1, "sort", g, 0)
    BY <1>3, <1>12, BrandField DEF Plain
  <1>14. Brand(t, New(e) + 1, "sort", g, 0) /\ t.group = root
    BY <1>4, <1>10, <1>13, BrandGroup
  <1>15. Brand(w, New(e) + 1, "sort", g, 0) /\ w.group = root
    BY <1>5, <1>14, BrandField DEF Plain
  <1>15a. GroupFit(e, w, New(e) + 1)
    <2>1. w.identifier = "sort"
      BY <1>15 DEF Brand
    <2> QED  BY <1>10, <1>15, <2>1 DEF GroupFit
  <1>16. Grown(e, e1)
    BY <1>6, <1>9, <1>11, <1>15, <1>15a, BelowStep
  <1>17. Follows(e, e1) /\ n \in 1 .. New(e1)
    BY <1>7, <1>16, GrownFollows
  <1>18. Typed(e1) /\ Whole(e1)
    BY <1>17, FollowsWhole
  <1>19. Typed(SortBelow(e1, root, n)) /\ Keeps(e1, SortBelow(e1, root, n))
    BY <1>17, <1>18, SortStep
  <1>20. Follows(e1, SortBelow(e1, root, n))
    BY <1>18, <1>19, KeepsFollows
  <1> QED  BY <1>8, <1>9, <1>17, <1>20, FollowsAgain

LEMMA RekeyKeeps ==
    ASSUME NEW e, Typed(e), NEW g, NEW fs, NEW n, NEW ks, PreFit(e, g)
    PROVE  Typed(Rekey(e, g, fs, n, ks)) /\ Keeps(e, Rekey(e, g, fs, n, ks))
  <1>1. PICK pre : pre = e.infos[g].parent
    OBVIOUS
  <1>2. PICK d1 : d1 = WithField(e, pre, "operator", Extract(fs))
    OBVIOUS
  <1>3. PICK d2 : d2 = WithField(d1, pre, "types", KeyValueType(n))
    OBVIOUS
  <1>4. PICK d3 : d3 = WithField(d2, g, "keys", ks)
    OBVIOUS
  <1>5. PICK k : k = e.infos[g].finals + 1
    OBVIOUS
  <1>6. PICK d : d = WithField(d3, g, "finals", k)
    OBVIOUS
  <1>7. Rekey(e, g, fs, n, ks) = d
    BY <1>1, <1>2, <1>3, <1>4, <1>5, <1>6, Zenon DEF Rekey, WithField
  <1>8. Typed(d1) /\ Keeps(e, d1)
    <2>1. PICK v : v = e.infos[pre]
      OBVIOUS
    <2>2. pre \in 1 .. New(e) /\ v.identifier \in SetKinds
      BY <1>1, <2>1 DEF PreFit
    <2>3. DOMAIN v = Fields /\ ClassOK(v)
      BY <2>1, <2>2 DEF Typed, InfoOK
    <2>4. ClassOK(InfoField(v, "operator", Extract(fs)))
      BY <2>2, <2>3, SetChanges
    <2> QED  BY <1>2, <2>1, <2>4, UnlinkedStep DEF Unlinked
  <1>9. Typed(d2) /\ Keeps(d1, d2)
    BY <1>3, <1>8, FieldStep DEF Plain
  <1>10. Typed(d3) /\ Keeps(d2, d3)
    BY <1>4, <1>9, FieldStep DEF Plain
  <1>11. Typed(d) /\ Keeps(d3, d)
    BY <1>6, <1>10, FieldStep DEF Plain
  <1>12. Keeps(e, d2)
    BY <1>8, <1>9, KeepsAgain
  <1>13. Keeps(e, d3)
    BY <1>10, <1>12, KeepsAgain
  <1> QED  BY <1>7, <1>11, <1>13, KeepsAgain

\* The sorts of g get new fields.
Refield(e, d, g) ==
    [d EXCEPT !.infos = [i \in Known(d) |->
        IF Contains(e.infos[g].sorts, i)
        THEN [d.infos[i] EXCEPT !.field = NewField(e, g, i), !.finals = @ + 1]
        ELSE d.infos[i]]]

LEMMA RefieldKeeps ==
    ASSUME NEW e, NEW d, Typed(d), NEW g
    PROVE  Typed(Refield(e, d, g)) /\ Keeps(d, Refield(e, d, g))
  <1>1. PICK t : t = d.infos
    OBVIOUS
  <1>2. PICK s : s = [i \in Known(d) |->
        IF Contains(e.infos[g].sorts, i)
        THEN [t[i] EXCEPT !.field = NewField(e, g, i), !.finals = @ + 1] ELSE t[i]]
    OBVIOUS
  <1>3. PICK r : r = WithInfos(d, s)
    OBVIOUS
  <1>4. Refield(e, d, g) = r
    BY <1>1, <1>2, <1>3, Zenon DEF Refield, WithInfos
  <1>5. Known(d) = 1 .. New(d) /\ New(d) \in Nat
    BY KnownLen
  <1>6. ASSUME NEW i \in 1 .. New(d)
        PROVE  /\ InfoOK(s[i], New(d), d.counter) /\ Same(t[i], s[i])
               /\ s[i].children = t[i].children
    <2>1. InfoOK(t[i], New(d), d.counter)
      BY <1>1 DEF Typed
    <2>2. PICK f : f = NewField(e, g, i)
      OBVIOUS
    <2>3. PICK w : w = [t[i] EXCEPT !.field = f, !.finals = @ + 1]
      OBVIOUS
    <2>4. s[i] = w \/ s[i] = t[i]
      BY <1>2, <1>5, <2>2, <2>3, Zenon
    <2>5. /\ w.identifier = t[i].identifier /\ w.id = t[i].id
          /\ w.parent = t[i].parent /\ w.other = t[i].other
          /\ w.chained = t[i].chained /\ w.group = t[i].group
          /\ w.sinks = t[i].sinks /\ w.bcvars = t[i].bcvars
          /\ w.children = t[i].children /\ w.sorts = t[i].sorts /\ DOMAIN w = Fields
          /\ w.cls = t[i].cls /\ w.operator = t[i].operator
      BY <2>1, <2>3 DEF InfoOK, Fields
    <2>6. InfoOK(w, New(d), d.counter) /\ Same(t[i], w)
      BY <2>1, <2>5 DEF InfoOK, Same, ClassOK
    <2> QED  BY <2>1, <2>4, <2>5, <2>6 DEF Same
  <1>7. Numbers(s, New(d))
    BY <1>2, <1>5 DEF Numbers
  <1>8. /\ Typed(r) /\ New(r) = New(d) /\ r.infos = s /\ r.counter = d.counter
        /\ r.sources = d.sources /\ r.sets = d.sets /\ r.sinks = d.sinks
        /\ r.broadcast = d.broadcast
    <2>1. \A i \in 1 .. New(d) : InfoOK(s[i], New(d), d.counter)
      BY <1>6
    <2> QED  BY <1>3, <1>7, <2>1, AllInfos
  <1>9. Keeps(d, r)
    BY <1>1, <1>6, <1>8 DEF Keeps, Reads, ReadsTwice
  <1> QED  BY <1>4, <1>8, <1>9

LEMMA FinalizeFollows ==
    ASSUME NEW e, Whole(e), Building(e), NEW g \in 1 .. New(e), e.infos[g].cls = "grouping"
    PROVE  Follows(e, Finalize(e, g))
  <1>1. Typed(e)
    BY DEF Whole
  <1>1a. /\ PreFit(e, e.infos[g].group)
         /\ e.infos[g].identifier = "groupby" => PreFit(e, g)
    BY <1>1, RootFound
  <1>2. ASSUME PreFit(e, g)
        PROVE  Typed(FinalizeUnsorted(e, g)) /\ Keeps(e, FinalizeUnsorted(e, g))
    <2>1. PICK fs : fs = IF e.infos[g].keys[1] = Selector THEN <<Selector>> ELSE e.infos[g].keys
      OBVIOUS
    <2>2. PICK n : n = Len(e.infos[g].keys)
      OBVIOUS
    <2>3. PICK ks : ks = Upto(Len(e.infos[g].keys))
      OBVIOUS
    <2>4. FinalizeUnsorted(e, g) = Rekey(e, g, fs, n, ks)
      BY <2>1, <2>2, <2>3, Zenon DEF FinalizeUnsorted
    <2> QED  BY <1>1, <1>2, <2>4, RekeyKeeps
  <1>3. ASSUME NEW r, PreFit(e, r) PROVE Typed(FinalizeSorted(e, r)) /\ Keeps(e, FinalizeSorted(e, r))
    <2>1. PICK used : used = UsedKeys(e, r)
      OBVIOUS
    <2>2. PICK n : n = FirstSort(e, r) + Len(SortFunctions(e, r))
      OBVIOUS
    <2>3. PICK fs : fs = used \o [i \in 1 .. n - Len(used) |-> Selector]
      OBVIOUS
    <2>4. PICK ks : ks = IF ByFunction(e, r) THEN <<Len(used)>>
                ELSE [i \in DOMAIN e.infos[r].keys |-> Position(used, e.infos[r].keys[i])]
      OBVIOUS
    <2>5. PICK d : d = Rekey(e, r, fs, n, ks)
      OBVIOUS
    <2>6. FinalizeSorted(e, r) = Refield(e, d, r)
      BY <2>1, <2>2, <2>3, <2>4, <2>5, ZenonT(60) DEF FinalizeSorted, Refield
    <2>7. Typed(d) /\ Keeps(e, d)
      BY <1>1, <1>3, <2>5, RekeyKeeps
    <2>8. Typed(Refield(e, d, r)) /\ Keeps(d, Refield(e, d, r))
      BY <2>7, RefieldKeeps
    <2> QED  BY <2>6, <2>7, <2>8, KeepsAgain
  <1>4. PICK d : d = Finalize(e, g)
    OBVIOUS
  <1>5. Typed(d) /\ Keeps(e, d)
    BY <1>1a, <1>2, <1>3, <1>4, Zenon DEF Finalize
  <1> QED  BY <1>4, <1>5, KeepsFollows

LEMMA GroupedBelowFollows ==
    ASSUME NEW e, Whole(e), Building(e), NEW g \in 1 .. New(e), Sent(e, g),
           e.infos[g].cls = "grouping", NEW ident \in {"reduce", "groupreduce"},
           NEW cls \in Classes, NEW op
    PROVE  Follows(e, GroupedBelow(e, g, ident, cls, op))
  <1>1. PICK f : f = Finalize(e, g)
    OBVIOUS
  <1>2. PICK v : v = Info(ident, cls, g, op, ArrayType)
    OBVIOUS
  <1>3. PICK w : w = InfoField(v, "key1", f.infos[f.infos[g].group].keys)
    OBVIOUS
  <1>4. GroupedBelow(e, g, ident, cls, op) = Below(f, g, w)
    BY <1>1, <1>2, <1>3, Zenon DEF GroupedBelow, InfoField
  <1>5. Follows(e, f) /\ Typed(e) /\ New(e) \in Nat
    BY <1>1, FinalizeFollows, KnownLen DEF Whole
  <1>6. Whole(f) /\ Typed(f) /\ Sane(f) /\ New(f) \in Nat /\ g \in 1 .. New(f) /\ g \in 0 .. New(f)
        /\ Sent(f, g)
    BY <1>5, FollowsWhole, KnownLen DEF Follows, Extends
  <1>7. /\ ident \in SetKinds /\ ident \in Identifiers /\ Suits(ident, cls, op)
        /\ ident \notin {"groupby", "sort"}
    BY SetKindsAre, SetSuits DEF SetKinds
  <1>8. Brand(v, New(f) + 1, ident, g, 0)
    BY <1>2, <1>6, <1>7, InfoBrand
  <1>9. Brand(w, New(f) + 1, ident, g, 0)
    BY <1>3, <1>8, BrandField DEF Plain
  <1>9a. GroupFit(f, w, New(f) + 1)
    BY <1>7, <1>9, NoGroupFit
  <1>10. Grown(f, Below(f, g, w))
    BY <1>6, <1>7, <1>9, <1>9a, BelowStep
  <1>11. Follows(f, Below(f, g, w))
    BY <1>6, <1>10, GrownFollows
  <1> QED  BY <1>4, <1>5, <1>11, FollowsAgain

LEMMA GroupedFollows ==
    ASSUME NEW e, Whole(e), Building(e), NEW g \in 1 .. New(e), Sent(e, g),
           e.infos[g].cls = "grouping"
    PROVE  /\ Follows(e, GroupFirst(e, g)) /\ Follows(e, GroupReduce(e, g))
           /\ Follows(e, GroupReduceAll(e, g)) /\ Follows(e, GroupAggregate(e, g))
  <1>1. Follows(e, GroupFirst(e, g))
    <2>1. PICK f : f = Finalize(e, g)
      OBVIOUS
    <2>2. PICK d : d = First(f, g)
      OBVIOUS
    <2>3. GroupFirst(e, g) = d
      BY <2>1, <2>2, Zenon DEF GroupFirst, First
    <2>4. Follows(e, f) /\ Typed(e) /\ New(e) \in Nat
      BY <2>1, FinalizeFollows, KnownLen DEF Whole
    <2>5. Whole(f) /\ Typed(f) /\ Sane(f) /\ New(f) \in Nat /\ g \in 1 .. New(f)
          /\ Sent(f, g)
      BY <2>4, FollowsWhole, KnownLen DEF Follows, Extends
    <2>6. Grown(f, d)
      BY <2>2, <2>5, OneInputGrows
    <2>7. Follows(f, d)
      BY <2>5, <2>6, GrownFollows
    <2> QED  BY <2>3, <2>4, <2>7, FollowsAgain
  <1>2. {"op", "agg"} \subseteq Classes
    BY DEF Classes
  <1> QED  BY <1>1, <1>2, GroupedBelowFollows DEF GroupReduce, GroupReduceAll, GroupAggregate

-----------------------------------------------------------------------------
(* Sequences that lose an element.                                         *)

LEMMA LeastNat ==
    ASSUME NEW I, I \subseteq Nat, I # {}
    PROVE  \E m \in I : \A n \in I : m <= n
  <1>1. PICK R : R = OpToRel(<, Nat)
    OBVIOUS
  <1>2. \A m, n \in Nat : <<m, n>> \in R <=> m < n
    BY <1>1 DEF OpToRel
  <1>3. IsWellFoundedOn(R, Nat)
    BY <1>1, NatLessThanWellFounded
  <1>4. PICK m \in I : \A n \in I : ~(<<n, m>> \in R)
    BY <1>3, WFMin
  <1>5. m \in Nat
    BY <1>4
  <1>6. ASSUME NEW n \in I PROVE m <= n
    <2>1. n \in Nat /\ ~(<<n, m>> \in R)
      BY <1>4
    <2>2. ~(n < m)
      BY <1>2, <1>5, <2>1
    <2> QED  BY <1>5, <2>1, <2>2
  <1> QED  BY <1>6

\* Induction, for a set of numbers.
LEMMA NatSetInduction ==
    ASSUME NEW S, 0 \in S, \A n \in Nat : n \in S => n + 1 \in S
    PROVE  \A n \in Nat : n \in S
  <1>1. PICK I : I = Nat \ S
    OBVIOUS
  <1>2. SUFFICES ASSUME I # {} PROVE FALSE
    BY <1>1
  <1>3. I \subseteq Nat
    BY <1>1
  <1>4. PICK m \in I : \A n \in I : m <= n
    BY <1>2, <1>3, LeastNat
  <1>5. m \in Nat /\ m # 0
    BY <1>1, <1>4
  <1>6. m - 1 \in Nat /\ m - 1 \notin I
    BY <1>4, <1>5
  <1>7. m - 1 \in S
    BY <1>1, <1>6
  <1>8. m \in S
    BY <1>5, <1>6, <1>7
  <1> QED  BY <1>1, <1>8

LEMMA RemovesOne ==
    ASSUME NEW S, NEW s \in Seq(S), NEW c, Contains(s, c)
    PROVE  \E k \in 1 .. Len(s) : s[k] = c /\ RemoveFirst(s, c) = RemoveAt(s, k)
  <1>1. PICK I : I = {i \in 1 .. Len(s) : s[i] = c}
    OBVIOUS
  <1>2. Len(s) \in Nat
    BY LenProperties
  <1>3. I # {} /\ I \subseteq Nat
    BY <1>1, <1>2 DEF Contains
  <1>4. \E m \in I : \A n \in I : m <= n
    BY <1>3, LeastNat
  <1>5. PICK k : k = Min(I)
    OBVIOUS
  <1>6. k \in I
    BY <1>4, <1>5 DEF Min
  <1>7. RemoveFirst(s, c) = RemoveAt(s, k)
    BY <1>1, <1>3, <1>5, Zenon DEF RemoveFirst, SelectInSeq, Contains
  <1> QED  BY <1>1, <1>6, <1>7

LEMMA RemovesOnly ==
    ASSUME NEW S, NEW s \in Seq(S), NEW c, Contains(s, c)
    PROVE  /\ RemoveFirst(s, c) \in Seq(S)
           /\ \A y : Contains(s, y) /\ y # c => Contains(RemoveFirst(s, c), y)
           /\ \A y : Contains(RemoveFirst(s, c), y) => Contains(s, y)
           /\ \A y : TwiceIn(s, y) /\ y # c => TwiceIn(RemoveFirst(s, c), y)
  <1>1. PICK k \in 1 .. Len(s) : s[k] = c /\ RemoveFirst(s, c) = RemoveAt(s, k)
    BY RemovesOne
  <1>2. Len(s) \in Nat /\ \A i \in 1 .. Len(s) : s[i] \in S
    BY LenProperties, ElementOfSeq
  <1>3. PICK a : a = SubSeq(s, 1, k - 1)
    OBVIOUS
  <1>4. PICK b : b = SubSeq(s, k + 1, Len(s))
    OBVIOUS
  <1>5. /\ a \in Seq(S) /\ Len(a) = k - 1
        /\ \A i \in 1 .. k - 1 : a[i] = s[i]
    <2>1. \A i \in 1 .. k - 1 : s[i] \in S
      BY <1>1, <1>2
    <2>2. 1 \in Int /\ k - 1 \in Int
      BY <1>1
    <2>3. /\ a \in Seq(S) /\ Len(a) = IF 1 <= k - 1 THEN (k - 1) - 1 + 1 ELSE 0
          /\ \A i \in 1 .. (k - 1) - 1 + 1 : a[i] = s[1 + i - 1]
      BY <1>3, <2>1, <2>2, SubSeqProperties
    <2> QED  BY <1>1, <2>3
  <1>6. /\ b \in Seq(S) /\ Len(b) = Len(s) - k
        /\ \A i \in 1 .. Len(s) - k : b[i] = s[k + i]
    <2>1. \A i \in k + 1 .. Len(s) : s[i] \in S
      BY <1>1, <1>2
    <2>2. k + 1 \in Int /\ Len(s) \in Int
      BY <1>1, <1>2
    <2>3. /\ b \in Seq(S) /\ Len(b) = IF k + 1 <= Len(s) THEN Len(s) - (k + 1) + 1 ELSE 0
          /\ \A i \in 1 .. Len(s) - (k + 1) + 1 : b[i] = s[(k + 1) + i - 1]
      BY <1>4, <2>1, <2>2, SubSeqProperties
    <2>4. \A i \in 1 .. Len(s) - k : (k + 1) + i - 1 = k + i
      BY <1>1, <1>2
    <2> QED  BY <1>1, <1>2, <2>3, <2>4
  <1>7. PICK t : t = RemoveFirst(s, c)
    OBVIOUS
  <1>8. t = a \o b
    BY <1>1, <1>3, <1>4, <1>7 DEF RemoveAt
  <1>9. /\ t \in Seq(S) /\ Len(t) = Len(s) - 1
        /\ \A i \in 1 .. k - 1 : t[i] = s[i]
        /\ \A i \in k .. Len(s) - 1 : t[i] = s[i + 1]
    <2>1. /\ t \in Seq(S) /\ Len(t) = Len(a) + Len(b)
          /\ \A i \in 1 .. Len(a) + Len(b) : t[i] = IF i <= Len(a) THEN a[i] ELSE b[i - Len(a)]
      BY <1>5, <1>6, <1>8, ConcatProperties
    <2>2. Len(a) + Len(b) = Len(s) - 1
      BY <1>1, <1>2, <1>5, <1>6
    <2>3. ASSUME NEW i \in 1 .. k - 1 PROVE t[i] = s[i]
      BY <1>1, <1>2, <1>5, <2>1, <2>2
    <2>4. ASSUME NEW i \in k .. Len(s) - 1 PROVE t[i] = s[i + 1]
      <3>1. i \in 1 .. Len(s) - 1 /\ ~(i <= k - 1) /\ i - (k - 1) \in 1 .. Len(s) - k
        BY <1>1, <1>2
      <3>2. t[i] = b[i - (k - 1)]
        BY <1>5, <2>1, <2>2, <3>1
      <3>3. b[i - (k - 1)] = s[k + (i - (k - 1))]
        BY <1>6, <3>1
      <3>4. k + (i - (k - 1)) = i + 1
        BY <1>1, <1>2
      <3> QED  BY <3>2, <3>3, <3>4
    <2> QED  BY <2>1, <2>2, <2>3, <2>4
  <1>10. ASSUME NEW y, Contains(s, y), y # c PROVE Contains(t, y)
    <2>1. PICK i \in 1 .. Len(s) : s[i] = y
      BY <1>10 DEF Contains
    <2>2. CASE i < k
      <3>1. i \in 1 .. k - 1 /\ i \in 1 .. Len(t)
        BY <1>1, <1>2, <1>9, <2>2
      <3> QED  BY <1>9, <2>1, <3>1 DEF Contains
    <2>3. CASE i > k
      <3>1. i - 1 \in k .. Len(s) - 1 /\ i - 1 \in 1 .. Len(t) /\ (i - 1) + 1 = i
        BY <1>1, <1>2, <1>9, <2>3
      <3>2. t[i - 1] = s[(i - 1) + 1]
        BY <1>9, <3>1
      <3> QED  BY <2>1, <3>1, <3>2 DEF Contains
    <2> QED  BY <1>1, <1>10, <2>1, <2>2, <2>3
  <1>11. ASSUME NEW y, Contains(t, y) PROVE Contains(s, y)
    <2>1. PICK i \in 1 .. Len(t) : t[i] = y
      BY <1>11 DEF Contains
    <2>2. CASE i < k
      <3>1. i \in 1 .. k - 1 /\ i \in 1 .. Len(s)
        BY <1>1, <1>2, <1>9, <2>2
      <3> QED  BY <1>9, <2>1, <3>1 DEF Contains
    <2>3. CASE i >= k
      <3>1. i \in k .. Len(s) - 1 /\ i + 1 \in 1 .. Len(s)
        BY <1>1, <1>2, <1>9, <2>3
      <3> QED  BY <1>9, <2>1, <3>1 DEF Contains
    <2> QED  BY <1>1, <1>2, <2>1, <2>2, <2>3
  <1>12. ASSUME NEW y, TwiceIn(s, y), y # c PROVE TwiceIn(t, y)
    <2>1. PICK i \in 1 .. Len(s), j \in 1 .. Len(s) : i # j /\ s[i] = y /\ s[j] = y
      BY <1>12 DEF TwiceIn
    <2>2. i # k /\ j # k
      BY <1>1, <1>12, <2>1
    <2>3. ASSUME NEW n \in 1 .. Len(s), n # k
          PROVE  LET m == IF n < k THEN n ELSE n - 1 IN m \in 1 .. Len(t) /\ t[m] = s[n]
      <3>1. CASE n < k
        <4>1. n \in 1 .. k - 1 /\ n \in 1 .. Len(t)
          BY <1>1, <1>2, <1>9, <3>1
        <4> QED  BY <1>9, <3>1, <4>1
      <3>2. CASE ~(n < k)
        <4>1. n - 1 \in k .. Len(s) - 1 /\ n - 1 \in 1 .. Len(t) /\ (n - 1) + 1 = n
          BY <1>1, <1>2, <1>9, <2>3, <3>2
        <4>2. t[n - 1] = s[(n - 1) + 1]
          BY <1>9, <4>1
        <4> QED  BY <3>2, <4>1, <4>2
      <3> QED  BY <3>1, <3>2
    <2>4. PICK a1 : a1 = IF i < k THEN i ELSE i - 1
      OBVIOUS
    <2>5. PICK b1 : b1 = IF j < k THEN j ELSE j - 1
      OBVIOUS
    <2>6. a1 \in 1 .. Len(t) /\ t[a1] = y
      BY <2>1, <2>2, <2>3, <2>4
    <2>7. b1 \in 1 .. Len(t) /\ t[b1] = y
      BY <2>1, <2>2, <2>3, <2>5
    <2>8. a1 # b1
      BY <1>1, <1>2, <2>1, <2>2, <2>4, <2>5
    <2> QED  BY <2>6, <2>7, <2>8 DEF TwiceIn
  <1> QED  BY <1>7, <1>9, <1>10, <1>11, <1>12

\* All but position q of s: in the order of s, one position on after q.
LEMMA PickedBut ==
    ASSUME NEW S, NEW s \in Seq(S), NEW q \in 1 .. Len(s)
    PROVE  LET t == Picked(s, 1 .. Len(s) \ {q}) IN
           /\ t \in Seq(S) /\ Len(t) = Len(s) - 1
           /\ \A n \in 1 .. Len(s) - 1 : t[n] = IF n < q THEN s[n] ELSE s[n + 1]
  <1>1. PICK L : L = Len(s)
    OBVIOUS
  <1>2. L \in Nat /\ q \in 1 .. L /\ \A i \in 1 .. L : s[i] \in S
    BY <1>1, LenProperties, ElementOfSeq
  <1>3. PICK I : I = 1 .. L \ {q}
    OBVIOUS
  <1>4. Cardinality(I) = L - 1
    <2>1. IsFiniteSet(1 .. L) /\ Cardinality(1 .. L) = L
      BY <1>2, FS_Interval
    <2> QED  BY <1>2, <1>3, <2>1, FS_RemoveElement
  <1>5. ASSUME NEW i \in I
        PROVE  Cardinality({j \in I : j <= i}) = IF i < q THEN i ELSE i - 1
    <2>1. i \in 1 .. L /\ i # q /\ i \in Nat
      BY <1>2, <1>3, <1>5
    <2>2. {j \in I : j <= i} = (1 .. i) \ {q}
      BY <1>2, <1>3, <2>1
    <2>3. IsFiniteSet(1 .. i) /\ Cardinality(1 .. i) = i
      BY <2>1, FS_Interval
    <2>4. Cardinality((1 .. i) \ {q}) = IF q \in 1 .. i THEN i - 1 ELSE i
      BY <2>3, FS_RemoveElement
    <2>5. q \in 1 .. i <=> ~(i < q)
      BY <1>2, <2>1
    <2> QED  BY <2>2, <2>4, <2>5
  <1>8. ASSUME NEW n \in 1 .. L - 1
        PROVE  (CHOOSE i \in I : Cardinality({j \in I : j <= i}) = n)
                  = IF n < q THEN n ELSE n + 1
    <2>1. PICK k : k = IF n < q THEN n ELSE n + 1
      OBVIOUS
    <2>2. k \in I /\ n = IF k < q THEN k ELSE k - 1
      BY <1>2, <1>3, <2>1
    <2>3. Cardinality({j \in I : j <= k}) = n
      BY <1>5, <2>2
    <2>4. ASSUME NEW i \in I, Cardinality({j \in I : j <= i}) = n PROVE i = k
      <3>1. n = IF i < q THEN i ELSE i - 1
        BY <1>5, <2>4
      <3> QED  BY <1>2, <1>3, <2>1, <3>1
    <2> QED  BY <2>1, <2>2, <2>3, <2>4
  <1>9. PICK t : t = Picked(s, I)
    OBVIOUS
  <1>10. PICK a : a = Ascending(I)
    OBVIOUS
  <1>10a. t = [n \in 1 .. L - 1 |-> s[a[n]]]
    BY <1>4, <1>9, <1>10, Zenon DEF Picked
  <1>11. \A n \in 1 .. L - 1 : t[n] = s[IF n < q THEN n ELSE n + 1]
    <2>1. ASSUME NEW n \in 1 .. L - 1 PROVE t[n] = s[IF n < q THEN n ELSE n + 1]
      <3>1. PICK k : k = (CHOOSE i \in I : Cardinality({j \in I : j <= i}) = n)
        OBVIOUS
      <3>2. a[n] = k
        BY <1>4, <1>10, <3>1, Zenon DEF Ascending
      <3>3. k = IF n < q THEN n ELSE n + 1
        BY <1>8, <3>1
      <3> QED  BY <1>10a, <3>2, <3>3
    <2> QED  BY <2>1
  <1>12. \A n \in 1 .. L - 1 : s[IF n < q THEN n ELSE n + 1] \in S
    BY <1>2
  <1>13. t \in [1 .. L - 1 -> S] /\ L - 1 \in Nat
    <2>1. t = [n \in 1 .. L - 1 |-> t[n]]
      BY <1>10a
    <2>2. \A n \in 1 .. L - 1 : t[n] \in S
      BY <1>11, <1>12
    <2> QED  BY <1>2, <2>1, <2>2
  <1>14. t \in Seq(S) /\ Len(t) = L - 1
    BY <1>13, SeqDef, LenProperties
  <1> QED  BY <1>1, <1>3, <1>9, <1>11, <1>14

-----------------------------------------------------------------------------
(* _find_chains.                                                           *)

\* What the loop over the readers of c leaves of b: a reader of c reads something that
\* knows it and is sent, what does not read c is left alone.
Moved(b, d, c) ==
    /\ Typed(d) /\ New(d) = New(b) /\ d.counter = b.counter
    /\ d.sources = b.sources /\ d.sets = b.sets /\ d.sinks = b.sinks /\ d.broadcast = b.broadcast
    /\ \A j \in 1 .. New(b) :
          /\ d.infos[j].identifier = b.infos[j].identifier /\ d.infos[j].id = b.infos[j].id
          /\ d.infos[j].chained = b.infos[j].chained /\ d.infos[j].types = b.infos[j].types
          /\ d.infos[j].sinks = b.infos[j].sinks /\ d.infos[j].bcvars = b.infos[j].bcvars
          /\ ~Reads(b, c, j) => /\ d.infos[j].parent = b.infos[j].parent
                                /\ d.infos[j].other = b.infos[j].other
          /\ \A s \in 1 .. New(b) : Reads(d, j, s) => MayRead(b, j, s)
    /\ \A s \in 1 .. New(b) : Contains(b.sets, s) =>
          /\ SetKnown(d, s) /\ Fed(d, s)
          /\ b.infos[s].identifier \notin Dual => d.infos[s].other = 0

LEMMA NotMoved ==
    ASSUME NEW b, Typed(b), Sane(b), NEW c
    PROVE  Moved(b, b, c)
  <1>1. \A j, s \in 1 .. New(b) : Reads(b, j, s) => MayRead(b, j, s)
    BY DEF Sane, Kinds, Reads
  <1>2. \A s \in 1 .. New(b) : Contains(b.sets, s) =>
          /\ SetKnown(b, s) /\ Fed(b, s)
          /\ b.infos[s].identifier \notin Dual => b.infos[s].other = 0
    BY DEF Sane, Registered, Resolved, Kinds
  <1> QED  BY <1>1, <1>2 DEF Moved

\* The inputs of r are those of d, but that g reads p instead of c.
Turned(d, r, p, c, g) ==
    /\ \A j \in 1 .. New(d) : j # g => /\ r.infos[j].parent = d.infos[j].parent
                                     /\ r.infos[j].other = d.infos[j].other
    /\ IF /\ d.infos[g].identifier \in Dual
          /\ d.infos[d.infos[g].parent].id # d.infos[c].id
       THEN r.infos[g].other = p /\ r.infos[g].parent = d.infos[g].parent
       ELSE r.infos[g].parent = p /\ r.infos[g].other = d.infos[g].other

LEMMA ReparentMoved ==
    ASSUME NEW b, NEW d, NEW c \in 1 .. New(b), Moved(b, d, c), NEW p \in 1 .. New(b), p < c,
           Sent(b, p), NEW g \in 1 .. New(b), Reads(b, c, g), MayRead(b, c, g)
    PROVE  LET r == Reparent(d, p, c, g) IN Moved(b, r, c) /\ Turned(d, r, p, c, g)
  <1>1. PICK side : side = IF /\ d.infos[g].identifier \in Dual
                              /\ d.infos[d.infos[g].parent].id # d.infos[c].id
                           THEN "other" ELSE "parent"
    OBVIOUS
  <1>2. PICK w : w = [d.infos[g] EXCEPT ![side] = p]
    OBVIOUS
  <1>3. PICK f : f = [d EXCEPT !.infos[g] = w]
    OBVIOUS
  <1>4. PICK r : r = Adopt(f, p, g)
    OBVIOUS
  <1>5. Reparent(d, p, c, g) = r
    BY <1>1, <1>2, <1>3, <1>4, Zenon DEF Reparent
  <1>6. side \in {"parent", "other"} /\ (side = "other" => d.infos[g].identifier \in Dual)
    BY <1>1
  <1>7. Typed(d) /\ New(d) = New(b) /\ New(b) \in Nat
    BY KnownLen DEF Moved
  <1>8. InfoOK(d.infos[g], New(d), d.counter) /\ g \in 1 .. New(d) /\ p \in 1 .. New(d)
    BY <1>7 DEF Typed
  <1>9. /\ w.identifier = d.infos[g].identifier /\ w.id = d.infos[g].id
        /\ w.chained = d.infos[g].chained /\ w.group = d.infos[g].group
        /\ w.sinks = d.infos[g].sinks /\ w.bcvars = d.infos[g].bcvars
        /\ w.children = d.infos[g].children /\ w.sorts = d.infos[g].sorts /\ DOMAIN w = Fields
        /\ w.cls = d.infos[g].cls /\ w.operator = d.infos[g].operator
        /\ w.types = d.infos[g].types
        /\ w[side] = p
        /\ side = "other" => w.parent = d.infos[g].parent
        /\ side = "parent" => w.other = d.infos[g].other
    BY <1>2, <1>6, <1>8 DEF InfoOK, Fields
  <1>10. InfoOK(w, New(d), d.counter)
    <2>1. p \in 0 .. New(d)
      BY <1>7, <1>8
    <2>2. ClassOK(w)
      BY <1>8, <1>9 DEF InfoOK, ClassOK
    <2> QED  BY <1>6, <1>8, <1>9, <2>1, <2>2 DEF InfoOK
  <1>11. Changed(d, f, g, w)
    BY <1>3, <1>7, <1>8, <1>10, Change
  <1>12. \A s \in 1 .. New(b) : f.infos[s].identifier = b.infos[s].identifier
    BY <1>7, <1>9, <1>11 DEF Changed, Moved
  <1>13. /\ Typed(f) /\ New(f) = New(b) /\ p \in 1 .. New(f) /\ g \in 1 .. New(f)
         /\ MayRead(f, p, g)
    <2>1. MayRead(b, p, g)
      BY <1>7 DEF MayRead
    <2> QED  BY <1>7, <1>11, <1>12, <2>1 DEF Changed, MayRead
  <1>14. /\ Typed(r) /\ Keeps(f, r) /\ Reads(r, p, g) /\ (Reads(f, p, g) => ReadsTwice(r, p, g))
         /\ \A j \in 1 .. New(f) : r.infos[j].types = f.infos[j].types
    BY <1>4, <1>13, AdoptKeeps
  <1>15. \A j \in 1 .. New(b) :
           /\ r.infos[j].identifier = d.infos[j].identifier /\ r.infos[j].id = d.infos[j].id
           /\ r.infos[j].chained = d.infos[j].chained /\ r.infos[j].types = d.infos[j].types
           /\ r.infos[j].sinks = d.infos[j].sinks /\ r.infos[j].bcvars = d.infos[j].bcvars
           /\ j # g => /\ r.infos[j].parent = d.infos[j].parent
                       /\ r.infos[j].other = d.infos[j].other
    BY <1>7, <1>9, <1>11, <1>13, <1>14 DEF Changed, Keeps, Same
  <1>16. /\ side = "other" => r.infos[g].other = p /\ r.infos[g].parent = d.infos[g].parent
         /\ side = "parent" => r.infos[g].parent = p /\ r.infos[g].other = d.infos[g].other
    <2>1. r.infos[g].parent = w.parent /\ r.infos[g].other = w.other
      BY <1>11, <1>13, <1>14 DEF Changed, Keeps, Same
    <2> QED  BY <1>6, <1>9, <2>1
  <1>17. \A j, s : (Reads(d, j, s) <=> Reads(f, j, s)) /\ (ReadsTwice(d, j, s) <=> ReadsTwice(f, j, s))
    BY <1>7, <1>9, <1>11, <1>13 DEF Changed, Reads, ReadsTwice
  <1>18. \A j, s \in 1 .. New(b) :
           /\ Reads(d, j, s) => Reads(r, j, s)
           /\ ReadsTwice(d, j, s) => ReadsTwice(r, j, s)
           /\ Reads(r, j, s) => Reads(d, j, s) \/ MayRead(f, j, s)
    BY <1>13, <1>14, <1>17 DEF Keeps
  <1>19. /\ New(r) = New(b) /\ r.counter = d.counter /\ r.sources = d.sources /\ r.sets = d.sets
         /\ r.sinks = d.sinks /\ r.broadcast = d.broadcast
    BY <1>7, <1>11, <1>14 DEF Changed, Keeps
  <1>20. ASSUME NEW s \in 1 .. New(b), Contains(b.sets, s)
         PROVE  /\ SetKnown(r, s) /\ Fed(r, s)
                /\ b.infos[s].identifier \notin Dual => r.infos[s].other = 0
    <2>1. /\ SetKnown(d, s) /\ Fed(d, s)
          /\ b.infos[s].identifier \notin Dual => d.infos[s].other = 0
      BY <1>20 DEF Moved
    <2>2. \A j : /\ Reads(d, j, s) => Reads(r, j, s)
                 /\ ReadsTwice(d, j, s) => ReadsTwice(r, j, s)
      <3> TAKE j
      <3>1. CASE j \in 1 .. New(b)
        BY <1>18, <3>1
      <3>2. CASE j \notin 1 .. New(b)
        BY <1>7, <3>2 DEF Reads, ReadsTwice
      <3> QED  BY <3>1, <3>2
    <2>3. \A j : Sent(d, j) <=> Sent(r, j)
      BY <1>19 DEF Sent
    <2>4. CASE s # g
      <3>1. r.infos[s].parent = d.infos[s].parent /\ r.infos[s].other = d.infos[s].other
        BY <1>15, <2>4
      <3> QED  BY <2>1, <2>2, <2>3, <3>1 DEF SetKnown, Fed
    <2>5. CASE s = g
      <3>1. Sent(r, p) /\ p # 0 /\ (Reads(d, p, g) => ReadsTwice(r, p, g))
        BY <1>7, <1>8, <1>14, <1>17, <1>19 DEF Sent, Moved
      <3>2. d.infos[g].identifier = b.infos[g].identifier
        BY DEF Moved
      <3>3. CASE side = "parent"
        BY <1>14, <1>16, <2>1, <2>2, <2>3, <2>5, <3>1, <3>3 DEF SetKnown, Fed
      <3>4. CASE side = "other"
        BY <1>6, <1>14, <1>16, <2>1, <2>2, <2>3, <2>5, <3>1, <3>2, <3>4 DEF SetKnown, Fed
      <3> QED  BY <1>6, <3>3, <3>4
    <2> QED  BY <2>4, <2>5
  <1>21. ASSUME NEW j \in 1 .. New(b), NEW s \in 1 .. New(b), Reads(r, j, s) PROVE MayRead(b, j, s)
    <2>1. CASE Reads(d, j, s)
      BY <2>1 DEF Moved
    <2>2. CASE MayRead(f, j, s)
      BY <1>12, <2>2 DEF MayRead
    <2> QED  BY <1>18, <1>21, <2>1, <2>2
  <1>22. ASSUME NEW j \in 1 .. New(b), ~Reads(b, c, j)
         PROVE  r.infos[j].parent = b.infos[j].parent /\ r.infos[j].other = b.infos[j].other
    BY <1>15, <1>22 DEF Moved
  <1>23. \A j \in 1 .. New(b) :
           /\ r.infos[j].identifier = b.infos[j].identifier /\ r.infos[j].id = b.infos[j].id
           /\ r.infos[j].chained = b.infos[j].chained /\ r.infos[j].types = b.infos[j].types
           /\ r.infos[j].sinks = b.infos[j].sinks /\ r.infos[j].bcvars = b.infos[j].bcvars
    BY <1>15 DEF Moved
  <1>24. /\ New(r) = New(b) /\ r.counter = b.counter /\ r.sources = b.sources /\ r.sets = b.sets
         /\ r.sinks = b.sinks /\ r.broadcast = b.broadcast
    BY <1>19 DEF Moved
  <1>25. Moved(b, r, c)
    BY <1>14, <1>20, <1>21, <1>22, <1>23, <1>24 DEF Moved
  <1>26. Turned(d, r, p, c, g)
    BY <1>1, <1>7, <1>15, <1>16 DEF Turned
  <1> QED  BY <1>5, <1>25, <1>26

\* What still reads c comes later among the readers, as often as it reads c.
Due(d, c, readers, n) == \A g \in 1 .. New(d) : Contains(d.sets, g) =>
    /\ c \in {d.infos[g].parent, d.infos[g].other} =>
          \E i \in n + 1 .. Len(readers) : readers[i] = g
    /\ d.infos[g].parent = c /\ d.infos[g].other = c =>
          \E i, j \in n + 1 .. Len(readers) : i # j /\ readers[i] = g /\ readers[j] = g

LEMMA DueAtFirst ==
    ASSUME NEW b, Typed(b), Sane(b), NEW c \in 1 .. New(b)
    PROVE  Due(b, c, b.infos[c].children, 0)
  <1>1. PICK l : l = b.infos[c].children
    OBVIOUS
  <1>2. ASSUME NEW g \in 1 .. New(b), Contains(b.sets, g)
        PROVE  /\ c \in {b.infos[g].parent, b.infos[g].other} => Contains(l, g)
               /\ b.infos[g].parent = c /\ b.infos[g].other = c => TwiceIn(l, g)
    <2>1. SetKnown(b, g)
      BY <1>2 DEF Sane, Registered
    <2>2. c # 0
      BY KnownLen
    <2> QED  BY <1>1, <2>1, <2>2 DEF SetKnown, Reads, ReadsTwice
  <1>3. 0 + 1 .. Len(l) = 1 .. Len(l)
    OBVIOUS
  <1>4. \A g : Contains(l, g) => \E i \in 0 + 1 .. Len(l) : l[i] = g
    BY <1>3 DEF Contains
  <1>5. \A g : TwiceIn(l, g) =>
           \E i, j \in 0 + 1 .. Len(l) : i # j /\ l[i] = g /\ l[j] = g
    BY <1>3 DEF TwiceIn
  <1> QED  BY <1>1, <1>2, <1>4, <1>5 DEF Due

LEMMA DueNext ==
    ASSUME NEW b, NEW d, NEW r, NEW c \in 1 .. New(b), NEW p \in 1 .. New(b), p < c,
           Moved(b, d, c), Moved(b, r, c), UniqueIds(b), b.infos[c].id # -1,
           NEW readers, Len(readers) \in Nat, NEW n \in Nat, n + 1 <= Len(readers),
           NEW g \in 1 .. New(b), g = readers[n + 1],
           Turned(d, r, p, c, g), Due(d, c, readers, n)
    PROVE  Due(r, c, readers, n + 1)
  <1>1. New(d) = New(b) /\ New(r) = New(b) /\ New(b) \in Nat /\ r.sets = b.sets /\ d.sets = b.sets
    BY KnownLen DEF Moved
  <1>2. PICK L : L = Len(readers)
    OBVIOUS
  <1>3. \A i \in n + 1 .. L : i # n + 1 => i \in (n + 1) + 1 .. L
    BY <1>2
  <1>4. SUFFICES ASSUME NEW h \in 1 .. New(b), Contains(b.sets, h)
        PROVE  /\ c \in {r.infos[h].parent, r.infos[h].other} =>
                     \E i \in (n + 1) + 1 .. L : readers[i] = h
               /\ r.infos[h].parent = c /\ r.infos[h].other = c =>
                     \E i, j \in (n + 1) + 1 .. L : i # j /\ readers[i] = h /\ readers[j] = h
    BY <1>1, <1>2 DEF Due
  <1>5. /\ c \in {d.infos[h].parent, d.infos[h].other} =>
              \E i \in n + 1 .. L : readers[i] = h
        /\ d.infos[h].parent = c /\ d.infos[h].other = c =>
              \E i, j \in n + 1 .. L : i # j /\ readers[i] = h /\ readers[j] = h
    BY <1>1, <1>2, <1>4 DEF Due
  <1>6. CASE h # g
    <2>1. \A i \in n + 1 .. L : readers[i] = h => i \in (n + 1) + 1 .. L
      BY <1>3, <1>6
    <2>2. r.infos[h].parent = d.infos[h].parent /\ r.infos[h].other = d.infos[h].other
      BY <1>1, <1>6 DEF Turned
    <2> QED  BY <1>5, <2>1, <2>2
  <1>7. CASE h = g
    <2>1. p # c
      BY <1>1
    <2>2. /\ SetKnown(d, g)
          /\ d.infos[g].identifier \notin Dual => d.infos[g].other = 0
      BY <1>4, <1>7 DEF Moved
    <2>3. d.infos[g].parent \in 1 .. New(b)
      BY <1>1, <2>2 DEF SetKnown, Reads
    <2>4. CASE d.infos[g].parent = c
      <3>1. r.infos[g].parent = p /\ r.infos[g].other = d.infos[g].other
        BY <2>4 DEF Turned
      <3>2. ASSUME d.infos[g].other = c PROVE \E i \in (n + 1) + 1 .. L : readers[i] = h
        <4>1. PICK i \in n + 1 .. L, j \in n + 1 .. L :
                     i # j /\ readers[i] = h /\ readers[j] = h
          BY <1>5, <1>7, <2>4, <3>2
        <4>2. i \in (n + 1) + 1 .. L \/ j \in (n + 1) + 1 .. L
          BY <1>3, <4>1
        <4> QED  BY <4>1, <4>2
      <3> QED  BY <1>7, <2>1, <3>1, <3>2
    <2>5. CASE d.infos[g].parent # c
      <3>1. PICK a : a = d.infos[g].parent
        OBVIOUS
      <3>2. a \in 1 .. New(b) /\ a # c
        BY <2>3, <2>5, <3>1
      <3>3. d.infos[a].id # d.infos[c].id
        <4>1. d.infos[a].id = b.infos[a].id /\ d.infos[c].id = b.infos[c].id
          BY <3>2 DEF Moved
        <4> QED  BY <3>2, <4>1 DEF UniqueIds
      <3>4. c # 0
        BY <1>1
      <3>5. CASE d.infos[g].identifier \in Dual
        <4>1. r.infos[g].other = p /\ r.infos[g].parent = a
          BY <3>1, <3>3, <3>5 DEF Turned
        <4> QED  BY <1>7, <2>1, <3>2, <4>1
      <3>6. CASE d.infos[g].identifier \notin Dual
        <4>1. r.infos[g].parent = p /\ r.infos[g].other = 0
          BY <2>2, <3>6 DEF Turned
        <4> QED  BY <1>7, <2>1, <3>4, <4>1
      <3> QED  BY <3>5, <3>6
    <2> QED  BY <2>4, <2>5
  <1> QED  BY <1>6, <1>7

\* f is the loop up to its m-th step.
Steps(f, m, b, p, c, readers) ==
    f = [n \in 0 .. m |-> IF n = 0 THEN b ELSE Reparent(f[n - 1], p, c, readers[n])]

LEMMA StepsExist ==
    ASSUME NEW b, NEW p, NEW c, NEW readers
    PROVE  \A m \in Nat : \E f : Steps(f, m, b, p, c, readers)
  <1>1. PICK S : S = {m \in Nat : \E f : Steps(f, m, b, p, c, readers)}
    OBVIOUS
  <1>2. 0 \in S
    <2>1. PICK f : f = [n \in 0 .. 0 |-> b]
      OBVIOUS
    <2>2. Steps(f, 0, b, p, c, readers)
      <3>1. \A n \in 0 .. 0 : n = 0
        OBVIOUS
      <3>2. f = [n \in 0 .. 0 |-> IF n = 0 THEN b ELSE Reparent(f[n - 1], p, c, readers[n])]
        BY <2>1, <3>1
      <3> QED  BY <3>2 DEF Steps
    <2> QED  BY <1>1, <2>2
  <1>3. ASSUME NEW m \in Nat, m \in S PROVE m + 1 \in S
    <2>1. PICK f : Steps(f, m, b, p, c, readers)
      BY <1>1, <1>3
    <2>2. PICK v : v = Reparent(f[m], p, c, readers[m + 1])
      OBVIOUS
    <2>3. PICK g : g = [n \in 0 .. m + 1 |-> IF n = m + 1 THEN v ELSE f[n]]
      OBVIOUS
    <2>4. ASSUME NEW n \in 0 .. m + 1
          PROVE  g[n] = IF n = 0 THEN b ELSE Reparent(g[n - 1], p, c, readers[n])
      <3>1. CASE n = m + 1
        <4>1. n # 0 /\ n - 1 = m /\ m \in 0 .. m + 1 /\ m # m + 1
          BY <3>1
        <4>2. g[m] = f[m] /\ g[n] = v
          BY <2>3, <3>1, <4>1
        <4> QED  BY <2>2, <3>1, <4>1, <4>2
      <3>2. CASE n # m + 1 /\ n # 0
        <4>1. n \in 0 .. m /\ n - 1 \in 0 .. m + 1 /\ n - 1 # m + 1
          BY <3>2
        <4>2. g[n] = f[n] /\ g[n - 1] = f[n - 1]
          BY <2>3, <3>2, <4>1
        <4>3. f[n] = Reparent(f[n - 1], p, c, readers[n])
          BY <2>1, <3>2, <4>1 DEF Steps
        <4> QED  BY <3>2, <4>2, <4>3
      <3>3. CASE n = 0
        <4>1. 0 \in 0 .. m /\ 0 # m + 1
          OBVIOUS
        <4>2. f[0] = b
          BY <2>1, <4>1 DEF Steps
        <4> QED  BY <2>3, <3>3, <4>1, <4>2
      <3> QED  BY <3>1, <3>2, <3>3
    <2>5. Steps(g, m + 1, b, p, c, readers)
      <3>1. g = [n \in 0 .. m + 1 |-> g[n]]
        BY <2>3
      <3> QED  BY <2>4, <3>1, Zenon DEF Steps
    <2> QED  BY <1>1, <2>5
  <1>4. \A m \in Nat : m \in S
    BY <1>2, <1>3, NatSetInduction
  <1> QED  BY <1>1, <1>4

LEMMA LoopMoved ==
    ASSUME NEW b, Typed(b), Sane(b), NEW p \in 1 .. New(b), NEW c \in 1 .. New(b), p < c,
           Sent(b, p), b.infos[c].id # -1, NEW readers, readers = b.infos[c].children
    PROVE  LET m == ReparentAll(b, p, c, readers) IN
           /\ Moved(b, m, c)
           /\ \A s \in 1 .. New(b) : Contains(b.sets, s) => c \notin {m.infos[s].parent, m.infos[s].other}
  <1>1. PICK L : L = Len(readers)
    OBVIOUS
  <1>2. readers \in Seq(1 .. New(b))
    BY DEF Typed, InfoOK
  <1>2a. L \in Nat /\ \A n \in 1 .. L : readers[n] \in 1 .. New(b) /\ Contains(readers, readers[n])
    BY <1>1, <1>2, LenProperties, ElementOfSeq DEF Contains
  <1>3. PICK h : h = CHOOSE f : Steps(f, L, b, p, c, readers)
    OBVIOUS
  <1>4. Steps(h, L, b, p, c, readers)
    <2>1. \E f : Steps(f, L, b, p, c, readers)
      BY <1>2a, StepsExist
    <2> QED  BY <1>3, <2>1
  <1>5. ReparentAll(b, p, c, readers) = h[L]
    BY <1>1, <1>3 DEF ReparentAll, Steps
  <1>6. PICK S : S = {n \in Nat : n <= L => Moved(b, h[n], c) /\ Due(h[n], c, readers, n)}
    OBVIOUS
  <1>7. 0 \in S
    <2>1. 0 \in 0 .. L
      BY <1>2a
    <2>2. h[0] = b
      BY <1>4, <2>1 DEF Steps
    <2>3. Due(b, c, readers, 0)
      BY DueAtFirst
    <2> QED  BY <1>6, <2>2, <2>3, NotMoved
  <1>8. ASSUME NEW n \in Nat, n \in S PROVE n + 1 \in S
    <2>1. SUFFICES ASSUME n + 1 <= L PROVE Moved(b, h[n + 1], c) /\ Due(h[n + 1], c, readers, n + 1)
      BY <1>6
    <2>2. n + 1 \in 0 .. L /\ n + 1 \in 1 .. L /\ n + 1 # 0 /\ (n + 1) - 1 = n /\ n <= L
      BY <1>2a, <2>1
    <2>3. Moved(b, h[n], c) /\ Due(h[n], c, readers, n)
      BY <1>6, <1>8, <2>2
    <2>4. h[n + 1] = Reparent(h[n], p, c, readers[n + 1])
      BY <1>4, <2>2 DEF Steps
    <2>5. PICK g : g = readers[n + 1]
      OBVIOUS
    <2>6. g \in 1 .. New(b) /\ Reads(b, c, g)
      BY <1>2a, <2>2, <2>5 DEF Reads
    <2>7. MayRead(b, c, g)
      BY <2>6 DEF Sane, Kinds, Reads
    <2>8. PICK d : d = h[n]
      OBVIOUS
    <2>9. PICK r : r = Reparent(d, p, c, g)
      OBVIOUS
    <2>10. Moved(b, d, c) /\ Due(d, c, readers, n)
      BY <2>3, <2>8
    <2>11. Moved(b, r, c) /\ Turned(d, r, p, c, g)
      BY <2>6, <2>7, <2>9, <2>10, ReparentMoved
    <2>12. UniqueIds(b) /\ Len(readers) \in Nat /\ n + 1 <= Len(readers)
      BY <1>1, <1>2a, <2>1 DEF Sane
    <2>13. Due(r, c, readers, n + 1)
      BY <2>5, <2>6, <2>10, <2>11, <2>12, DueNext
    <2> QED  BY <2>4, <2>5, <2>8, <2>9, <2>11, <2>13
  <1>9. \A n \in Nat : n \in S
    BY <1>7, <1>8, NatSetInduction
  <1>10. Moved(b, h[L], c) /\ Due(h[L], c, readers, L)
    BY <1>2a, <1>6, <1>9
  <1>11. \A i : i \notin L + 1 .. L
    BY <1>2a
  <1>12. \A s \in 1 .. New(b) : Contains(b.sets, s) => c \notin {h[L].infos[s].parent, h[L].infos[s].other}
    BY <1>1, <1>10, <1>11 DEF Due, Moved
  <1> QED  BY <1>5, <1>10, <1>12

\* The parent takes the function of its child.
Begin(e, p, c, t) == [e EXCEPT !.infos[p].chained = c, !.infos[p].types = t]

LEMMA BeginStep ==
    ASSUME NEW e, Whole(e), NEW p \in 1 .. New(e), NEW c \in 1 .. New(e), NEW ts
    PROVE  LET b == Begin(e, p, c, ts) IN
           /\ Whole(b) /\ New(b) = New(e) /\ b.sources = e.sources /\ b.sets = e.sets
           /\ b.sinks = e.sinks /\ b.broadcast = e.broadcast
           /\ b.infos[p].chained = c /\ b.infos[p].types = ts
           /\ \A j \in 1 .. New(e) : j # p => /\ b.infos[j].chained = e.infos[j].chained
                                            /\ b.infos[j].types = e.infos[j].types
           /\ \A j \in 1 .. New(e) :
                /\ b.infos[j].identifier = e.infos[j].identifier /\ b.infos[j].id = e.infos[j].id
                /\ b.infos[j].parent = e.infos[j].parent /\ b.infos[j].other = e.infos[j].other
                /\ b.infos[j].sinks = e.infos[j].sinks /\ b.infos[j].bcvars = e.infos[j].bcvars
                /\ b.infos[j].children = e.infos[j].children
  <1>1. PICK w : w = [e.infos[p] EXCEPT !.chained = c, !.types = ts]
    OBVIOUS
  <1>2. PICK b : b = [e EXCEPT !.infos[p] = w]
    OBVIOUS
  <1>4. Begin(e, p, c, ts) = b
    BY <1>1, <1>2, Zenon DEF Begin
  <1>5. Typed(e) /\ Sane(e) /\ Numbered(e) /\ New(e) \in Nat
    BY KnownLen DEF Whole
  <1>6. InfoOK(e.infos[p], New(e), e.counter)
    BY <1>5 DEF Typed
  <1>7. /\ w.identifier = e.infos[p].identifier /\ w.id = e.infos[p].id
        /\ w.parent = e.infos[p].parent /\ w.other = e.infos[p].other
        /\ w.chained = c /\ w.group = e.infos[p].group /\ w.types = ts
        /\ w.sinks = e.infos[p].sinks /\ w.bcvars = e.infos[p].bcvars
        /\ w.children = e.infos[p].children /\ w.sorts = e.infos[p].sorts /\ DOMAIN w = Fields
        /\ w.cls = e.infos[p].cls /\ w.operator = e.infos[p].operator
    BY <1>1, <1>6 DEF InfoOK, Fields
  <1>8. InfoOK(w, New(e), e.counter)
    <2>1. c \in 0 .. New(e)
      BY <1>5
    <2>2. ClassOK(w)
      BY <1>6, <1>7 DEF InfoOK, ClassOK
    <2> QED  BY <1>6, <1>7, <2>1, <2>2 DEF InfoOK
  <1>9. Changed(e, b, p, w)
    BY <1>2, <1>5, <1>8, Change
  <1>10. /\ Typed(b) /\ New(b) = New(e) /\ b.sources = e.sources /\ b.sets = e.sets
         /\ b.sinks = e.sinks /\ b.broadcast = e.broadcast
         /\ b.infos[p].chained = c /\ b.infos[p].types = ts
         /\ \A j \in 1 .. New(e) : j # p => /\ b.infos[j].chained = e.infos[j].chained
                                          /\ b.infos[j].types = e.infos[j].types
         /\ \A j \in 1 .. New(e) :
                /\ b.infos[j].identifier = e.infos[j].identifier /\ b.infos[j].id = e.infos[j].id
                /\ b.infos[j].parent = e.infos[j].parent /\ b.infos[j].other = e.infos[j].other
                /\ b.infos[j].sinks = e.infos[j].sinks /\ b.infos[j].bcvars = e.infos[j].bcvars
                /\ b.infos[j].children = e.infos[j].children
    BY <1>7, <1>9 DEF Changed
  <1>11. Kinds(b)
    BY <1>5, <1>10 DEF Sane, Kinds, MayRead
  <1>12. \A q, s : /\ Reads(e, q, s) => Reads(b, q, s)
                   /\ ReadsTwice(e, q, s) => ReadsTwice(b, q, s)
    BY <1>10 DEF Reads, ReadsTwice
  <1>13. Registered(b)
    <2>1. ASSUME NEW s \in 1 .. New(e), SetKnown(e, s) PROVE SetKnown(b, s)
      BY <1>10, <1>12, <2>1 DEF SetKnown
    <2>2. ASSUME NEW s \in 1 .. New(e), e.infos[s].parent # 0 PROVE e.infos[s].parent \in 1 .. New(e)
      <3>1. e.infos[s].parent \in 0 .. New(e)
        BY <1>5 DEF Typed, InfoOK
      <3> QED  BY <1>5, <2>2, <3>1
    <2>3. ASSUME NEW s \in 1 .. New(e), SinkKnown(e, s) PROVE SinkKnown(b, s)
      BY <1>10, <2>2, <2>3 DEF SinkKnown
    <2>4. ASSUME NEW s \in 1 .. New(e), BroadcastKnown(e, s) PROVE BroadcastKnown(b, s)
      BY <1>10, <2>2, <2>4 DEF BroadcastKnown
    <2> QED  BY <1>5, <1>10, <2>1, <2>3, <2>4 DEF Sane, Registered
  <1>14. UniqueIds(b) /\ Once(b) /\ Numbered(b)
    BY <1>5, <1>10 DEF Sane, UniqueIds, Once, Numbered
  <1>15. Ordered(b)
    <2>1. \A k \in 1 .. Len(e.sets) : e.sets[k] \in 1 .. New(e)
      BY <1>5, ElementOfSeq DEF Typed
    <2>2. \A k \in 1 .. Len(e.sets) : b.infos[e.sets[k]].identifier = e.infos[e.sets[k]].identifier
      BY <1>10, <2>1
    <2>3. Ordered(e) /\ b.sets = e.sets
      BY <1>5, <1>10 DEF Sane
    <2> QED  BY <2>2, <2>3 DEF Ordered
  <1>16. Resolved(b)
    BY <1>5, <1>10 DEF Sane, Resolved, Fed, Sent
  <1>17. Whole(b)
    BY <1>10, <1>11, <1>13, <1>14, <1>15, <1>16 DEF Whole, Sane
  <1> QED  BY <1>4, <1>10, <1>17

\* What Redirect changes.
Redirected(m, r, p, c) ==
    /\ Typed(r) /\ New(r) = New(m) /\ r.counter = m.counter
    /\ r.sources = m.sources /\ r.sets = m.sets /\ r.sinks = m.sinks /\ r.broadcast = m.broadcast
    /\ \A j \in 1 .. New(m) :
          /\ r.infos[j].identifier = m.infos[j].identifier /\ r.infos[j].id = m.infos[j].id
          /\ r.infos[j].chained = m.infos[j].chained /\ r.infos[j].types = m.infos[j].types
          /\ r.infos[j].sinks = m.infos[j].sinks /\ r.infos[j].bcvars = m.infos[j].bcvars
          /\ r.infos[j].children = m.infos[j].children
          /\ r.infos[j].parent =
               IF Contains(m.infos[c].sinks, j) \/ Contains(m.infos[c].bcvars, j)
               THEN p ELSE m.infos[j].parent
          /\ r.infos[j].other =
               IF Contains(m.broadcast, j) /\ m.infos[m.infos[j].other].id = m.infos[c].id
               THEN p ELSE m.infos[j].other

LEMMA ContainsConcat ==
    ASSUME NEW S, NEW s \in Seq(S), NEW t \in Seq(S)
    PROVE  /\ s \o t \in Seq(S)
           /\ \A y : Contains(s \o t, y) <=> (Contains(s, y) \/ Contains(t, y))
  <1>1. PICK u : u = s \o t
    OBVIOUS
  <1>2. /\ u \in Seq(S) /\ Len(u) = Len(s) + Len(t)
        /\ \A i \in 1 .. Len(s) + Len(t) : u[i] = IF i <= Len(s) THEN s[i] ELSE t[i - Len(s)]
    BY <1>1, ConcatProperties
  <1>3. Len(s) \in Nat /\ Len(t) \in Nat
    BY LenProperties
  <1>4. ASSUME NEW y, Contains(u, y) PROVE Contains(s, y) \/ Contains(t, y)
    <2>1. PICK i \in 1 .. Len(u) : u[i] = y
      BY <1>4 DEF Contains
    <2>2. CASE i <= Len(s)
      <3>1. i \in 1 .. Len(s) /\ s[i] = y
        BY <1>2, <1>3, <2>1, <2>2
      <3> QED  BY <3>1 DEF Contains
    <2>3. CASE ~(i <= Len(s))
      <3>1. i - Len(s) \in 1 .. Len(t) /\ t[i - Len(s)] = y
        BY <1>2, <1>3, <2>1, <2>3
      <3> QED  BY <3>1 DEF Contains
    <2> QED  BY <2>2, <2>3
  <1>5. ASSUME NEW y, Contains(s, y) PROVE Contains(u, y)
    <2>1. PICK i \in 1 .. Len(s) : s[i] = y
      BY <1>5 DEF Contains
    <2>2. i \in 1 .. Len(u) /\ u[i] = y
      BY <1>2, <1>3, <2>1
    <2> QED  BY <2>2 DEF Contains
  <1>6. ASSUME NEW y, Contains(t, y) PROVE Contains(u, y)
    <2>1. PICK i \in 1 .. Len(t) : t[i] = y
      BY <1>6 DEF Contains
    <2>2. /\ Len(s) + i \in 1 .. Len(s) + Len(t) /\ ~(Len(s) + i <= Len(s))
          /\ (Len(s) + i) - Len(s) = i
      BY <1>3
    <2>3. u[Len(s) + i] = y
      BY <1>2, <2>1, <2>2
    <2> QED  BY <1>2, <2>2, <2>3 DEF Contains
  <1> QED  BY <1>1, <1>2, <1>4, <1>5, <1>6

LEMMA RedirectStep ==
    ASSUME NEW m, Typed(m), NEW p \in 1 .. New(m), NEW c \in 1 .. New(m)
    PROVE  Redirected(m, Redirect(m, p, c), p, c)
  <1>1. PICK l : l = m.infos[c].sinks \o m.infos[c].bcvars
    OBVIOUS
  <1>2. PICK s : s = [i \in Known(m) |-> [m.infos[i] EXCEPT
            !.other  = IF Contains(m.broadcast, i) /\ m.infos[@].id = m.infos[c].id THEN p ELSE @,
            !.parent = IF Contains(l, i) THEN p ELSE @]]
    OBVIOUS
  <1>3. PICK r : r = WithInfos(m, s)
    OBVIOUS
  <1>4. Redirect(m, p, c) = r
    BY <1>1, <1>2, <1>3, Zenon DEF Redirect, WithInfos
  <1>5. Known(m) = 1 .. New(m) /\ New(m) \in Nat
    BY KnownLen
  <1>6. \A y : Contains(l, y) <=> (Contains(m.infos[c].sinks, y) \/ Contains(m.infos[c].bcvars, y))
    <2>1. PICK a : a = m.infos[c].sinks
      OBVIOUS
    <2>2. PICK b : b = m.infos[c].bcvars
      OBVIOUS
    <2>3. PICK T : T = 1 .. New(m)
      OBVIOUS
    <2>4. a \in Seq(T) /\ b \in Seq(T)
      BY <2>1, <2>2, <2>3 DEF Typed, InfoOK
    <2>5. \A y : Contains(a \o b, y) <=> (Contains(a, y) \/ Contains(b, y))
      BY <2>4, ContainsConcat
    <2> QED  BY <1>1, <2>1, <2>2, <2>5
  <1>7. ASSUME NEW i \in 1 .. New(m)
        PROVE  /\ InfoOK(s[i], New(m), m.counter)
               /\ s[i].identifier = m.infos[i].identifier /\ s[i].id = m.infos[i].id
               /\ s[i].chained = m.infos[i].chained /\ s[i].types = m.infos[i].types
               /\ s[i].sinks = m.infos[i].sinks /\ s[i].bcvars = m.infos[i].bcvars
               /\ s[i].children = m.infos[i].children
               /\ s[i].parent = IF Contains(l, i) THEN p ELSE m.infos[i].parent
               /\ s[i].other =
                    IF Contains(m.broadcast, i) /\ m.infos[m.infos[i].other].id = m.infos[c].id
                    THEN p ELSE m.infos[i].other
    <2>1. InfoOK(m.infos[i], New(m), m.counter)
      BY DEF Typed
    <2>2. PICK o : o = IF Contains(m.broadcast, i) /\ m.infos[m.infos[i].other].id = m.infos[c].id
                       THEN p ELSE m.infos[i].other
      OBVIOUS
    <2>3. PICK q : q = IF Contains(l, i) THEN p ELSE m.infos[i].parent
      OBVIOUS
    <2>4. PICK w : w = [m.infos[i] EXCEPT !.other = o, !.parent = q]
      OBVIOUS
    <2>5. s[i] = w
      BY <1>2, <1>5, <2>2, <2>3, <2>4, Zenon
    <2>6. /\ w.identifier = m.infos[i].identifier /\ w.id = m.infos[i].id
          /\ w.parent = q /\ w.other = o
          /\ w.chained = m.infos[i].chained /\ w.group = m.infos[i].group
          /\ w.sinks = m.infos[i].sinks /\ w.bcvars = m.infos[i].bcvars
          /\ w.children = m.infos[i].children /\ w.sorts = m.infos[i].sorts /\ DOMAIN w = Fields
          /\ w.cls = m.infos[i].cls /\ w.operator = m.infos[i].operator
          /\ w.types = m.infos[i].types
      BY <2>1, <2>4 DEF InfoOK, Fields
    <2>7. p \in 0 .. New(m)
      BY <1>5
    <2>8. o \in 0 .. New(m) /\ q \in 0 .. New(m)
      BY <2>1, <2>2, <2>3, <2>7 DEF InfoOK
    <2>9. InfoOK(w, New(m), m.counter)
      <3>1. ClassOK(w)
        BY <2>1, <2>6 DEF InfoOK, ClassOK
      <3> QED  BY <2>1, <2>6, <2>8, <3>1 DEF InfoOK
    <2> QED  BY <2>2, <2>3, <2>5, <2>6, <2>9
  <1>8. Numbers(s, New(m))
    BY <1>2, <1>5 DEF Numbers
  <1>9. /\ Typed(r) /\ New(r) = New(m) /\ r.infos = s /\ r.counter = m.counter
        /\ r.sources = m.sources /\ r.sets = m.sets /\ r.sinks = m.sinks
        /\ r.broadcast = m.broadcast
    <2>1. \A i \in 1 .. New(m) : InfoOK(s[i], New(m), m.counter)
      BY <1>7
    <2> QED  BY <1>3, <1>8, <2>1, AllInfos
  <1>10. Redirected(m, r, p, c)
    BY <1>6, <1>7, <1>9 DEF Redirected
  <1> QED  BY <1>4, <1>10

\* One of the lists of info i becomes v.
Lists == {"sinks", "bcvars", "children"}
Listed(e, d, i, f, v) ==
    /\ Typed(d) /\ New(d) = New(e) /\ d.counter = e.counter
    /\ d.sources = e.sources /\ d.sets = e.sets /\ d.sinks = e.sinks /\ d.broadcast = e.broadcast
    /\ \A j \in 1 .. New(e) :
          /\ d.infos[j].identifier = e.infos[j].identifier /\ d.infos[j].id = e.infos[j].id
          /\ d.infos[j].chained = e.infos[j].chained /\ d.infos[j].types = e.infos[j].types
          /\ d.infos[j].parent = e.infos[j].parent /\ d.infos[j].other = e.infos[j].other
          /\ \A g \in Lists : d.infos[j][g] = IF j = i /\ g = f THEN v ELSE e.infos[j][g]

LEMMA ListStep ==
    ASSUME NEW e, Typed(e), NEW i \in 1 .. New(e), NEW f \in Lists, NEW v, v \in Seq(1 .. New(e))
    PROVE  Listed(e, WithField(e, i, f, v), i, f, v)
  <1>1. PICK w : w = [e.infos[i] EXCEPT ![f] = v]
    OBVIOUS
  <1>2. PICK d : d = [e EXCEPT !.infos[i] = w]
    OBVIOUS
  <1>3. WithField(e, i, f, v) = d
    BY <1>1, <1>2, Zenon DEF WithField
  <1>4. InfoOK(e.infos[i], New(e), e.counter)
    BY DEF Typed
  <1>5. /\ w.identifier = e.infos[i].identifier /\ w.id = e.infos[i].id
        /\ w.parent = e.infos[i].parent /\ w.other = e.infos[i].other
        /\ w.chained = e.infos[i].chained /\ w.group = e.infos[i].group
        /\ w.sorts = e.infos[i].sorts /\ DOMAIN w = Fields /\ w.types = e.infos[i].types
        /\ w.cls = e.infos[i].cls /\ w.operator = e.infos[i].operator
        /\ w[f] = v /\ \A g \in Lists : g # f => w[g] = e.infos[i][g]
    BY <1>1, <1>4 DEF InfoOK, Fields, Lists
  <1>6. InfoOK(w, New(e), e.counter)
    <2>1. ClassOK(w)
      BY <1>4, <1>5 DEF InfoOK, ClassOK
    <2> QED  BY <1>4, <1>5, <2>1 DEF InfoOK, Lists
  <1>7. Changed(e, d, i, w)
    BY <1>2, <1>6, Change
  <1> QED  BY <1>3, <1>5, <1>7 DEF Changed, Listed

LEMMA RemoveFirstKeeps ==
    ASSUME NEW S, NEW s \in Seq(S), NEW c
    PROVE  /\ RemoveFirst(s, c) \in Seq(S)
           /\ \A y : Contains(s, y) /\ y # c => Contains(RemoveFirst(s, c), y)
           /\ \A y : Contains(RemoveFirst(s, c), y) => Contains(s, y)
           /\ \A y : TwiceIn(s, y) /\ y # c => TwiceIn(RemoveFirst(s, c), y)
  <1>1. CASE Contains(s, c)
    BY <1>1, RemovesOnly
  <1>2. CASE ~Contains(s, c)
    <2>1. RemoveFirst(s, c) = s
      BY <1>2, Zenon DEF RemoveFirst, Contains
    <2> QED  BY <2>1
  <1> QED  BY <1>1, <1>2

\* The last step of merging c: its sinks and broadcast variables are those of p too,
\* and the c-th set leaves.
Merge(r, p, A, B, C, D) ==
    [r EXCEPT !.infos[p].sinks = A, !.infos[p].bcvars = B, !.infos[p].children = C, !.sets = D]

LEMMA MergeStep ==
    ASSUME NEW r, Typed(r), NEW p \in 1 .. New(r), NEW A, NEW B, NEW C, NEW D,
           A \in Seq(1 .. New(r)), B \in Seq(1 .. New(r)), C \in Seq(1 .. New(r)),
           D \in Seq(1 .. New(r))
    PROVE  LET d == Merge(r, p, A, B, C, D) IN
           /\ Typed(d) /\ New(d) = New(r) /\ d.counter = r.counter
           /\ d.sources = r.sources /\ d.sets = D /\ d.sinks = r.sinks
           /\ d.broadcast = r.broadcast
           /\ \A j \in 1 .. New(r) :
                 /\ d.infos[j].identifier = r.infos[j].identifier /\ d.infos[j].id = r.infos[j].id
                 /\ d.infos[j].chained = r.infos[j].chained /\ d.infos[j].types = r.infos[j].types
                 /\ d.infos[j].parent = r.infos[j].parent /\ d.infos[j].other = r.infos[j].other
                 /\ d.infos[j].sinks = IF j = p THEN A ELSE r.infos[j].sinks
                 /\ d.infos[j].bcvars = IF j = p THEN B ELSE r.infos[j].bcvars
                 /\ d.infos[j].children = IF j = p THEN C ELSE r.infos[j].children
  <1>1. PICK f : f = WithField(r, p, "sinks", A)
    OBVIOUS
  <1>2. PICK g : g = WithField(f, p, "bcvars", B)
    OBVIOUS
  <1>3. PICK h : h = WithField(g, p, "children", C)
    OBVIOUS
  <1>4. PICK d : d = [h EXCEPT !.sets = D]
    OBVIOUS
  <1>5. Merge(r, p, A, B, C, D) = d
    BY <1>1, <1>2, <1>3, <1>4, Zenon DEF Merge, WithField
  <1>6. "sinks" \in Lists /\ "bcvars" \in Lists /\ "children" \in Lists
    BY DEF Lists
  <1>7. Listed(r, f, p, "sinks", A)
    BY <1>1, <1>6, ListStep
  <1>8. Typed(f) /\ New(f) = New(r) /\ p \in 1 .. New(f) /\ B \in Seq(1 .. New(f))
    BY <1>7 DEF Listed
  <1>9. Listed(f, g, p, "bcvars", B)
    BY <1>2, <1>6, <1>8, ListStep
  <1>10. Typed(g) /\ New(g) = New(r) /\ p \in 1 .. New(g) /\ C \in Seq(1 .. New(g))
    BY <1>8, <1>9 DEF Listed
  <1>11. Listed(g, h, p, "children", C)
    BY <1>3, <1>6, <1>10, ListStep
  <1>12. Typed(h) /\ New(h) = New(r)
    BY <1>10, <1>11 DEF Listed
  <1>13. /\ d.infos = h.infos /\ d.counter = h.counter /\ d.sources = h.sources
         /\ d.sinks = h.sinks /\ d.broadcast = h.broadcast /\ d.sets = D /\ DOMAIN d = EnvFields
    BY <1>4, <1>12 DEF Typed, EnvFields
  <1>14. New(d) = New(r)
    BY <1>12, <1>13 DEF New
  <1>15. Typed(d)
    BY <1>12, <1>13, <1>14 DEF Typed
  <1>16. ASSUME NEW j \in 1 .. New(r)
         PROVE   /\ d.infos[j].identifier = r.infos[j].identifier /\ d.infos[j].id = r.infos[j].id
                 /\ d.infos[j].chained = r.infos[j].chained /\ d.infos[j].types = r.infos[j].types
                 /\ d.infos[j].parent = r.infos[j].parent /\ d.infos[j].other = r.infos[j].other
                 /\ d.infos[j].sinks = IF j = p THEN A ELSE r.infos[j].sinks
                 /\ d.infos[j].bcvars = IF j = p THEN B ELSE r.infos[j].bcvars
                 /\ d.infos[j].children = IF j = p THEN C ELSE r.infos[j].children
    <2>1. /\ h.infos[j].identifier = r.infos[j].identifier /\ h.infos[j].id = r.infos[j].id
          /\ h.infos[j].chained = r.infos[j].chained /\ h.infos[j].types = r.infos[j].types
          /\ h.infos[j].parent = r.infos[j].parent /\ h.infos[j].other = r.infos[j].other
      <3>1. /\ f.infos[j].identifier = r.infos[j].identifier /\ f.infos[j].id = r.infos[j].id
            /\ f.infos[j].chained = r.infos[j].chained /\ f.infos[j].types = r.infos[j].types
            /\ f.infos[j].parent = r.infos[j].parent /\ f.infos[j].other = r.infos[j].other
        BY <1>7 DEF Listed
      <3>2. /\ g.infos[j].identifier = f.infos[j].identifier /\ g.infos[j].id = f.infos[j].id
            /\ g.infos[j].chained = f.infos[j].chained /\ g.infos[j].types = f.infos[j].types
            /\ g.infos[j].parent = f.infos[j].parent /\ g.infos[j].other = f.infos[j].other
        BY <1>8, <1>9 DEF Listed
      <3>3. /\ h.infos[j].identifier = g.infos[j].identifier /\ h.infos[j].id = g.infos[j].id
            /\ h.infos[j].chained = g.infos[j].chained /\ h.infos[j].types = g.infos[j].types
            /\ h.infos[j].parent = g.infos[j].parent /\ h.infos[j].other = g.infos[j].other
        BY <1>10, <1>11 DEF Listed
      <3> QED  BY <3>1, <3>2, <3>3
    <2>2. /\ f.infos[j].sinks = IF j = p THEN A ELSE r.infos[j].sinks
          /\ f.infos[j].bcvars = r.infos[j].bcvars /\ f.infos[j].children = r.infos[j].children
      BY <1>6, <1>7 DEF Listed
    <2>3. /\ g.infos[j].bcvars = IF j = p THEN B ELSE f.infos[j].bcvars
          /\ g.infos[j].sinks = f.infos[j].sinks /\ g.infos[j].children = f.infos[j].children
      BY <1>6, <1>8, <1>9 DEF Listed
    <2>4. /\ h.infos[j].children = IF j = p THEN C ELSE g.infos[j].children
          /\ h.infos[j].sinks = g.infos[j].sinks /\ h.infos[j].bcvars = g.infos[j].bcvars
      BY <1>6, <1>10, <1>11 DEF Listed
    <2> QED  BY <1>13, <2>1, <2>2, <2>3, <2>4
  <1>17. /\ d.counter = r.counter /\ d.sources = r.sources /\ d.sinks = r.sinks
         /\ d.broadcast = r.broadcast
    BY <1>7, <1>9, <1>11, <1>13 DEF Listed
  <1> QED  BY <1>5, <1>13, <1>14, <1>15, <1>16, <1>17

\* What is merged is the only child of its parent, a set created before it.
LEMMA OnlyChild ==
    ASSUME NEW e, Whole(e), NEW c, Contains(e.sets, c), MayChain(e, c)
    PROVE  /\ c \in 1 .. New(e) /\ e.infos[c].parent \in 1 .. New(e)
           /\ Reads(e, e.infos[c].parent, c)
           /\ \A y : Reads(e, e.infos[c].parent, y) => y = c
           /\ e.infos[e.infos[c].parent].sinks = <<>>
           /\ e.infos[c].parent < c /\ Contains(e.sets, e.infos[c].parent)
  <1>1. PICK p : p = e.infos[c].parent
    OBVIOUS
  <1>2. /\ Len(e.infos[p].children) = 1 /\ e.infos[p].sinks = <<>>
        /\ e.infos[c].identifier \in Chainable /\ e.infos[p].operator # NoFun
    BY <1>1 DEF MayChain
  <1>3. c \in 1 .. New(e)
    BY ContainsIn DEF Whole, Typed
  <1>4. Reads(e, p, c)
    BY <1>1, <1>3 DEF Whole, Sane, Registered, SetKnown
  <1>5. \A y : Reads(e, p, y) => y = c
    <2>1. \A y : Reads(e, p, y) => y = e.infos[p].children[1]
      BY <1>2 DEF Reads, Contains
    <2> QED  BY <1>4, <2>1
  <1>6. p \in 1 .. New(e) /\ MayRead(e, p, c)
    BY <1>3, <1>4 DEF Reads, Whole, Sane, Kinds
  <1>7. p < c
    BY <1>2, <1>6 DEF MayRead
  <1>8. Sent(e, p)
    BY <1>1, <1>3 DEF Whole, Sane, Resolved, Fed
  <1>9. ~Contains(e.sources, p)
    <2>1. e.infos[p].identifier \notin Sources
      BY <1>2, <1>6 DEF Whole, Typed, InfoOK, ClassOK
    <2> QED  BY <1>6, <2>1 DEF Whole, Sane, Kinds
  <1> QED  BY <1>1, <1>2, <1>3, <1>4, <1>5, <1>7, <1>8, <1>9 DEF Reads, Sent

\* The q-th set c is merged into its parent p.
Merged(e, q, c, p) == c = e.sets[q] /\ p = e.infos[c].parent /\ MayChain(e, c)

\* What is left of e then: a plan that lacks c, for p runs the function of c.
Chained(e, d, q, c, p) ==
    /\ Whole(d) /\ New(d) = New(e) /\ Len(d.sets) = Len(e.sets) - 1
    /\ d.sources = e.sources /\ d.sinks = e.sinks /\ d.broadcast = e.broadcast
    /\ c \in 1 .. New(e) /\ p \in 1 .. New(e) /\ p < c /\ Contains(e.sets, p)
    /\ d.infos[p].chained = c /\ d.infos[p].types = e.infos[c].types
    /\ \A j \in 1 .. New(e) : j # p => /\ d.infos[j].chained = e.infos[j].chained
                                     /\ d.infos[j].types = e.infos[j].types
    /\ \A j \in 1 .. New(e) : d.infos[j].identifier = e.infos[j].identifier
    /\ \A y : Contains(d.sets, y) <=> Contains(e.sets, y) /\ y # c
    /\ \A k \in 1 .. q - 1 :
          /\ d.sets[k] = e.sets[k]
          /\ e.infos[e.sets[k]].identifier \in Chainable =>
                d.infos[e.sets[k]].parent = e.infos[e.sets[k]].parent

LEMMA KindsApart ==
    /\ SetKinds \cap (Sources \cup SinkKinds \cup {"broadcast"}) = {}
    /\ Sources \cap (SinkKinds \cup {"broadcast"}) = {}
    /\ "broadcast" \notin SinkKinds
  BY DEF SetKinds, Sources, SinkKinds

LEMMA ChainStep ==
    ASSUME NEW e, Whole(e), NEW q \in 1 .. Len(e.sets), NEW c, NEW p, Merged(e, q, c, p)
    PROVE  Chained(e, Chain(e, c), q, c, p)
  <1>1. PICK info : info = e.infos[c]
    OBVIOUS
  <1>2. PICK b : b = Begin(e, p, c, info.types)
    OBVIOUS
  <1>3. PICK readers : readers = info.children
    OBVIOUS
  <1>4. PICK m : m = ReparentAll(b, p, c, readers)
    OBVIOUS
  <1>5. PICK r : r = Redirect(m, p, c)
    OBVIOUS
  <1>6. PICK A : A = r.infos[p].sinks \o info.sinks
    OBVIOUS
  <1>7. PICK B : B = r.infos[p].bcvars \o info.bcvars
    OBVIOUS
  <1>8. PICK C : C = RemoveFirst(r.infos[p].children, c)
    OBVIOUS
  <1>9. PICK K : K = {k \in DOMAIN r.sets : r.infos[r.sets[k]].id # info.id}
    OBVIOUS
  <1>10. PICK D : D = Picked(r.sets, K)
    OBVIOUS
  <1>11. PICK d : d = Merge(r, p, A, B, C, D)
    OBVIOUS
  <1>12. Chain(e, c) = d
    BY <1>1, <1>2, <1>3, <1>4, <1>5, <1>6, <1>7, <1>8, <1>9, <1>10, <1>11, Zenon
       DEF Chain, Merge, Begin, Merged
  <1>13. /\ Typed(e) /\ Kinds(e) /\ Registered(e) /\ UniqueIds(e) /\ Once(e) /\ Numbered(e)
         /\ Ordered(e) /\ Resolved(e)
         /\ e.sets \in Seq(1 .. New(e)) /\ Len(e.sets) \in Nat /\ New(e) \in Nat
    BY LenProperties, KnownLen DEF Whole, Typed, Sane
  <1>14. Contains(e.sets, c) /\ c = e.sets[q] /\ e.infos[c].identifier \in Chainable
    BY DEF Contains, Merged, MayChain
  <1>15. /\ c \in 1 .. New(e) /\ p \in 1 .. New(e) /\ e.infos[p].sinks = <<>>
         /\ p < c /\ p # c /\ Contains(e.sets, p) /\ Sent(e, p)
    <2>1. MayChain(e, c) /\ p = e.infos[c].parent
      BY DEF Merged
    <2>2. /\ c \in 1 .. New(e) /\ p \in 1 .. New(e) /\ e.infos[p].sinks = <<>>
          /\ p < c /\ Contains(e.sets, p)
      BY <1>14, <2>1, OnlyChild
    <2> QED  BY <2>2 DEF Sent
  <1>16. /\ Whole(b) /\ New(b) = New(e) /\ b.sources = e.sources /\ b.sets = e.sets
         /\ b.sinks = e.sinks /\ b.broadcast = e.broadcast
         /\ b.infos[p].chained = c /\ b.infos[p].types = e.infos[c].types
         /\ \A j \in 1 .. New(e) : j # p => /\ b.infos[j].chained = e.infos[j].chained
                                          /\ b.infos[j].types = e.infos[j].types
         /\ \A j \in 1 .. New(e) :
                /\ b.infos[j].identifier = e.infos[j].identifier /\ b.infos[j].id = e.infos[j].id
                /\ b.infos[j].parent = e.infos[j].parent /\ b.infos[j].other = e.infos[j].other
                /\ b.infos[j].sinks = e.infos[j].sinks /\ b.infos[j].bcvars = e.infos[j].bcvars
                /\ b.infos[j].children = e.infos[j].children
    <2>1. PICK ts : ts = e.infos[c].types
      OBVIOUS
    <2>2. b = Begin(e, p, c, ts)
      BY <1>1, <1>2, <2>1
    <2>3. LET g == Begin(e, p, c, ts) IN
          /\ Whole(g) /\ New(g) = New(e) /\ g.sources = e.sources /\ g.sets = e.sets
          /\ g.sinks = e.sinks /\ g.broadcast = e.broadcast
          /\ g.infos[p].chained = c /\ g.infos[p].types = ts
          /\ \A j \in 1 .. New(e) : j # p => /\ g.infos[j].chained = e.infos[j].chained
                                           /\ g.infos[j].types = e.infos[j].types
          /\ \A j \in 1 .. New(e) :
                /\ g.infos[j].identifier = e.infos[j].identifier /\ g.infos[j].id = e.infos[j].id
                /\ g.infos[j].parent = e.infos[j].parent /\ g.infos[j].other = e.infos[j].other
                /\ g.infos[j].sinks = e.infos[j].sinks /\ g.infos[j].bcvars = e.infos[j].bcvars
                /\ g.infos[j].children = e.infos[j].children
      BY <1>15, BeginStep
    <2> QED  BY <2>1, <2>2, <2>3
  <1>17. /\ Typed(b) /\ Sane(b) /\ p \in 1 .. New(b) /\ c \in 1 .. New(b) /\ Sent(b, p)
         /\ b.infos[c].id # -1 /\ readers = b.infos[c].children
    <2>1. Sent(b, p)
      BY <1>15, <1>16 DEF Sent
    <2>2. b.infos[c].id # -1
      BY <1>13, <1>14, <1>15, <1>16 DEF Numbered
    <2>3. readers = b.infos[c].children
      BY <1>1, <1>3, <1>15, <1>16
    <2> QED  BY <1>15, <1>16, <2>1, <2>2, <2>3 DEF Whole
  <1>18. /\ Moved(b, m, c)
         /\ \A s \in 1 .. New(b) : Contains(b.sets, s) => c \notin {m.infos[s].parent, m.infos[s].other}
    BY <1>4, <1>15, <1>17, LoopMoved
  <1>19. Typed(m) /\ New(m) = New(e) /\ p \in 1 .. New(m) /\ c \in 1 .. New(m)
    BY <1>15, <1>16, <1>18 DEF Moved
  <1>20. Redirected(m, r, p, c)
    BY <1>5, <1>19, RedirectStep
  <1>21. Typed(r) /\ New(r) = New(e) /\ p \in 1 .. New(r) /\ r.sets = e.sets
         /\ r.sinks = e.sinks /\ r.broadcast = e.broadcast /\ r.sources = e.sources
    BY <1>16, <1>18, <1>19, <1>20 DEF Redirected, Moved
  <1>22. \A j \in 1 .. New(e) :
           /\ r.infos[j].identifier = e.infos[j].identifier /\ r.infos[j].id = e.infos[j].id
           /\ r.infos[j].chained = b.infos[j].chained /\ r.infos[j].types = b.infos[j].types
           /\ r.infos[j].sinks = e.infos[j].sinks /\ r.infos[j].bcvars = e.infos[j].bcvars
           /\ r.infos[j].children = m.infos[j].children
           /\ r.infos[j].parent =
                IF Contains(e.infos[c].sinks, j) \/ Contains(e.infos[c].bcvars, j)
                THEN p ELSE m.infos[j].parent
           /\ r.infos[j].other =
                IF Contains(e.broadcast, j) /\ m.infos[m.infos[j].other].id = m.infos[c].id
                THEN p ELSE m.infos[j].other
    <2> TAKE j \in 1 .. New(e)
    <2>1. /\ m.infos[j].identifier = b.infos[j].identifier /\ m.infos[j].id = b.infos[j].id
          /\ m.infos[j].chained = b.infos[j].chained /\ m.infos[j].types = b.infos[j].types
          /\ m.infos[j].sinks = b.infos[j].sinks /\ m.infos[j].bcvars = b.infos[j].bcvars
          /\ m.infos[c].sinks = b.infos[c].sinks /\ m.infos[c].bcvars = b.infos[c].bcvars
          /\ m.broadcast = b.broadcast
      BY <1>15, <1>16, <1>18 DEF Moved
    <2>2. /\ r.infos[j].identifier = m.infos[j].identifier /\ r.infos[j].id = m.infos[j].id
          /\ r.infos[j].chained = m.infos[j].chained /\ r.infos[j].types = m.infos[j].types
          /\ r.infos[j].sinks = m.infos[j].sinks /\ r.infos[j].bcvars = m.infos[j].bcvars
          /\ r.infos[j].children = m.infos[j].children
          /\ r.infos[j].parent =
               IF Contains(m.infos[c].sinks, j) \/ Contains(m.infos[c].bcvars, j)
               THEN p ELSE m.infos[j].parent
          /\ r.infos[j].other =
               IF Contains(m.broadcast, j) /\ m.infos[m.infos[j].other].id = m.infos[c].id
               THEN p ELSE m.infos[j].other
      BY <1>19, <1>20 DEF Redirected
    <2>3. /\ b.infos[j].identifier = e.infos[j].identifier /\ b.infos[j].id = e.infos[j].id
          /\ b.infos[j].sinks = e.infos[j].sinks /\ b.infos[j].bcvars = e.infos[j].bcvars
          /\ b.infos[c].sinks = e.infos[c].sinks /\ b.infos[c].bcvars = e.infos[c].bcvars
          /\ b.broadcast = e.broadcast
      BY <1>15, <1>16
    <2> QED  BY <2>1, <2>2, <2>3
  <1>23. /\ A \in Seq(1 .. New(r)) /\ B \in Seq(1 .. New(r))
         /\ \A y : Contains(A, y) <=> (Contains(e.infos[p].sinks, y) \/ Contains(e.infos[c].sinks, y))
         /\ \A y : Contains(B, y) <=> (Contains(e.infos[p].bcvars, y) \/ Contains(e.infos[c].bcvars, y))
    <2>1. PICK T : T = 1 .. New(e)
      OBVIOUS
    <2>2. PICK s1 : s1 = e.infos[p].sinks
      OBVIOUS
    <2>3. PICK s2 : s2 = e.infos[c].sinks
      OBVIOUS
    <2>4. PICK b1 : b1 = e.infos[p].bcvars
      OBVIOUS
    <2>5. PICK b2 : b2 = e.infos[c].bcvars
      OBVIOUS
    <2>6. s1 \in Seq(T) /\ s2 \in Seq(T) /\ b1 \in Seq(T) /\ b2 \in Seq(T)
      BY <1>13, <1>15, <2>1, <2>2, <2>3, <2>4, <2>5 DEF Typed, InfoOK
    <2>7. /\ s1 \o s2 \in Seq(T) /\ b1 \o b2 \in Seq(T)
          /\ \A y : Contains(s1 \o s2, y) <=> (Contains(s1, y) \/ Contains(s2, y))
          /\ \A y : Contains(b1 \o b2, y) <=> (Contains(b1, y) \/ Contains(b2, y))
      BY <2>6, ContainsConcat
    <2>8. A = s1 \o s2 /\ B = b1 \o b2
      BY <1>1, <1>6, <1>7, <1>15, <1>22, <2>2, <2>3, <2>4, <2>5
    <2> QED  BY <1>21, <2>1, <2>2, <2>3, <2>4, <2>5, <2>7, <2>8
  <1>24. /\ C \in Seq(1 .. New(r))
         /\ \A y : Contains(r.infos[p].children, y) /\ y # c => Contains(C, y)
         /\ \A y : Contains(C, y) => Contains(r.infos[p].children, y)
         /\ \A y : TwiceIn(r.infos[p].children, y) /\ y # c => TwiceIn(C, y)
    <2>1. PICK T : T = 1 .. New(r)
      OBVIOUS
    <2>2. PICK l : l = r.infos[p].children
      OBVIOUS
    <2>3. l \in Seq(T)
      BY <1>21, <2>1, <2>2 DEF Typed, InfoOK
    <2>4. /\ RemoveFirst(l, c) \in Seq(T)
          /\ \A y : Contains(l, y) /\ y # c => Contains(RemoveFirst(l, c), y)
          /\ \A y : Contains(RemoveFirst(l, c), y) => Contains(l, y)
          /\ \A y : TwiceIn(l, y) /\ y # c => TwiceIn(RemoveFirst(l, c), y)
      BY <2>3, RemoveFirstKeeps
    <2> QED  BY <1>8, <2>1, <2>2, <2>4
  <1>25. K = 1 .. Len(e.sets) \ {q}
    <2>1. DOMAIN e.sets = 1 .. Len(e.sets) /\ \A k \in 1 .. Len(e.sets) : e.sets[k] \in 1 .. New(e)
      BY <1>13, LenProperties, ElementOfSeq
    <2>2. info.id # -1 /\ info.id = e.infos[c].id
      BY <1>1, <1>13, <1>14, <1>15 DEF Numbered
    <2>3. ASSUME NEW k \in 1 .. Len(e.sets) PROVE r.infos[e.sets[k]].id # info.id <=> k # q
      <3>1. PICK s : s = e.sets[k]
        OBVIOUS
      <3>2. s \in 1 .. New(e) /\ r.infos[s].id = e.infos[s].id
        BY <1>22, <2>1, <3>1
      <3>3. s = c <=> k = q
        BY <1>13, <1>14, <3>1 DEF Once, IsOnce
      <3>4. e.infos[s].id = e.infos[c].id <=> s = c
        BY <1>13, <1>15, <2>2, <3>2 DEF UniqueIds
      <3> QED  BY <2>2, <3>1, <3>2, <3>3, <3>4
    <2> QED  BY <1>9, <1>21, <2>1, <2>3
  <1>26. /\ D \in Seq(1 .. New(r)) /\ Len(D) = Len(e.sets) - 1
         /\ \A n \in 1 .. Len(e.sets) - 1 : D[n] = IF n < q THEN e.sets[n] ELSE e.sets[n + 1]
    <2>1. PICK T : T = 1 .. New(e)
      OBVIOUS
    <2>2. PICK l : l = e.sets
      OBVIOUS
    <2>3. l \in Seq(T) /\ q \in 1 .. Len(l)
      BY <1>13, <2>1, <2>2
    <2>4. LET t == Picked(l, 1 .. Len(l) \ {q}) IN
           /\ t \in Seq(T) /\ Len(t) = Len(l) - 1
           /\ \A n \in 1 .. Len(l) - 1 : t[n] = IF n < q THEN l[n] ELSE l[n + 1]
      BY <2>3, PickedBut
    <2>5. D = Picked(l, 1 .. Len(l) \ {q})
      BY <1>10, <1>21, <1>25, <2>2
    <2> QED  BY <1>21, <2>1, <2>2, <2>4, <2>5
  <1>27. IsOnce(D)
    <2> SUFFICES ASSUME NEW i \in 1 .. Len(D), NEW j \in 1 .. Len(D), D[i] = D[j] PROVE i = j
      BY DEF IsOnce
    <2>1. PICK k : k = IF i < q THEN i ELSE i + 1
      OBVIOUS
    <2>2. PICK l : l = IF j < q THEN j ELSE j + 1
      OBVIOUS
    <2>2a. Len(D) = Len(e.sets) - 1 /\ Len(e.sets) \in Nat /\ i \in 1 .. Len(D) /\ j \in 1 .. Len(D)
      BY <1>13, <1>26
    <2>3. k \in 1 .. Len(e.sets) /\ l \in 1 .. Len(e.sets)
      BY <2>1, <2>2, <2>2a
    <2>4. D[i] = e.sets[k] /\ D[j] = e.sets[l]
      BY <1>26, <2>1, <2>2
    <2>5. k = l
      BY <1>13, <2>3, <2>4 DEF Once, IsOnce
    <2> QED  BY <1>13, <1>26, <2>1, <2>2, <2>5
  <1>28. \A y : Contains(D, y) <=> Contains(e.sets, y) /\ y # c
    <2>1. ASSUME NEW y, Contains(D, y) PROVE Contains(e.sets, y) /\ y # c
      <3>1. PICK i \in 1 .. Len(D) : D[i] = y
        BY <2>1 DEF Contains
      <3>2. PICK k : k = IF i < q THEN i ELSE i + 1
        OBVIOUS
      <3>3. k \in 1 .. Len(e.sets) /\ k # q
        BY <1>13, <1>26, <3>2
      <3>4. e.sets[k] = y
        BY <1>26, <3>1, <3>2
      <3>5. y # c
        BY <1>13, <1>14, <3>3, <3>4 DEF Once, IsOnce
      <3> QED  BY <3>3, <3>4, <3>5 DEF Contains
    <2>2. ASSUME NEW y, Contains(e.sets, y), y # c PROVE Contains(D, y)
      <3>1. PICK k \in 1 .. Len(e.sets) : e.sets[k] = y
        BY <2>2 DEF Contains
      <3>2. k # q
        BY <1>14, <2>2, <3>1
      <3>3. PICK i : i = IF k < q THEN k ELSE k - 1
        OBVIOUS
      <3>4. i \in 1 .. Len(e.sets) - 1 /\ k = IF i < q THEN i ELSE i + 1
        BY <1>13, <3>2, <3>3
      <3>5. i \in 1 .. Len(D) /\ D[i] = y
        BY <1>26, <3>1, <3>4
      <3> QED  BY <3>5 DEF Contains
    <2> QED  BY <2>1, <2>2
  <1>29. /\ Typed(d) /\ New(d) = New(e) /\ d.sets = D /\ d.sinks = e.sinks
         /\ d.broadcast = e.broadcast /\ d.sources = e.sources
         /\ \A j \in 1 .. New(e) :
                 /\ d.infos[j].identifier = r.infos[j].identifier /\ d.infos[j].id = r.infos[j].id
                 /\ d.infos[j].chained = r.infos[j].chained /\ d.infos[j].types = r.infos[j].types
                 /\ d.infos[j].parent = r.infos[j].parent /\ d.infos[j].other = r.infos[j].other
                 /\ d.infos[j].sinks = IF j = p THEN A ELSE r.infos[j].sinks
                 /\ d.infos[j].bcvars = IF j = p THEN B ELSE r.infos[j].bcvars
                 /\ d.infos[j].children = IF j = p THEN C ELSE r.infos[j].children
    <2>1. /\ A \in Seq(1 .. New(r)) /\ B \in Seq(1 .. New(r)) /\ C \in Seq(1 .. New(r))
          /\ D \in Seq(1 .. New(r)) /\ Typed(r) /\ p \in 1 .. New(r)
      BY <1>21, <1>23, <1>24, <1>26
    <2>2. /\ Typed(d) /\ New(d) = New(r) /\ d.sets = D /\ d.sinks = r.sinks
          /\ d.broadcast = r.broadcast /\ d.sources = r.sources
          /\ \A j \in 1 .. New(r) :
                 /\ d.infos[j].identifier = r.infos[j].identifier /\ d.infos[j].id = r.infos[j].id
                 /\ d.infos[j].chained = r.infos[j].chained /\ d.infos[j].types = r.infos[j].types
                 /\ d.infos[j].parent = r.infos[j].parent /\ d.infos[j].other = r.infos[j].other
                 /\ d.infos[j].sinks = IF j = p THEN A ELSE r.infos[j].sinks
                 /\ d.infos[j].bcvars = IF j = p THEN B ELSE r.infos[j].bcvars
                 /\ d.infos[j].children = IF j = p THEN C ELSE r.infos[j].children
      BY <1>11, <2>1, MergeStep
    <2>3. New(r) = New(e) /\ r.sinks = e.sinks /\ r.broadcast = e.broadcast /\ r.sources = e.sources
      BY <1>21
    <2> QED  BY <2>2, <2>3
  <1>30. \A j \in 1 .. New(e) :
           /\ d.infos[j].identifier = e.infos[j].identifier /\ d.infos[j].id = e.infos[j].id
           /\ d.infos[j].parent =
                IF Contains(e.infos[c].sinks, j) \/ Contains(e.infos[c].bcvars, j)
                THEN p ELSE m.infos[j].parent
           /\ d.infos[j].other =
                IF Contains(e.broadcast, j) /\ m.infos[m.infos[j].other].id = m.infos[c].id
                THEN p ELSE m.infos[j].other
    BY <1>22, <1>29
  <1>31. /\ New(m) = New(e) /\ m.sources = e.sources /\ m.sets = e.sets
         /\ \A y : Sent(m, y) <=> Sent(e, y)
         /\ \A y : Sent(e, y) /\ y # c => Sent(d, y)
         /\ Sent(d, p)
    <2>1. New(m) = New(e) /\ m.sources = e.sources /\ m.sets = e.sets
      BY <1>16, <1>18 DEF Moved
    <2> QED  BY <1>15, <1>28, <1>29, <2>1 DEF Sent
  \* The sets, and what is not one.
  <1>32. ASSUME NEW s \in 1 .. New(e), Contains(e.sets, s)
         PROVE  /\ d.infos[s].parent = m.infos[s].parent /\ d.infos[s].other = m.infos[s].other
                /\ SetKnown(m, s) /\ Fed(m, s)
                /\ m.infos[s].parent # c /\ m.infos[s].other # c
                /\ e.infos[s].identifier \in SetKinds
                /\ e.infos[s].identifier \notin Dual => m.infos[s].other = 0
    <2>1. e.infos[s].identifier \in SetKinds
      BY <1>13, <1>32 DEF Kinds
    <2>2. /\ ~Contains(e.infos[c].sinks, s) /\ ~Contains(e.infos[c].bcvars, s)
          /\ ~Contains(e.broadcast, s)
      BY <1>13, <1>15, <2>1, KindsApart DEF Kinds
    <2>3. s \in 1 .. New(b) /\ Contains(b.sets, s) /\ b.infos[s].identifier = e.infos[s].identifier
      BY <1>16, <1>32
    <2>4. /\ SetKnown(m, s) /\ Fed(m, s) /\ m.infos[s].parent # c /\ m.infos[s].other # c
          /\ e.infos[s].identifier \notin Dual => m.infos[s].other = 0
      BY <1>18, <2>3 DEF Moved
    <2> QED  BY <1>30, <2>1, <2>2, <2>4
  <1>33. ASSUME NEW s \in 1 .. New(e),
                e.infos[s].identifier \in SetKinds => e.infos[s].identifier \in Chainable /\ s < c
         PROVE  m.infos[s].parent = e.infos[s].parent /\ m.infos[s].other = e.infos[s].other
    <2>1. ~Reads(b, c, s)
      <3> SUFFICES ASSUME Reads(b, c, s) PROVE FALSE
        OBVIOUS
      <3>1. s \in 1 .. New(b) /\ c \in 1 .. New(b) /\ b.infos[s].identifier = e.infos[s].identifier
        BY <1>16, <1>17
      <3>2. MayRead(b, c, s)
        BY <1>17, <3>1 DEF Sane, Kinds, Reads
      <3>3. e.infos[s].identifier \in SetKinds
        BY <3>1, <3>2 DEF MayRead
      <3> QED  BY <1>15, <1>33, <3>1, <3>2, <3>3 DEF MayRead
    <2>2. m.infos[s].parent = b.infos[s].parent /\ m.infos[s].other = b.infos[s].other
      BY <1>16, <1>18, <2>1 DEF Moved
    <2> QED  BY <1>16, <2>2
  <1>34. ASSUME NEW s \in 1 .. New(e),
                Contains(e.sources, s) \/ Contains(e.sinks, s) \/ Contains(e.broadcast, s)
         PROVE  m.infos[s].parent = e.infos[s].parent /\ m.infos[s].other = e.infos[s].other
    <2>1. e.infos[s].identifier \notin SetKinds
      BY <1>13, <1>34, KindsApart DEF Kinds
    <2> QED  BY <1>33, <2>1
  <1>35. ASSUME NEW s \in 1 .. New(e), Contains(e.sinks, s) \/ Contains(e.broadcast, s)
         PROVE  /\ e.infos[s].parent \in 1 .. New(e) /\ Sent(e, e.infos[s].parent)
                /\ e.infos[s].parent = c =>
                      Contains(e.infos[c].sinks, s) \/ Contains(e.infos[c].bcvars, s)
                /\ d.infos[s].parent # c /\ Sent(d, d.infos[s].parent)
    <2>1. Sent(e, e.infos[s].parent) /\ Typed(e)
      BY <1>13, <1>35 DEF Resolved, Fed
    <2>2. e.infos[s].parent \in 1 .. New(e)
      BY <2>1, SentKnown
    <2>3. SinkKnown(e, s) \/ BroadcastKnown(e, s)
      BY <1>13, <1>35 DEF Registered
    <2>4. e.infos[s].parent = c =>
            Contains(e.infos[c].sinks, s) \/ Contains(e.infos[c].bcvars, s)
      BY <2>3 DEF SinkKnown, BroadcastKnown
    <2>5. d.infos[s].parent = p \/ (d.infos[s].parent = e.infos[s].parent /\ e.infos[s].parent # c)
      BY <1>30, <1>34, <1>35, <2>4
    <2> QED  BY <1>15, <1>31, <2>1, <2>2, <2>4, <2>5
  <1>36. Kinds(d)
    <2> SUFFICES ASSUME NEW s \in 1 .. New(e)
        PROVE /\ Contains(d.sources, s) => /\ d.infos[s].identifier \in Sources
                                           /\ d.infos[s].parent = 0 /\ d.infos[s].other = 0
              /\ Contains(d.sets, s) => /\ d.infos[s].identifier \in SetKinds
                                        /\ d.infos[s].identifier \notin Dual => d.infos[s].other = 0
              /\ Contains(d.sinks, s) => d.infos[s].identifier \in SinkKinds /\ d.infos[s].other = 0
              /\ Contains(d.broadcast, s) => d.infos[s].identifier = "broadcast"
              /\ \A i \in 1 .. New(e) :
                    /\ Contains(d.infos[i].sinks, s) => d.infos[s].identifier \in SinkKinds
                    /\ Contains(d.infos[i].bcvars, s) => d.infos[s].identifier = "broadcast"
                    /\ Contains(d.infos[i].children, s) => MayRead(d, i, s)
      BY <1>29 DEF Kinds
    <2>1. d.infos[s].identifier = e.infos[s].identifier
      BY <1>30
    <2>2. ASSUME Contains(d.sources, s)
          PROVE  /\ d.infos[s].identifier \in Sources
                 /\ d.infos[s].parent = 0 /\ d.infos[s].other = 0
      <3>1. /\ e.infos[s].identifier \in Sources /\ e.infos[s].parent = 0 /\ e.infos[s].other = 0
            /\ Contains(e.sources, s)
        BY <1>13, <1>29, <2>2 DEF Kinds
      <3>2. /\ ~Contains(e.infos[c].sinks, s) /\ ~Contains(e.infos[c].bcvars, s)
            /\ ~Contains(e.broadcast, s)
        BY <1>13, <1>15, <3>1, KindsApart DEF Kinds
      <3> QED  BY <1>30, <1>34, <3>1, <3>2
    <2>3. ASSUME Contains(d.sets, s)
          PROVE  /\ d.infos[s].identifier \in SetKinds
                 /\ d.infos[s].identifier \notin Dual => d.infos[s].other = 0
      <3>1. Contains(e.sets, s)
        BY <1>28, <1>29, <2>3
      <3> QED  BY <1>32, <2>1, <3>1
    <2>4. ASSUME Contains(d.sinks, s)
          PROVE  d.infos[s].identifier \in SinkKinds /\ d.infos[s].other = 0
      <3>1. /\ e.infos[s].identifier \in SinkKinds /\ e.infos[s].other = 0
            /\ Contains(e.sinks, s)
        BY <1>13, <1>29, <2>4 DEF Kinds
      <3>2. ~Contains(e.broadcast, s)
        BY <1>13, <3>1, KindsApart DEF Kinds
      <3> QED  BY <1>30, <1>34, <3>1, <3>2
    <2>5. Contains(d.broadcast, s) => d.infos[s].identifier = "broadcast"
      BY <1>13, <1>29, <2>1 DEF Kinds
    <2>6. ASSUME NEW i \in 1 .. New(e)
          PROVE  /\ Contains(d.infos[i].sinks, s) => d.infos[s].identifier \in SinkKinds
                 /\ Contains(d.infos[i].bcvars, s) => d.infos[s].identifier = "broadcast"
      <3>1. /\ r.infos[i].sinks = e.infos[i].sinks /\ r.infos[i].bcvars = e.infos[i].bcvars
            /\ d.infos[i].sinks = IF i = p THEN A ELSE r.infos[i].sinks
            /\ d.infos[i].bcvars = IF i = p THEN B ELSE r.infos[i].bcvars
        BY <1>22, <1>29
      <3>2. \A k \in 1 .. New(e) :
               /\ Contains(e.infos[k].sinks, s) => e.infos[s].identifier \in SinkKinds
               /\ Contains(e.infos[k].bcvars, s) => e.infos[s].identifier = "broadcast"
        BY <1>13 DEF Kinds
      <3>3. CASE i = p
        BY <1>15, <1>23, <2>1, <3>1, <3>2, <3>3
      <3>4. CASE i # p
        BY <2>1, <3>1, <3>2, <3>4
      <3> QED  BY <3>3, <3>4
    <2>7. ASSUME NEW i \in 1 .. New(e), Contains(d.infos[i].children, s) PROVE MayRead(d, i, s)
      <3>1. Contains(r.infos[i].children, s)
        BY <1>24, <1>29, <2>7
      <3>2. Reads(m, i, s)
        BY <1>19, <1>22, <3>1 DEF Reads
      <3>3. MayRead(b, i, s)
        BY <1>16, <1>18, <3>2 DEF Moved
      <3> QED  BY <1>16, <2>1, <3>3 DEF MayRead
    <2> QED  BY <2>2, <2>3, <2>4, <2>5, <2>6, <2>7
  <1>37. Registered(d)
    <2> SUFFICES ASSUME NEW s \in 1 .. New(e)
                 PROVE  /\ Contains(d.sets, s) => SetKnown(d, s)
                        /\ Contains(d.sinks, s) => SinkKnown(d, s)
                        /\ Contains(d.broadcast, s) => BroadcastKnown(d, s)
      BY <1>29 DEF Registered
    <2>1. ASSUME Contains(d.sets, s) PROVE SetKnown(d, s)
      <3>1. Contains(e.sets, s) /\ s # c
        BY <1>28, <1>29, <2>1
      <3>2. /\ d.infos[s].parent = m.infos[s].parent /\ d.infos[s].other = m.infos[s].other
            /\ SetKnown(m, s)
        BY <1>32, <3>1
      <3>3. ASSUME NEW i, Reads(m, i, s) PROVE Reads(d, i, s)
        <4>1. i \in 1 .. New(e) /\ Contains(r.infos[i].children, s)
          BY <1>19, <1>22, <3>3 DEF Reads
        <4>2. Contains(d.infos[i].children, s)
          BY <1>24, <1>29, <3>1, <4>1
        <4> QED  BY <1>29, <4>1, <4>2 DEF Reads
      <3>4. ASSUME NEW i, ReadsTwice(m, i, s) PROVE ReadsTwice(d, i, s)
        <4>1. i \in 1 .. New(e) /\ TwiceIn(r.infos[i].children, s)
          BY <1>19, <1>22, <3>4 DEF ReadsTwice
        <4>2. TwiceIn(d.infos[i].children, s)
          BY <1>24, <1>29, <3>1, <4>1
        <4> QED  BY <1>29, <4>1, <4>2 DEF ReadsTwice
      <3> QED  BY <3>2, <3>3, <3>4 DEF SetKnown
    <2>2. ASSUME NEW i \in 1 .. New(e)
          PROVE  /\ \A y : Contains(e.infos[i].sinks, y) => Contains(d.infos[i].sinks, y)
                 /\ \A y : Contains(e.infos[i].bcvars, y) => Contains(d.infos[i].bcvars, y)
      BY <1>22, <1>23, <1>29
    <2>3. /\ \A y : Contains(e.infos[c].sinks, y) => Contains(d.infos[p].sinks, y)
          /\ \A y : Contains(e.infos[c].bcvars, y) => Contains(d.infos[p].bcvars, y)
          /\ p # 0
      BY <1>15, <1>23, <1>29
    <2>4. ASSUME Contains(d.sinks, s) PROVE SinkKnown(d, s)
      <3>1. Contains(e.sinks, s) /\ SinkKnown(e, s)
        BY <1>13, <1>29, <2>4 DEF Registered
      <3>2. ~Contains(e.infos[c].bcvars, s)
        BY <1>13, <1>15, <3>1, KindsApart DEF Kinds
      <3>3. PICK i : i = e.infos[s].parent
        OBVIOUS
      <3>4. i \in 1 .. New(e) /\ Contains(e.infos[i].sinks, s) /\ i # 0
        BY <1>35, <3>1, <3>3 DEF SinkKnown
      <3>5. m.infos[s].parent = i
        BY <1>34, <3>1, <3>3
      <3>6. d.infos[s].parent = IF Contains(e.infos[c].sinks, s) THEN p ELSE i
        BY <1>30, <3>2, <3>5
      <3>7. Contains(d.infos[i].sinks, s)
        BY <2>2, <3>4
      <3> QED  BY <2>3, <3>4, <3>6, <3>7 DEF SinkKnown
    <2>5. ASSUME Contains(d.broadcast, s) PROVE BroadcastKnown(d, s)
      <3>1. Contains(e.broadcast, s) /\ BroadcastKnown(e, s)
        BY <1>13, <1>29, <2>5 DEF Registered
      <3>2. ~Contains(e.infos[c].sinks, s)
        BY <1>13, <1>15, <3>1, KindsApart DEF Kinds
      <3>3. PICK i : i = e.infos[s].parent
        OBVIOUS
      <3>4. i \in 1 .. New(e) /\ Contains(e.infos[i].bcvars, s) /\ i # 0
        BY <1>35, <3>1, <3>3 DEF BroadcastKnown
      <3>5. m.infos[s].parent = i
        BY <1>34, <3>1, <3>3
      <3>6. d.infos[s].parent = IF Contains(e.infos[c].bcvars, s) THEN p ELSE i
        BY <1>30, <3>2, <3>5
      <3>7. Contains(d.infos[i].bcvars, s)
        BY <2>2, <3>4
      <3> QED  BY <2>3, <3>4, <3>6, <3>7 DEF BroadcastKnown
    <2> QED  BY <2>1, <2>4, <2>5
  <1>38. UniqueIds(d)
    <2>1. \A j \in 1 .. New(e) : d.infos[j].id = e.infos[j].id
      BY <1>30
    <2> QED  BY <1>13, <1>29, <2>1 DEF UniqueIds
  <1>39. Once(d)
    BY <1>13, <1>27, <1>29 DEF Once
  <1>40. Ordered(d)
    <2> SUFFICES ASSUME NEW i \in 1 .. Len(D), NEW j \in 1 .. Len(D), i < j,
                        d.infos[D[j]].identifier \in Chainable
                 PROVE  D[i] < D[j]
      BY <1>29 DEF Ordered
    <2>1. PICK k : k = IF i < q THEN i ELSE i + 1
      OBVIOUS
    <2>2. PICK l : l = IF j < q THEN j ELSE j + 1
      OBVIOUS
    <2>3. Len(D) = Len(e.sets) - 1 /\ Len(e.sets) \in Nat /\ i \in 1 .. Len(D) /\ j \in 1 .. Len(D)
      BY <1>13, <1>26
    <2>4. k \in 1 .. Len(e.sets) /\ l \in 1 .. Len(e.sets) /\ k < l
      BY <2>1, <2>2, <2>3
    <2>5. D[i] = e.sets[k] /\ D[j] = e.sets[l]
      BY <1>26, <2>1, <2>2, <2>3
    <2>6. e.sets[l] \in 1 .. New(e)
      BY <1>13, <2>4, ElementOfSeq
    <2>7. e.infos[e.sets[l]].identifier \in Chainable
      BY <1>30, <2>5, <2>6
    <2> QED  BY <1>13, <2>4, <2>5, <2>7 DEF Ordered
  <1>41. Resolved(d)
    <2> SUFFICES ASSUME NEW s \in 1 .. New(e),
                        Contains(d.sets, s) \/ Contains(d.sinks, s) \/ Contains(d.broadcast, s)
                 PROVE  Fed(d, s)
      BY <1>29 DEF Resolved
    <2>1. CASE Contains(d.sets, s)
      <3>1. /\ d.infos[s].parent = m.infos[s].parent /\ d.infos[s].other = m.infos[s].other
            /\ Fed(m, s) /\ m.infos[s].parent # c /\ m.infos[s].other # c
        BY <1>28, <1>29, <1>32, <2>1
      <3> QED  BY <1>31, <3>1 DEF Fed
    <2>2. CASE Contains(d.sinks, s)
      <3>1. Contains(e.sinks, s)
        BY <1>29, <2>2
      <3>2. d.infos[s].other = 0
        BY <1>29, <1>36, <2>2 DEF Kinds
      <3> QED  BY <1>35, <3>1, <3>2 DEF Fed
    <2>3. CASE Contains(d.broadcast, s)
      <3>1. Contains(e.broadcast, s) /\ m.infos[s].other = e.infos[s].other
        BY <1>29, <1>34, <2>3
      <3>2. PICK o : o = e.infos[s].other
        OBVIOUS
      <3>3. o # 0 => Sent(e, o)
        BY <1>13, <3>1, <3>2 DEF Resolved, Fed
      <3>4. d.infos[s].other = p \/ (d.infos[s].other = o /\ o # c)
        BY <1>30, <3>1, <3>2
      <3>5. d.infos[s].other # 0 => Sent(d, d.infos[s].other)
        BY <1>31, <3>3, <3>4
      <3> QED  BY <1>35, <3>1, <3>5 DEF Fed
    <2> QED  BY <2>1, <2>2, <2>3
  <1>42. Numbered(d)
    BY <1>13, <1>28, <1>29, <1>30 DEF Numbered
  <1>43. Whole(d)
    BY <1>29, <1>36, <1>37, <1>38, <1>39, <1>40, <1>41, <1>42 DEF Whole, Sane
  <1>44. /\ d.infos[p].chained = c /\ d.infos[p].types = e.infos[c].types
         /\ \A j \in 1 .. New(e) : j # p => /\ d.infos[j].chained = e.infos[j].chained
                                          /\ d.infos[j].types = e.infos[j].types
    <2>1. \A j \in 1 .. New(e) : /\ d.infos[j].chained = r.infos[j].chained
                                 /\ d.infos[j].types = r.infos[j].types
      BY <1>29
    <2>2. \A j \in 1 .. New(e) : /\ r.infos[j].chained = b.infos[j].chained
                                 /\ r.infos[j].types = b.infos[j].types
      BY <1>22
    <2> QED  BY <1>15, <1>16, <2>1, <2>2
  <1>45. ASSUME NEW k \in 1 .. q - 1
         PROVE  /\ d.sets[k] = e.sets[k]
                /\ e.infos[e.sets[k]].identifier \in Chainable =>
                      d.infos[e.sets[k]].parent = e.infos[e.sets[k]].parent
    <2>1. k \in 1 .. Len(e.sets) - 1 /\ k < q /\ k \in 1 .. Len(e.sets)
      BY <1>13
    <2>2. d.sets[k] = e.sets[k]
      BY <1>26, <1>29, <2>1
    <2>3. PICK s : s = e.sets[k]
      OBVIOUS
    <2>4. s \in 1 .. New(e) /\ Contains(e.sets, s)
      BY <1>13, <2>1, <2>3, ElementOfSeq DEF Contains
    <2>5. ASSUME e.infos[s].identifier \in Chainable
          PROVE  d.infos[s].parent = e.infos[s].parent
      <3>1. s < c
        BY <1>13, <1>14, <2>1, <2>3 DEF Ordered
      <3>2. m.infos[s].parent = e.infos[s].parent
        BY <1>33, <2>4, <2>5, <3>1
      <3> QED  BY <1>32, <2>4, <3>2
    <2> QED  BY <2>2, <2>3, <2>5
  <1>46. \A j \in 1 .. New(e) : d.infos[j].identifier = e.infos[j].identifier
    BY <1>30
  <1>47. Chained(e, d, q, c, p)
    BY <1>15, <1>26, <1>28, <1>29, <1>43, <1>44, <1>45, <1>46 DEF Chained
  <1> QED  BY <1>12, <1>47

-----------------------------------------------------------------------------
(* The functions a set runs.                                               *)

\* A set is merged into one that was created before it, so chains end.
ChainsUp(e) == \A i \in 1 .. New(e) : e.infos[i].chained # 0 => i < e.infos[i].chained

\* f unfolds the chains of the last m infos of e.
Upper(e, m) == {j \in Known(e) : j + m > New(e)}
Unfolds(f, e, D) ==
    f = [j \in D |-> IF e.infos[j].chained = 0 THEN <<j>> ELSE <<j>> \o f[e.infos[j].chained]]

LEMMA UnfoldsExist ==
    ASSUME NEW e, Typed(e), ChainsUp(e)
    PROVE  \E f : Unfolds(f, e, Known(e))
  <1>1. PICK S : S = {m \in Nat : \E f : Unfolds(f, e, Upper(e, m))}
    OBVIOUS
  <1>2. PICK N : N = New(e)
    OBVIOUS
  <1>3. N \in Nat /\ Known(e) = 1 .. N
    BY <1>2, KnownLen
  <1>4. \A j \in 1 .. N : e.infos[j].chained \in 0 .. N /\ (e.infos[j].chained # 0 => j < e.infos[j].chained)
    BY <1>2 DEF Typed, InfoOK, ChainsUp
  <1>5. 0 \in S
    <2>1. PICK f : f = [j \in {} |-> 0]
      OBVIOUS
    <2>2. Upper(e, 0) = {}
      BY <1>2, <1>3 DEF Upper
    <2>3. Unfolds(f, e, {})
      BY <2>1 DEF Unfolds
    <2> QED  BY <1>1, <2>2, <2>3
  <1>6. ASSUME NEW m \in Nat, m \in S PROVE m + 1 \in S
    <2>1. PICK f : Unfolds(f, e, Upper(e, m))
      BY <1>1, <1>6
    <2>2. PICK v : v = <<N - m>> \o f[e.infos[N - m].chained]
      OBVIOUS
    <2>3. PICK u : u = <<N - m>>
      OBVIOUS
    <2>4. PICK D : D = Upper(e, m + 1)
      OBVIOUS
    <2>5. PICK g : g = [j \in D |-> IF j = N - m THEN IF e.infos[j].chained = 0 THEN u ELSE v ELSE f[j]]
      OBVIOUS
    <2>6. \A j : j \in D <=> j \in 1 .. N /\ j + (m + 1) > N
      BY <1>2, <1>3, <2>4 DEF Upper
    <2>7. \A j : j \in Upper(e, m) <=> j \in 1 .. N /\ j + m > N
      BY <1>2, <1>3 DEF Upper
    <2>8. \A j : j \in Upper(e, m) => j \in D /\ j # N - m
      BY <1>3, <2>6, <2>7
    <2>9. \A j \in D : j # N - m => j \in Upper(e, m)
      BY <1>3, <2>6, <2>7
    <2>10. \A j \in D : e.infos[j].chained # 0 => e.infos[j].chained \in Upper(e, m)
      BY <1>3, <1>4, <2>6, <2>7
    <2>11. ASSUME NEW j \in D
           PROVE g[j] = IF e.infos[j].chained = 0 THEN <<j>> ELSE <<j>> \o g[e.infos[j].chained]
      <3>1. PICK k : k = e.infos[j].chained
        OBVIOUS
      <3>2. k # 0 => k \in D /\ k # N - m
        BY <2>8, <2>10, <3>1
      <3>3. k # 0 => g[k] = f[k]
        BY <2>5, <3>2
      <3>4. CASE j = N - m
        <4>1. g[j] = IF k = 0 THEN u ELSE v
          BY <2>5, <3>1, <3>4
        <4>2. k # 0 => v = <<j>> \o g[k]
          BY <2>2, <3>1, <3>3, <3>4
        <4> QED  BY <2>3, <3>1, <3>4, <4>1, <4>2
      <3>5. CASE j # N - m
        <4>1. j \in Upper(e, m)
          BY <2>9, <3>5
        <4>2. f[j] = IF k = 0 THEN <<j>> ELSE <<j>> \o f[k]
          BY <2>1, <3>1, <4>1 DEF Unfolds
        <4>3. g[j] = f[j]
          BY <2>5, <3>5
        <4> QED  BY <3>1, <3>3, <4>2, <4>3
      <3> QED  BY <3>4, <3>5
    <2>12. Unfolds(g, e, D)
      <3>1. g = [j \in D |-> g[j]]
        BY <2>5
      <3> QED  BY <2>11, <3>1, Zenon DEF Unfolds
    <2> QED  BY <1>1, <2>4, <2>12
  <1>7. N \in S
    BY <1>3, <1>5, <1>6, NatSetInduction
  <1>8. Upper(e, N) = Known(e)
    BY <1>2, <1>3 DEF Upper
  <1> QED  BY <1>1, <1>7, <1>8

LEMMA ChainUnfold ==
    ASSUME NEW e, Typed(e), ChainsUp(e), NEW j \in 1 .. New(e)
    PROVE  ChainOf(e, j) = IF e.infos[j].chained = 0 THEN <<j>>
                           ELSE <<j>> \o ChainOf(e, e.infos[j].chained)
  <1>1. PICK h : h = CHOOSE f : Unfolds(f, e, Known(e))
    OBVIOUS
  <1>2. Unfolds(h, e, Known(e))
    BY <1>1, UnfoldsExist
  <1>3. \A i : ChainOf(e, i) = h[i]
    BY <1>1 DEF ChainOf, Unfolds
  <1>4. j \in Known(e)
    BY KnownLen
  <1>5. h[j] = IF e.infos[j].chained = 0 THEN <<j>> ELSE <<j>> \o h[e.infos[j].chained]
    BY <1>2, <1>4 DEF Unfolds
  <1> QED  BY <1>3, <1>5

\* What holds of the infos whenever it holds of all later ones.
LEMMA DownInduction ==
    ASSUME NEW n \in Nat, NEW S, \A j \in 1 .. n : (\A k \in j + 1 .. n : k \in S) => j \in S
    PROVE  \A j \in 1 .. n : j \in S
  <1>1. PICK R : R = {m \in Nat : \A j \in 1 .. n : j + m > n => j \in S}
    OBVIOUS
  <1>2. 0 \in R
    BY <1>1
  <1>3. ASSUME NEW m \in Nat, m \in R PROVE m + 1 \in R
    <2>1. ASSUME NEW j \in 1 .. n, j + (m + 1) > n PROVE j \in S
      <3>1. \A k \in j + 1 .. n : k \in 1 .. n /\ k + m > n
        BY <2>1
      <3>2. \A k \in j + 1 .. n : k \in S
        BY <1>1, <1>3, <3>1
      <3> QED  BY <3>2
    <2> QED  BY <1>1, <2>1
  <1>4. n \in R
    BY <1>2, <1>3, NatSetInduction
  <1> QED  BY <1>1, <1>4

LEMMA Prefixed ==
    ASSUME NEW T, NEW j \in T, NEW s \in Seq(T), Len(s) >= 1
    PROVE  /\ <<j>> \o s \in Seq(T) /\ Len(<<j>> \o s) >= 1
           /\ Last(<<j>> \o s) = Last(s)
           /\ \A y : Contains(<<j>> \o s, y) <=> (y = j \/ Contains(s, y))
  <1>1. PICK o : o = <<j>>
    OBVIOUS
  <1>2. o \in Seq(T) /\ Len(o) = 1 /\ o[1] = j
    BY <1>1
  <1>3. /\ o \o s \in Seq(T) /\ Len(o \o s) = 1 + Len(s)
        /\ \A i \in 1 .. Len(o) + Len(s) : (o \o s)[i] = IF i <= Len(o) THEN o[i] ELSE s[i - Len(o)]
    BY <1>2, ConcatProperties
  <1>4. Len(s) \in Nat
    BY LenProperties
  <1>5. (o \o s)[1 + Len(s)] = s[Len(s)]
    <2>1. /\ 1 + Len(s) \in 1 .. Len(o) + Len(s) /\ ~(1 + Len(s) <= Len(o))
          /\ (1 + Len(s)) - Len(o) = Len(s)
      BY <1>2, <1>4
    <2> QED  BY <1>3, <2>1
  <1>6. \A y : Contains(o, y) <=> y = j
    BY <1>2 DEF Contains
  <1>7. \A y : Contains(o \o s, y) <=> (Contains(o, y) \/ Contains(s, y))
    BY <1>2, ContainsConcat
  <1> QED  BY <1>1, <1>3, <1>4, <1>5, <1>6, <1>7 DEF Last

\* A chain starts with its set and goes on to later ones.
IsChain(e, j, s) == /\ s \in Seq(1 .. New(e)) /\ Len(s) >= 1 /\ Contains(s, j)
                    /\ \A y : Contains(s, y) => y \in 1 .. New(e) /\ j <= y

LEMMA ChainKnown ==
    ASSUME NEW e, Typed(e), ChainsUp(e)
    PROVE  \A j \in 1 .. New(e) : IsChain(e, j, ChainOf(e, j))
  <1>1. PICK N : N = New(e)
    OBVIOUS
  <1>2. PICK S : S = {j \in 1 .. N : IsChain(e, j, ChainOf(e, j))}
    OBVIOUS
  <1>3. N \in Nat
    BY <1>1, KnownLen
  <1>4. ASSUME NEW j \in 1 .. N, \A k \in j + 1 .. N : k \in S PROVE j \in S
    <2>1. PICK k : k = e.infos[j].chained
      OBVIOUS
    <2>2. k \in 0 .. N /\ (k # 0 => j < k)
      BY <1>1, <2>1 DEF Typed, InfoOK, ChainsUp
    <2>3. ChainOf(e, j) = IF k = 0 THEN <<j>> ELSE <<j>> \o ChainOf(e, k)
      BY <1>1, <2>1, ChainUnfold
    <2>4. CASE k = 0
      <3>1. PICK s : s = <<j>>
        OBVIOUS
      <3>2. s \in Seq(1 .. N) /\ Len(s) = 1 /\ s[1] = j
        BY <3>1
      <3>3. \A y : Contains(s, y) <=> y = j
        BY <3>2 DEF Contains
      <3>4. IsChain(e, j, s)
        BY <1>1, <1>3, <3>2, <3>3 DEF IsChain
      <3> QED  BY <1>2, <2>3, <2>4, <3>1, <3>4
    <2>5. CASE k # 0
      <3>1. PICK s : s = ChainOf(e, k)
        OBVIOUS
      <3>2. k \in j + 1 .. N
        BY <1>3, <2>2, <2>5
      <3>3. IsChain(e, k, s)
        BY <1>2, <1>4, <3>1, <3>2
      <3>4. PICK T : T = 1 .. N
        OBVIOUS
      <3>5. s \in Seq(T) /\ Len(s) >= 1 /\ j \in T
        BY <1>1, <3>3, <3>4 DEF IsChain
      <3>6. /\ <<j>> \o s \in Seq(T) /\ Len(<<j>> \o s) >= 1
            /\ \A y : Contains(<<j>> \o s, y) <=> (y = j \/ Contains(s, y))
        BY <3>5, Prefixed
      <3>7. ASSUME NEW y, Contains(s, y) PROVE y \in 1 .. N /\ j <= y
        BY <1>1, <1>3, <3>2, <3>3, <3>7 DEF IsChain
      <3>8. IsChain(e, j, <<j>> \o s)
        BY <1>1, <1>3, <3>4, <3>6, <3>7 DEF IsChain
      <3> QED  BY <1>2, <2>3, <2>5, <3>1, <3>8
    <2> QED  BY <2>4, <2>5
  <1>5. \A j \in 1 .. N : j \in S
    BY <1>3, <1>4, DownInduction
  <1> QED  BY <1>1, <1>2, <1>5

\* Chains that p is not part of do not change with what p is merged with.
LEMMA ChainSame ==
    ASSUME NEW e, NEW d, Typed(e), ChainsUp(e), Typed(d), ChainsUp(d), New(d) = New(e), NEW p,
           \A j \in 1 .. New(e) : j # p => d.infos[j].chained = e.infos[j].chained
    PROVE  \A j \in 1 .. New(e) : ~Contains(ChainOf(e, j), p) => ChainOf(d, j) = ChainOf(e, j)
  <1>1. PICK N : N = New(e)
    OBVIOUS
  <1>2. PICK S : S = {j \in 1 .. N : ~Contains(ChainOf(e, j), p) => ChainOf(d, j) = ChainOf(e, j)}
    OBVIOUS
  <1>3. N \in Nat
    BY <1>1, KnownLen
  <1>4. ASSUME NEW j \in 1 .. N, \A k \in j + 1 .. N : k \in S PROVE j \in S
    <2>1. SUFFICES ASSUME ~Contains(ChainOf(e, j), p) PROVE ChainOf(d, j) = ChainOf(e, j)
      BY <1>2
    <2>2. PICK k : k = e.infos[j].chained
      OBVIOUS
    <2>3. k \in 0 .. N /\ (k # 0 => j < k)
      BY <1>1, <2>2 DEF Typed, InfoOK, ChainsUp
    <2>4. ChainOf(e, j) = IF k = 0 THEN <<j>> ELSE <<j>> \o ChainOf(e, k)
      BY <1>1, <2>2, ChainUnfold
    <2>5. Contains(ChainOf(e, j), j)
      BY <1>1, ChainKnown DEF IsChain
    <2>6. d.infos[j].chained = k
      BY <1>1, <2>1, <2>2, <2>5
    <2>7. ChainOf(d, j) = IF k = 0 THEN <<j>> ELSE <<j>> \o ChainOf(d, k)
      BY <1>1, <2>6, ChainUnfold
    <2>8. CASE k = 0
      BY <2>4, <2>7, <2>8
    <2>9. CASE k # 0
      <3>1. k \in j + 1 .. N /\ k \in 1 .. N
        BY <1>3, <2>3, <2>9
      <3>2. PICK s : s = ChainOf(e, k)
        OBVIOUS
      <3>3. PICK T : T = 1 .. N
        OBVIOUS
      <3>4. s \in Seq(T) /\ Len(s) >= 1 /\ j \in T
        BY <1>1, <3>1, <3>2, <3>3, ChainKnown DEF IsChain
      <3>5. \A y : Contains(<<j>> \o s, y) <=> (y = j \/ Contains(s, y))
        BY <3>4, Prefixed
      <3>6. ~Contains(s, p)
        BY <2>1, <2>4, <2>9, <3>2, <3>5
      <3>7. ChainOf(d, k) = s
        BY <1>2, <1>4, <3>1, <3>2, <3>6
      <3> QED  BY <2>4, <2>7, <3>2, <3>7
    <2> QED  BY <2>8, <2>9
  <1>5. \A j \in 1 .. N : j \in S
    BY <1>3, <1>4, DownInduction
  <1> QED  BY <1>1, <1>2, <1>5

\* No set among the first k that is still to be looked at can be merged into a set
\* that was merged with another.
NoMore(e, k) == \A i \in 1 .. New(e), l \in 1 .. k :
    e.infos[i].chained # 0 /\ e.infos[e.sets[l]].identifier \in Chainable => e.infos[e.sets[l]].parent # i

\* Function f of the script runs in the process of s.
RunsIn(e, s, f) == Contains(e.sets, s) /\ Contains(ChainOf(e, s), f)

\* Every function of Environment o runs in e, in one process only, and a set of e
\* announces the type of what its last function emits.
Covered(e, o) == \A f : Contains(o.sets, f) => \E s : RunsIn(e, s, f)
Disjoint(e) == \A s, t, f : RunsIn(e, s, f) /\ RunsIn(e, t, f) => s = t
Announced(e, o) == \A s : Contains(e.sets, s) => e.infos[s].types = o.infos[Last(ChainOf(e, s))].types
Apart(e, o) == Covered(e, o) /\ Disjoint(e) /\ Announced(e, o)

\* Before the first merge every set runs its own function.
LEMMA ApartAtFirst ==
    ASSUME NEW e, Whole(e), Building(e)
    PROVE  ChainsUp(e) /\ (\A k : NoMore(e, k)) /\ Apart(e, e)
  <1>1. \A i \in 1 .. New(e) : e.infos[i].chained = 0
    BY DEF Building
  <1>2. ChainsUp(e) /\ \A k : NoMore(e, k)
    BY <1>1 DEF ChainsUp, NoMore
  <1>3. Typed(e)
    BY DEF Whole
  <1>4. ASSUME NEW s, Contains(e.sets, s)
        PROVE  Last(ChainOf(e, s)) = s /\ \A f : Contains(ChainOf(e, s), f) <=> f = s
    <2>1. s \in 1 .. New(e)
      BY <1>3, <1>4, ContainsIn DEF Typed
    <2>2. ChainOf(e, s) = <<s>>
      BY <1>1, <1>2, <1>3, <2>1, ChainUnfold
    <2>3. PICK l : l = <<s>>
      OBVIOUS
    <2>4. Len(l) = 1 /\ l[1] = s
      BY <2>3
    <2>5. Last(l) = s /\ \A f : Contains(l, f) <=> f = s
      BY <2>4 DEF Last, Contains
    <2> QED  BY <2>2, <2>3, <2>5
  <1>5. \A s, f : RunsIn(e, s, f) <=> Contains(e.sets, s) /\ f = s
    BY <1>4 DEF RunsIn
  <1>6. Covered(e, e) /\ Disjoint(e)
    BY <1>5 DEF Covered, Disjoint
  <1>7. Announced(e, e)
    BY <1>4 DEF Announced
  <1> QED  BY <1>2, <1>6, <1>7 DEF Apart

\* A merge puts the functions of c behind that of p.
LEMMA MergedChains ==
    ASSUME NEW e, Whole(e), ChainsUp(e), NEW q \in 1 .. Len(e.sets), NoMore(e, q),
           NEW o, Apart(e, o), NEW c, NEW p, Merged(e, q, c, p)
    PROVE  LET d == Chain(e, c) IN ChainsUp(d) /\ NoMore(d, q - 1) /\ Apart(d, o)
  <1>1. PICK d : d = Chain(e, c)
    OBVIOUS
  <1>2. Chained(e, d, q, c, p)
    BY <1>1, ChainStep
  <1>3. /\ Whole(d) /\ Typed(d) /\ Typed(e) /\ New(d) = New(e) /\ New(e) \in Nat
        /\ Once(e) /\ Registered(e) /\ Len(e.sets) \in Nat /\ e.sets \in Seq(1 .. New(e))
    <2>1. Typed(e) /\ Whole(d) /\ Typed(d) /\ New(d) = New(e) /\ Once(e) /\ Registered(e)
      BY <1>2 DEF Whole, Chained, Sane
    <2>2. e.sets \in Seq(1 .. New(e))
      BY <2>1 DEF Typed
    <2> QED  BY <2>1, <2>2, KnownLen, LenProperties
  <1>4. /\ c \in 1 .. New(e) /\ p \in 1 .. New(e) /\ p < c /\ p # c /\ Contains(e.sets, p)
        /\ d.infos[p].chained = c /\ d.infos[p].types = e.infos[c].types
        /\ \A j \in 1 .. New(e) : j # p => /\ d.infos[j].chained = e.infos[j].chained
                                         /\ d.infos[j].types = e.infos[j].types
        /\ \A y : Contains(d.sets, y) <=> Contains(e.sets, y) /\ y # c
    BY <1>2, <1>3 DEF Chained
  <1>5. /\ c = e.sets[q] /\ p = e.infos[c].parent /\ e.infos[c].identifier \in Chainable
        /\ Contains(e.sets, c) /\ MayChain(e, c)
    BY DEF Merged, MayChain, Contains
  <1>6. e.infos[p].chained = 0
    <2>1. q \in 1 .. q
      BY <1>3
    <2> QED  BY <1>4, <1>5, <2>1 DEF NoMore
  <1>7. ChainsUp(d)
    BY <1>3, <1>4 DEF ChainsUp
  <1>8. NoMore(d, q - 1)
    <2>1. SUFFICES ASSUME NEW i \in 1 .. New(e), NEW l \in 1 .. q - 1, d.infos[i].chained # 0,
                          d.infos[d.sets[l]].identifier \in Chainable, d.infos[d.sets[l]].parent = i
                   PROVE  FALSE
      BY <1>3 DEF NoMore
    <2>2. PICK s : s = e.sets[l]
      OBVIOUS
    <2>3. l \in 1 .. Len(e.sets) /\ l \in 1 .. q /\ l # q
      BY <1>3, <2>1
    <2>4. s \in 1 .. New(e) /\ Contains(e.sets, s)
      BY <1>3, <2>2, <2>3, ElementOfSeq DEF Contains
    <2>5. d.sets[l] = s
      BY <1>2, <2>2 DEF Chained
    <2>6. d.infos[s].identifier = e.infos[s].identifier
      BY <1>2, <2>4 DEF Chained
    <2>7. e.infos[s].identifier \in Chainable
      BY <2>1, <2>5, <2>6
    <2>8. d.infos[s].parent = e.infos[s].parent
      BY <1>2, <2>2, <2>7 DEF Chained
    <2>9. e.infos[s].parent = i
      BY <2>1, <2>5, <2>8
    <2>10. CASE i = p
      <3>1. Reads(e, p, s)
        BY <1>3, <2>4, <2>9, <2>10 DEF Registered, SetKnown
      <3>2. s = c
        BY <1>5, <3>1, OnlyChild
      <3> QED  BY <1>3, <1>5, <2>2, <2>3, <3>2 DEF Once, IsOnce
    <2>11. CASE i # p
      <3>1. e.infos[i].chained # 0
        BY <1>4, <2>1, <2>11
      <3> QED  BY <2>2, <2>3, <2>7, <2>9, <3>1 DEF NoMore
    <2> QED  BY <2>10, <2>11
  <1>9. PICK w : w = ChainOf(e, c)
    OBVIOUS
  <1>10. IsChain(e, c, w)
    BY <1>3, <1>4, <1>9, ChainKnown
  <1>11. \A j \in 1 .. New(e) : ~Contains(ChainOf(e, j), p) => ChainOf(d, j) = ChainOf(e, j)
    BY <1>3, <1>4, <1>7, ChainSame
  <1>12. ChainOf(d, c) = w
    <2>1. ~Contains(w, p)
      <3>1. ~(c <= p)
        BY <1>3, <1>4
      <3> QED  BY <1>10, <3>1 DEF IsChain
    <2> QED  BY <1>4, <1>9, <1>11, <2>1
  <1>13. ChainOf(d, p) = <<p>> \o w
    <2>1. c # 0
      BY <1>3, <1>4
    <2> QED  BY <1>3, <1>4, <1>7, <1>12, <2>1, ChainUnfold
  <1>14. ChainOf(e, p) = <<p>>
    BY <1>3, <1>4, <1>6, ChainUnfold
  <1>15. \A f : Contains(ChainOf(e, p), f) <=> f = p
    <2>1. PICK l : l = <<p>>
      OBVIOUS
    <2>2. Len(l) = 1 /\ l[1] = p
      BY <2>1
    <2>3. \A f : Contains(l, f) <=> f = p
      BY <2>2 DEF Contains
    <2> QED  BY <1>14, <2>1, <2>3
  <1>16. /\ Last(ChainOf(d, p)) = Last(w)
         /\ \A f : Contains(ChainOf(d, p), f) <=> (f = p \/ Contains(w, f))
    <2>1. PICK T : T = 1 .. New(e)
      OBVIOUS
    <2>2. w \in Seq(T) /\ Len(w) >= 1 /\ p \in T
      BY <1>4, <1>10, <2>1 DEF IsChain
    <2> QED  BY <1>13, <2>2, Prefixed
  <1>17. ASSUME NEW s, Contains(e.sets, s), s # p PROVE ChainOf(d, s) = ChainOf(e, s)
    <2>1. s \in 1 .. New(e)
      BY <1>3, <1>17, ContainsIn
    <2>2. ~Contains(ChainOf(e, s), p)
      <3>1. RunsIn(e, p, p)
        BY <1>4, <1>15 DEF RunsIn
      <3> QED  BY <1>17, <3>1 DEF Apart, Disjoint, RunsIn
    <2> QED  BY <1>11, <2>1, <2>2
  <1>18. \A s, f : RunsIn(d, s, f) <=> \/ s # c /\ RunsIn(e, s, f)
                                       \/ s = p /\ RunsIn(e, c, f)
    <2> TAKE s, f
    <2>1. CASE s = p
      BY <1>4, <1>5, <1>9, <1>15, <1>16, <2>1 DEF RunsIn
    <2>2. CASE s # p
      BY <1>4, <1>17, <2>2 DEF RunsIn
    <2> QED  BY <2>1, <2>2
  <1>19. Covered(d, o)
    <2>1. SUFFICES ASSUME NEW f, Contains(o.sets, f) PROVE \E s : RunsIn(d, s, f)
      BY DEF Covered
    <2>2. PICK s : RunsIn(e, s, f)
      BY <2>1 DEF Apart, Covered
    <2> QED  BY <1>18, <2>2
  <1>20. Disjoint(d)
    <2>1. SUFFICES ASSUME NEW s, NEW t, NEW f, RunsIn(d, s, f), RunsIn(d, t, f) PROVE s = t
      BY DEF Disjoint
    <2>2. \A a, b : RunsIn(e, a, f) /\ RunsIn(e, b, f) => a = b
      BY DEF Apart, Disjoint
    <2> QED  BY <1>18, <2>1, <2>2
  <1>21. Announced(d, o)
    <2>1. SUFFICES ASSUME NEW s, Contains(d.sets, s)
                   PROVE  d.infos[s].types = o.infos[Last(ChainOf(d, s))].types
      BY DEF Announced
    <2>2. Contains(e.sets, s) /\ s # c /\ s \in 1 .. New(e)
      BY <1>3, <1>4, <2>1, ContainsIn
    <2>3. \A t : Contains(e.sets, t) => e.infos[t].types = o.infos[Last(ChainOf(e, t))].types
      BY DEF Apart, Announced
    <2>4. CASE s = p
      <3>1. PICK n : n = Last(w)
        OBVIOUS
      <3>2. Last(ChainOf(d, s)) = n
        BY <1>16, <2>4, <3>1
      <3>3. e.infos[c].types = o.infos[n].types
        <4>1. Last(ChainOf(e, c)) = n
          BY <1>9, <3>1
        <4> QED  BY <1>5, <2>3, <4>1
      <3>4. d.infos[s].types = e.infos[c].types
        BY <1>4, <2>4
      <3> QED  BY <3>2, <3>3, <3>4
    <2>5. CASE s # p
      BY <1>4, <1>17, <2>2, <2>3, <2>5
    <2> QED  BY <2>4, <2>5
  <1> QED  BY <1>1, <1>7, <1>8, <1>19, <1>20, <1>21 DEF Apart

\* What the script starts from.
LEMMA NoEnvWhole == Whole(NoEnv) /\ Building(NoEnv) /\ \A i : ~Missing(NoEnv, i)
  <1>1. PICK e : e = NoEnv
    OBVIOUS
  <1>2. /\ DOMAIN e = EnvFields /\ e.infos = <<>> /\ e.counter = 0 /\ e.sources = <<>>
        /\ e.sets = <<>> /\ e.sinks = <<>> /\ e.broadcast = <<>>
    BY <1>1 DEF NoEnv, EnvFields
  <1>3. New(e) = 0 /\ \A S : <<>> \in Seq(S)
    BY <1>2 DEF New
  <1>4. Typed(e)
    BY <1>2, <1>3 DEF Typed, SomeSeq
  <1>5. \A i : i \notin 1 .. New(e)
    BY <1>3
  <1>6. IsOnce(<<>>)
    BY DEF IsOnce
  <1>7. Once(e)
    BY <1>2, <1>6 DEF Once
  <1>8. Ordered(e)
    BY <1>2 DEF Ordered
  <1>9. /\ Kinds(e) /\ Registered(e) /\ UniqueIds(e) /\ Numbered(e) /\ Resolved(e)
        /\ Building(e) /\ \A i : ~Missing(e, i)
    BY <1>5 DEF Kinds, Registered, UniqueIds, Numbered, Resolved, Building, Missing
  <1> QED  BY <1>1, <1>4, <1>7, <1>8, <1>9 DEF Whole, Sane

-----------------------------------------------------------------------------
(* The script, and the invariant.                                          *)

\* What a step of the script leaves alone, apart from the Environment.
Scripted == /\ phase = "build" /\ calls' \in 0 .. menu.calls
            /\ UNCHANGED <<menu, phase, x, plan, orig>>

\* While the script runs, whatever it has created is listed and nothing is merged.
Scripting(e) == Building(e) /\ \A i : ~Missing(e, i)

\* The inductive invariant.
Inv ==
    /\ Whole(env) /\ Whole(orig)
    /\ menu \in Menus /\ calls \in 0 .. menu.calls
    /\ phase \in {"build", "chain", "sent"}
    /\ x \in 0 .. Len(env.sets)
    /\ phase = "build" => x = 0 /\ Scripting(env)
    /\ phase # "build" => ChainsUp(env) /\ NoMore(env, x) /\ Apart(env, orig)
    /\ phase = "sent" => plan = Plan(env)

LEMMA DoStep ==
    ASSUME Inv, NEW method, NEW e, Do(method, e)
    PROVE  env' = e /\ Scripted
  <1>1. menu.calls \in Nat
    BY MenuAssumption DEF Inv
  <1> QED  BY <1>1 DEF Do, Scripted, Inv

\* What the script holds is sent.
LEMMA HeldSent ==
    ASSUME NEW e, Typed(e), Scripting(e), NEW i \in 1 .. New(e), e.infos[i].cls # "hidden"
    PROVE  Sent(e, i)
  <1>1. InfoOK(e.infos[i], New(e), e.counter)
    BY DEF Typed
  <1>2. e.infos[i].identifier \in Sources \cup SetKinds
    BY <1>1 DEF InfoOK, ClassOK, SetKinds
  <1> QED  BY <1>2 DEF Scripting, Missing

\* Every method a script calls leaves an Environment that is whole.
LEMMA ScriptStep ==
    ASSUME Inv, Script
    PROVE  Follows(env, env') /\ Scripted
  <1>1. PICK e : e = env
    OBVIOUS
  <1>2. Script => phase = "build"
    BY DEF Script, ReadSources, OneInput, Finish, AddAggregation, Broadcast, BothInputs, OfPairs,
           Group, Grouped, Do
  <1>3. Whole(e) /\ Typed(e) /\ Sane(e) /\ Building(e) /\ Scripting(e) /\ Known(e) = 1 .. New(e)
    <2>1. Whole(e) /\ Scripting(e)
      BY <1>1, <1>2 DEF Inv
    <2> QED  BY <2>1, KnownLen DEF Whole, Scripting
  <1>4. \A cls, s : s \in Class(e, {cls}) /\ cls # "hidden" =>
            s \in 1 .. New(e) /\ e.infos[s].cls = cls /\ Sent(e, s)
    BY <1>3, HeldSent DEF Class
  <1>5. \A s \in DataSets(e) : s \in 1 .. New(e) /\ Sent(e, s)
    BY <1>3, HeldSent DEF DataSets, Class
  <1>6. ASSUME NEW method, NEW d, Do(method, d), Follows(e, d)
        PROVE  Follows(env, env') /\ Scripted
    BY <1>1, <1>6, DoStep
  <1>7. CASE ReadSources
    <2>1. PICK ident : ident = menu.sources[Len(env.sources) + 1]
      OBVIOUS
    <2>2. ident \in Sources
      <3>1. menu.sources \in Seq(Sources)
        BY MenuAssumption DEF Inv, Sources
      <3>2. Len(env.sources) \in Nat
        BY <1>1, <1>3, LenProperties DEF Typed
      <3>3. Len(env.sources) + 1 \in 1 .. Len(menu.sources)
        BY <1>7, <3>1, <3>2, LenProperties DEF ReadSources
      <3> QED  BY <2>1, <3>1, <3>3, ElementOfSeq
    <2>3. Follows(e, Source(e, ident))
      BY <1>3, <2>2, SourceFollows
    <2> QED  BY <1>1, <1>7, <2>1, <2>3 DEF ReadSources, Scripted, Inv
  <1>8. CASE OneInput
    <2>1. PICK s \in DataSets(e) :
            \/ Do("map", Map(e, s, Udf(e), "op"))
            \/ Do("filter", Filter(e, s))
            \/ Do("flat_map", FlatMap(e, s))
            \/ Do("map_partition", MapPartition(e, s, Udf(e)))
            \/ Do("reduce", Reduce(e, s))
            \/ Do("reduce_group", ReduceGroup(e, s))
            \/ Do("aggregate", Aggregate(e, s))
            \/ Do("project", Project(e, s))
            \/ Do("first", First(e, s))
            \/ Do("rebalance", Rebalance(e, s))
            \/ Do("zip_with_index", ZipWithIndex(e, s))
            \/ \E k \in menu.keys : \/ Do("distinct", Distinct(e, s, k))
                                   \/ Do("partition_by_hash", PartitionByHash(e, s, k))
      BY <1>1, <1>8, Zenon DEF OneInput
    <2>2. s \in 1 .. New(e) /\ Sent(e, s)
      BY <1>5, <2>1
    <2>3. \A d : Grown(e, d) => Follows(e, d)
      BY <1>3, GrownFollows
    <2>4. PICK op : op = Udf(e)
      OBVIOUS
    <2>5. Follows(e, Map(e, s, op, "op"))
      <3>1. "op" \in Classes
        BY DEF Classes
      <3> QED  BY <1>3, <2>2, <2>3, <3>1, MapGrows
    <2>6. /\ Follows(e, Filter(e, s)) /\ Follows(e, FlatMap(e, s)) /\ Follows(e, MapPartition(e, s, op))
          /\ Follows(e, Reduce(e, s)) /\ Follows(e, ReduceGroup(e, s)) /\ Follows(e, Aggregate(e, s))
          /\ Follows(e, Project(e, s)) /\ Follows(e, First(e, s)) /\ Follows(e, Rebalance(e, s))
      BY <1>3, <2>2, <2>3, OneInputGrows
    <2>7. Follows(e, ZipWithIndex(e, s))
      BY <1>3, <2>2, ZipWithIndexFollows
    <2>8. \A k : Follows(e, Distinct(e, s, k)) /\ Follows(e, PartitionByHash(e, s, k))
      BY <1>3, <2>2, KeyedFollows DEF Distinct, PartitionByHash
    <2> QED  BY <1>6, <2>1, <2>4, <2>5, <2>6, <2>7, <2>8
  <1>9. CASE Finish
    BY <1>1, <1>3, <1>5, <1>6, <1>9, FinishFollows DEF Finish
  <1>10. CASE AddAggregation
    <2>1. PICK s \in Class(e, {"agg"}) : Do("and_agg", AndAgg(e, s))
      BY <1>1, <1>10 DEF AddAggregation
    <2>2. s \in 1 .. New(e) /\ e.infos[s].cls = "agg"
      BY <1>4, <2>1
    <2>3. Follows(e, AndAgg(e, s))
      BY <1>3, <2>2, AndAggFollows
    <2> QED  BY <1>6, <2>1, <2>3
  <1>11. CASE Broadcast
    <2>1. PICK s \in Class(e, {"op", "agg"}), o \in DataSets(e), n \in Names :
              Do("with_broadcast_set", WithBroadcast(e, s, n, o))
      BY <1>1, <1>11 DEF Broadcast
    <2>2. s \in 1 .. New(e) /\ Sent(e, s)
      BY <1>3, <2>1, HeldSent DEF Class
    <2>3. Follows(e, WithBroadcast(e, s, n, o))
      BY <1>3, <1>5, <2>1, <2>2, WithBroadcastFollows
    <2> QED  BY <1>6, <2>1, <2>3
  <1>12. CASE BothInputs
    BY <1>1, <1>3, <1>5, <1>6, <1>12, CrossUnionFollow, JoinFollows, CoGroupFollows DEF BothInputs
  <1>13. CASE OfPairs
    <2>1. PICK c \in Class(e, {"pair"}) : \/ Do("using", Using(e, c))
                                          \/ Do("project_first", Projector(e, c))
      BY <1>1, <1>13 DEF OfPairs
    <2>2. c \in 1 .. New(e) /\ e.infos[c].cls = "pair" /\ Sent(e, c)
      BY <1>4, <2>1
    <2>3. Follows(e, Using(e, c))
      BY <1>3, <2>2, UsingFollows
    <2>4. Follows(e, Projector(e, c))
      <3>1. PICK op : op = Udf(e)
        OBVIOUS
      <3>2. "set" \in Classes
        BY DEF Classes
      <3>3. Grown(e, Map(e, c, op, "set"))
        BY <1>3, <2>2, <3>2, MapGrows
      <3>4. Projector(e, c) = Map(e, c, op, "set")
        BY <3>1 DEF Projector
      <3> QED  BY <1>3, <3>3, <3>4, GrownFollows
    <2> QED  BY <1>6, <2>1, <2>3, <2>4
  <1>14. CASE Group
    BY <1>1, <1>3, <1>5, <1>6, <1>14, GroupByFollows DEF Group
  <1>15. CASE Grouped
    <2>1. PICK g \in Class(e, {"grouping"}) :
            \/ \E f \in menu.sorts : Do("sort_group", SortGroup(e, g, f))
            \/ Do("g_first", GroupFirst(e, g))
            \/ Do("g_reduce_group", GroupReduceAll(e, g))
            \/ Do("g_reduce", GroupReduce(e, g))
            \/ Do("g_aggregate", GroupAggregate(e, g))
      BY <1>1, <1>15, Zenon DEF Grouped
    <2>2. g \in 1 .. New(e) /\ e.infos[g].cls = "grouping" /\ Sent(e, g)
      BY <1>4, <2>1
    <2>3. \A f : Follows(e, SortGroup(e, g, f))
      BY <1>3, <2>2, SortGroupFollows
    <2>4. /\ Follows(e, GroupFirst(e, g)) /\ Follows(e, GroupReduce(e, g))
          /\ Follows(e, GroupReduceAll(e, g)) /\ Follows(e, GroupAggregate(e, g))
      BY <1>3, <2>2, GroupedFollows
    <2> QED  BY <1>6, <2>1, <2>3, <2>4
  <1> QED  BY <1>7, <1>8, <1>9, <1>10, <1>11, <1>12, <1>13, <1>14, <1>15 DEF Script

\* A merge keeps the Environment whole; what is merged is the only reader.
LEMMA FindChainsStep ==
    ASSUME Inv, FindChains
    PROVE  \/ env' = env
           \/ \E c, p : /\ Merged(env, x, c, p) /\ env' = Chain(env, c)
                        /\ x \in 1 .. Len(env.sets)
  <1>1. x \in 1 .. Len(env.sets)
    BY DEF Inv, FindChains
  <1> QED  BY <1>1 DEF FindChains, Merged

LEMMA InvInit == Init => Inv
  <1>1. Init => Len(NoEnv.sets) = 0
    BY DEF NoEnv
  <1>2. Init => menu.calls \in Nat
    BY MenuAssumption DEF Init
  <1>3. Whole(NoEnv) /\ Scripting(NoEnv)
    BY NoEnvWhole DEF Scripting
  <1> QED  BY <1>1, <1>2, <1>3 DEF Init, Inv

LEMMA InvNext == Inv /\ [Next]_vars => Inv'
  <1> SUFFICES ASSUME Inv, [Next]_vars PROVE Inv'
    OBVIOUS
  <1>1. \A e : Whole(e) => Len(e.sets) \in Nat
    BY LenProperties DEF Whole, Typed
  <1>2. CASE Script
    <2>1. Follows(env, env') /\ Scripted
      BY <1>2, ScriptStep
    <2>2. Whole(env') /\ (Building(env) => Building(env')) /\ \A i : Missing(env', i) => Missing(env, i)
      BY <2>1 DEF Follows, Extends
    <2>3. Scripting(env')
      BY <2>1, <2>2 DEF Inv, Scripted, Scripting
    <2> QED  BY <1>1, <2>1, <2>2, <2>3 DEF Inv, Scripted
  <1>3. CASE Execute
    <2>1. ChainsUp(env) /\ (\A k : NoMore(env, k)) /\ Apart(env, env)
      BY <1>3, ApartAtFirst DEF Inv, Execute, Scripting
    <2> QED  BY <1>1, <1>3, <2>1 DEF Inv, Execute
  <1>4. CASE FindChains
    <2>0. ChainsUp(env) /\ NoMore(env, x) /\ Apart(env, orig) /\ x \in Nat
      BY <1>1, <1>4 DEF Inv, FindChains
    <2>1. CASE env' = env
      <3>1. NoMore(env, x - 1)
        BY <2>0 DEF NoMore
      <3> QED  BY <1>1, <1>4, <2>0, <2>1, <3>1 DEF Inv, FindChains
    <2>2. CASE env' # env
      <3>1. PICK c, p : Merged(env, x, c, p) /\ env' = Chain(env, c) /\ x \in 1 .. Len(env.sets)
        BY <1>4, <2>2, FindChainsStep
      <3>2. Whole(Chain(env, c)) /\ Len(Chain(env, c).sets) = Len(env.sets) - 1
        BY <3>1, ChainStep DEF Inv, Chained
      <3>3. /\ ChainsUp(Chain(env, c)) /\ NoMore(Chain(env, c), x - 1)
            /\ Apart(Chain(env, c), orig)
        BY <2>0, <3>1, MergedChains DEF Inv
      <3> QED  BY <1>1, <1>4, <3>1, <3>2, <3>3 DEF Inv, FindChains
    <2> QED  BY <2>1, <2>2
  <1>5. CASE SendPlan
    BY <1>5 DEF Inv, SendPlan
  <1>6. CASE UNCHANGED vars
    BY <1>6 DEF Inv, vars
  <1> QED  BY <1>2, <1>3, <1>4, <1>5, <1>6 DEF Next

\* Whatever a script calls, the Environment is whole between any two methods and
\* between any two iterations of _find_chains.
THEOREM PlanInvariant == Spec => []Inv
  BY InvInit, InvNext, PTL DEF Spec

LEMMA InvPlanOK == Inv => PlanOK
  <1> SUFFICES ASSUME Inv PROVE PlanOK
    OBVIOUS
  <1>1. /\ Typed(env) /\ New(env) \in Nat /\ Known(env) = 1 .. New(env)
        /\ Len(env.sets) \in Nat /\ Len(orig.sets) \in Nat
    BY KnownLen, LenProperties DEF Inv, Whole, Typed
  <1>2. ASSUME NEW T, NEW l \in Seq(T) PROVE ToSet(l) \subseteq T
    BY LenProperties, ElementOfSeq DEF ToSet
  <1>3. \A l \in {env.sources, env.sets, env.sinks, env.broadcast} : ToSet(l) \subseteq Known(env)
    BY <1>1, <1>2 DEF Typed
  <1>4. ASSUME NEW i \in Known(env)
        PROVE /\ env.infos[i].identifier \in Identifiers
              /\ env.infos[i].id \in -1 .. env.counter - 1
              /\ {env.infos[i].parent, env.infos[i].other, env.infos[i].chained,
                  env.infos[i].group} \subseteq {0} \cup Known(env)
              /\ ToSet(env.infos[i].children \o env.infos[i].sinks \o env.infos[i].bcvars
                         \o env.infos[i].sorts) \subseteq Known(env)
    <2>1. InfoOK(env.infos[i], New(env), env.counter)
      BY <1>1 DEF Typed
    <2>2. 0 .. New(env) \subseteq {0} \cup Known(env)
      BY <1>1
    <2>3. env.infos[i].children \o env.infos[i].sinks \o env.infos[i].bcvars
             \o env.infos[i].sorts \in Seq(1 .. New(env))
      BY <2>1, ConcatProperties DEF InfoOK
    <2> QED  BY <1>1, <1>2, <2>1, <2>2, <2>3 DEF InfoOK
  <1>5. x \in 0 .. Len(env.sets) + Len(orig.sets)
    <2>1. PICK n : n = Len(env.sets)
      OBVIOUS
    <2>2. PICK m : m = Len(orig.sets)
      OBVIOUS
    <2>3. n \in Nat /\ m \in Nat /\ x \in 0 .. n
      BY <1>1, <2>1, <2>2 DEF Inv
    <2>4. x \in 0 .. n + m
      BY <2>3
    <2> QED  BY <2>1, <2>2, <2>4
  <1> QED  BY <1>3, <1>4, <1>5 DEF Inv, PlanOK

\* The links of every Environment name infos of it and ids come from the counter,
\* whatever methods the script calls, before, during and after the merging.
THEOREM PlanTypes == Spec => []PlanOK
  BY PlanInvariant, InvPlanOK, PTL

\* Of a merge, in an Environment that is whole: the set is the only one to read
\* its parent, no sink reads it, and the set is no longer sent.
LEMMA ChainAlone ==
    ASSUME NEW e, Whole(e), NEW q \in 1 .. Len(e.sets), NEW c, NEW p, Merged(e, q, c, p)
    PROVE  LET d == Chain(e, c) IN
           \A r \in Known(e) : d.infos[r].chained # e.infos[r].chained =>
              /\ {s \in ToSet(e.sets \o e.sinks) : r \in {e.infos[s].parent, e.infos[s].other}}
                    = {d.infos[r].chained}
              /\ ~Contains(d.sets, d.infos[r].chained)
  <1>1. PICK d : d = Chain(e, c)
    OBVIOUS
  <1>2. /\ c = e.sets[q] /\ p = e.infos[c].parent /\ MayChain(e, c) /\ Contains(e.sets, c)
    BY DEF Merged, Contains
  <1>3. /\ Typed(e) /\ Kinds(e) /\ Registered(e) /\ Known(e) = 1 .. New(e) /\ New(e) \in Nat
    BY KnownLen DEF Whole, Sane
  <1>4. /\ c \in 1 .. New(e) /\ p \in 1 .. New(e) /\ Reads(e, p, c)
        /\ \A y : Reads(e, p, y) => y = c
        /\ e.infos[p].sinks = <<>>
    BY <1>2, OnlyChild
  <1>5. /\ d.infos[p].chained = c /\ ~Contains(d.sets, c)
        /\ \A j \in 1 .. New(e) : j # p => d.infos[j].chained = e.infos[j].chained
    <2>1. Chained(e, d, q, c, p)
      BY <1>1, ChainStep
    <2> QED  BY <2>1 DEF Chained
  <1>6. \A s : s \in ToSet(e.sets \o e.sinks) <=> (Contains(e.sets, s) \/ Contains(e.sinks, s))
    <2>1. PICK T : T = 1 .. New(e)
      OBVIOUS
    <2>2. e.sets \in Seq(T) /\ e.sinks \in Seq(T)
      BY <1>3, <2>1 DEF Typed
    <2>3. e.sets \o e.sinks \in Seq(T)
          /\ \A y : Contains(e.sets \o e.sinks, y) <=> (Contains(e.sets, y) \/ Contains(e.sinks, y))
      BY <2>2, ContainsConcat
    <2>4. \A s : s \in ToSet(e.sets \o e.sinks) <=> Contains(e.sets \o e.sinks, s)
      BY <2>3, LenProperties DEF ToSet, Contains
    <2> QED  BY <2>3, <2>4
  <1>7. ASSUME NEW s, Contains(e.sets, s), p \in {e.infos[s].parent, e.infos[s].other} PROVE s = c
    <2>1. s \in 1 .. New(e)
      BY <1>3, <1>7, ContainsIn DEF Typed
    <2>2. SetKnown(e, s)
      BY <1>3, <1>7, <2>1 DEF Registered
    <2>3. Reads(e, p, s)
      BY <1>4, <1>7, <2>2 DEF SetKnown
    <2> QED  BY <1>4, <2>3
  <1>8. ASSUME NEW s, Contains(e.sinks, s) PROVE p \notin {e.infos[s].parent, e.infos[s].other}
    <2>1. s \in 1 .. New(e)
      BY <1>3, <1>8, ContainsIn DEF Typed
    <2>2. SinkKnown(e, s) /\ e.infos[s].other = 0
      BY <1>3, <1>8, <2>1 DEF Registered, Kinds
    <2>3. ~Contains(e.infos[p].sinks, s)
      BY <1>4 DEF Contains
    <2> QED  BY <1>4, <2>2, <2>3 DEF SinkKnown
  <1>9. {s \in ToSet(e.sets \o e.sinks) : p \in {e.infos[s].parent, e.infos[s].other}} = {c}
    BY <1>2, <1>6, <1>7, <1>8
  <1> QED  BY <1>1, <1>3, <1>5, <1>9

\* Only a function that no other set or sink than its child reads is merged with
\* it, and the child leaves the plan in the same step (_find_chains): for scripts of
\* any length and any methods.
THEOREM OnlyReaderMerged == Spec => MergedAlone
  <1>1. ASSUME Inv, [Next]_vars
        PROVE  [\A p \in Known(env) : env'.infos[p].chained # env.infos[p].chained =>
                  /\ {s \in ToSet(env.sets \o env.sinks) : p \in {env.infos[s].parent, env.infos[s].other}}
                        = {env'.infos[p].chained}
                  /\ ~Contains(env'.sets, env'.infos[p].chained)]_vars
    <2>1. Known(env) = 1 .. New(env)
      BY <1>1, KnownLen DEF Inv, Whole
    <2>2. CASE Script
      <3>1. Follows(env, env')
        BY <1>1, <2>2, ScriptStep
      <3> QED  BY <2>1, <3>1 DEF Follows, Extends
    <2>3. CASE FindChains
      <3>1. CASE env' = env
        BY <3>1
      <3>2. CASE env' # env
        <4>1. PICK c, p : Merged(env, x, c, p) /\ env' = Chain(env, c) /\ x \in 1 .. Len(env.sets)
          BY <1>1, <2>3, <3>2, FindChainsStep
        <4>2. Whole(env)
          BY <1>1 DEF Inv
        <4> QED  BY <4>1, <4>2, ChainAlone
      <3> QED  BY <3>1, <3>2
    <2>4. CASE Execute \/ SendPlan
      BY <2>4 DEF Execute, SendPlan
    <2>5. CASE UNCHANGED vars
      BY <2>5
    <2> QED  BY <1>1, <2>2, <2>3, <2>4, <2>5 DEF Next
  <1> QED  BY <1>1, PlanInvariant, PTL DEF Spec, MergedAlone

-----------------------------------------------------------------------------
(* What is sent.                                                           *)

LEMMA OnceConcat ==
    ASSUME NEW S, NEW s \in Seq(S), NEW t \in Seq(S), IsOnce(s), IsOnce(t),
           \A y : Contains(s, y) => ~Contains(t, y)
    PROVE  IsOnce(s \o t)
  <1>1. PICK u : u = s \o t
    OBVIOUS
  <1>2. /\ u \in Seq(S) /\ Len(u) = Len(s) + Len(t)
        /\ \A i \in 1 .. Len(s) + Len(t) : u[i] = IF i <= Len(s) THEN s[i] ELSE t[i - Len(s)]
    BY <1>1, ConcatProperties
  <1>3. Len(s) \in Nat /\ Len(t) \in Nat
    BY LenProperties
  <1>4. \A i, j : i \in 1 .. Len(s) /\ j \in 1 .. Len(t) => s[i] # t[j]
    BY DEF Contains
  <1>5. \A i \in 1 .. Len(u) : \/ i \in 1 .. Len(s) /\ u[i] = s[i]
                               \/ i - Len(s) \in 1 .. Len(t) /\ u[i] = t[i - Len(s)]
    BY <1>2, <1>3
  <1>6. ASSUME NEW i \in 1 .. Len(u), NEW j \in 1 .. Len(u), u[i] = u[j] PROVE i = j
    <2>1. CASE i \in 1 .. Len(s) /\ j \in 1 .. Len(s)
      BY <1>2, <1>3, <1>6, <2>1 DEF IsOnce
    <2>2. CASE i - Len(s) \in 1 .. Len(t) /\ j - Len(s) \in 1 .. Len(t)
      <3>1. u[i] = t[i - Len(s)] /\ u[j] = t[j - Len(s)]
        BY <1>2, <1>3, <2>2
      <3>2. i - Len(s) = j - Len(s)
        BY <1>6, <2>2, <3>1 DEF IsOnce
      <3> QED  BY <1>2, <1>3, <3>2
    <2>3. CASE i \in 1 .. Len(s) /\ j - Len(s) \in 1 .. Len(t)
      <3>1. u[i] = s[i] /\ u[j] = t[j - Len(s)]
        BY <1>2, <1>3, <2>3
      <3> QED  BY <1>4, <1>6, <2>3, <3>1
    <2>4. CASE j \in 1 .. Len(s) /\ i - Len(s) \in 1 .. Len(t)
      <3>1. u[j] = s[j] /\ u[i] = t[i - Len(s)]
        BY <1>2, <1>3, <2>4
      <3> QED  BY <1>4, <1>6, <2>4, <3>1
    <2> QED  BY <1>5, <2>1, <2>2, <2>3, <2>4
  <1> QED  BY <1>1, <1>6 DEF IsOnce

LEMMA ToSetContains ==
    ASSUME NEW S, NEW s \in Seq(S)
    PROVE  \A y : y \in ToSet(s) <=> Contains(s, y)
  BY LenProperties DEF ToSet, Contains

\* The order in which operations are sent.
Sending(e) == e.sources \o e.sets \o e.sinks \o e.broadcast

LEMMA SendingOnce ==
    ASSUME NEW e, Whole(e)
    PROVE  /\ Sending(e) \in Seq(1 .. New(e)) /\ IsOnce(Sending(e))
           /\ \A y : Contains(Sending(e), y) <=> \/ Contains(e.sources, y) \/ Contains(e.sets, y)
                                                \/ Contains(e.sinks, y) \/ Contains(e.broadcast, y)
  <1>1. PICK T : T = 1 .. New(e)
    OBVIOUS
  <1>2. /\ e.sources \in Seq(T) /\ e.sets \in Seq(T) /\ e.sinks \in Seq(T) /\ e.broadcast \in Seq(T)
        /\ IsOnce(e.sources) /\ IsOnce(e.sets) /\ IsOnce(e.sinks) /\ IsOnce(e.broadcast)
        /\ Kinds(e)
    BY <1>1 DEF Whole, Typed, Sane, Once
  <1>3. \A y : /\ Contains(e.sources, y) => e.infos[y].identifier \in Sources
               /\ Contains(e.sets, y) => e.infos[y].identifier \in SetKinds
               /\ Contains(e.sinks, y) => e.infos[y].identifier \in SinkKinds
               /\ Contains(e.broadcast, y) => e.infos[y].identifier = "broadcast"
    <2> TAKE y
    <2>1. CASE y \in T
      BY <1>1, <1>2, <2>1 DEF Kinds
    <2>2. CASE y \notin T
      BY <1>2, <2>2, ContainsIn
    <2> QED  BY <2>1, <2>2
  <1>4. PICK a : a = e.sources \o e.sets
    OBVIOUS
  <1>5. a \in Seq(T) /\ \A y : Contains(a, y) <=> Contains(e.sources, y) \/ Contains(e.sets, y)
    BY <1>2, <1>4, ContainsConcat
  <1>6. IsOnce(a)
    <2>1. \A y : Contains(e.sources, y) => ~Contains(e.sets, y)
      BY <1>3, KindsApart
    <2> QED  BY <1>2, <1>4, <2>1, OnceConcat
  <1>7. PICK b : b = a \o e.sinks
    OBVIOUS
  <1>8. b \in Seq(T) /\ \A y : Contains(b, y) <=> Contains(a, y) \/ Contains(e.sinks, y)
    BY <1>2, <1>5, <1>7, ContainsConcat
  <1>9. IsOnce(b)
    <2>1. \A y : Contains(a, y) => ~Contains(e.sinks, y)
      BY <1>3, <1>5, KindsApart
    <2> QED  BY <1>2, <1>5, <1>6, <1>7, <2>1, OnceConcat
  <1>10. PICK d : d = b \o e.broadcast
    OBVIOUS
  <1>11. d \in Seq(T) /\ \A y : Contains(d, y) <=> Contains(b, y) \/ Contains(e.broadcast, y)
    BY <1>2, <1>8, <1>10, ContainsConcat
  <1>12. IsOnce(d)
    <2>1. \A y : Contains(b, y) => ~Contains(e.broadcast, y)
      BY <1>3, <1>5, <1>8, KindsApart
    <2> QED  BY <1>2, <1>8, <1>9, <1>10, <2>1, OnceConcat
  <1>13. Sending(e) = d
    BY <1>4, <1>7, <1>10 DEF Sending
  <1> QED  BY <1>1, <1>5, <1>8, <1>11, <1>12, <1>13

\* What the plan of Environment e lists, and that it is of this one.
LEMMA Operations ==
    ASSUME NEW e, Whole(e)
    PROVE  LET l == Plan(e) IN
           /\ DOMAIN l = 1 .. Len(Sending(e))
           /\ \A i \in DOMAIN l : /\ l[i].id = e.infos[Sending(e)[i]].id
                                  /\ l[i].parent = IdOf(e, e.infos[Sending(e)[i]].parent)
                                  /\ l[i].other = IdOf(e, e.infos[Sending(e)[i]].other)
                                  /\ Sending(e)[i] \in 1 .. New(e)
                                  /\ Contains(Sending(e), Sending(e)[i])
  <1>1. PICK all : all = Sending(e)
    OBVIOUS
  <1>2. all \in Seq(1 .. New(e))
    BY <1>1, SendingOnce
  <1>3. Plan(e) = [i \in DOMAIN all |-> Operation(e, all[i])]
    BY <1>1 DEF Plan, Sending
  <1>4. DOMAIN all = 1 .. Len(all)
    BY <1>2, LenProperties
  <1>5. \A i \in 1 .. Len(all) : all[i] \in 1 .. New(e) /\ Contains(all, all[i])
    BY <1>2, ElementOfSeq DEF Contains
  <1>6. \A i : /\ Operation(e, i).id = e.infos[i].id
               /\ Operation(e, i).parent = IdOf(e, e.infos[i].parent)
               /\ Operation(e, i).other = IdOf(e, e.infos[i].other)
    BY DEF Operation
  <1> QED  BY <1>1, <1>3, <1>4, <1>5, <1>6

LEMMA SentIdsUnique == Inv /\ phase = "sent" => IdsUnique
  <1> SUFFICES ASSUME Inv, phase = "sent" PROVE IdsUnique
    OBVIOUS
  <1>1. PICK e : e = env
    OBVIOUS
  <1>2. PICK all : all = Sending(e)
    OBVIOUS
  <1>3. Whole(e) /\ UniqueIds(e) /\ plan = Plan(e)
    BY <1>1 DEF Inv, Whole, Sane
  <1>4. IsOnce(all)
    BY <1>2, <1>3, SendingOnce
  <1>5. /\ DOMAIN plan = 1 .. Len(all)
        /\ \A i \in DOMAIN plan : plan[i].id = e.infos[all[i]].id /\ all[i] \in 1 .. New(e)
    BY <1>2, <1>3, Operations
  <1>6. ASSUME NEW i \in DOMAIN plan, NEW j \in DOMAIN plan, plan[i].id = plan[j].id, plan[i].id # -1
        PROVE  i = j
    <2>1. PICK a : a = all[i]
      OBVIOUS
    <2>2. PICK b : b = all[j]
      OBVIOUS
    <2>3. /\ a \in 1 .. New(e) /\ b \in 1 .. New(e) /\ e.infos[a].id = e.infos[b].id
          /\ e.infos[a].id # -1
      BY <1>5, <1>6, <2>1, <2>2
    <2>4. a = b
      BY <1>3, <2>3 DEF UniqueIds
    <2> QED  BY <1>4, <1>5, <2>1, <2>2, <2>4 DEF IsOnce
  <1> QED  BY <1>6 DEF IdsUnique

LEMMA SentInputsSent == Inv /\ phase = "sent" => InputsSent
  <1> SUFFICES ASSUME Inv, phase = "sent" PROVE InputsSent
    OBVIOUS
  <1>1. PICK e : e = env
    OBVIOUS
  <1>2. PICK ids : ids = {e.infos[s].id : s \in ToSet(e.sources \o e.sets)}
    OBVIOUS
  <1>3. Whole(e) /\ Typed(e) /\ Kinds(e) /\ Resolved(e) /\ plan = Plan(e)
    BY <1>1 DEF Inv, Whole, Sane
  <1>4. ASSUME NEW i, Sent(e, i) PROVE IdOf(e, i) \in ids
    <2>1. PICK T : T = 1 .. New(e)
      OBVIOUS
    <2>2. e.sources \in Seq(T) /\ e.sets \in Seq(T)
      BY <1>3, <2>1 DEF Typed
    <2>3. /\ e.sources \o e.sets \in Seq(T)
          /\ \A y : Contains(e.sources \o e.sets, y) <=> Contains(e.sources, y) \/ Contains(e.sets, y)
      BY <2>2, ContainsConcat
    <2>4. i \in ToSet(e.sources \o e.sets)
      BY <1>4, <2>3, ToSetContains DEF Sent
    <2>5. i # 0
      BY <1>3, <1>4, SentKnown, KnownLen
    <2> QED  BY <1>2, <2>4, <2>5 DEF IdOf
  <1>5. IdOf(e, 0) = -1
    BY DEF IdOf
  <1>6. ASSUME NEW i \in DOMAIN plan PROVE {plan[i].parent, plan[i].other} \subseteq {-1} \cup ids
    <2>1. PICK s : s = Sending(e)[i]
      OBVIOUS
    <2>2. /\ plan[i].parent = IdOf(e, e.infos[s].parent) /\ plan[i].other = IdOf(e, e.infos[s].other)
          /\ s \in 1 .. New(e) /\ Contains(Sending(e), s)
      BY <1>3, <2>1, Operations
    <2>3. CASE Contains(e.sources, s)
      BY <1>3, <1>5, <2>2, <2>3 DEF Kinds
    <2>4. CASE ~Contains(e.sources, s)
      <3>1. Contains(e.sets, s) \/ Contains(e.sinks, s) \/ Contains(e.broadcast, s)
        BY <1>3, <2>2, <2>4, SendingOnce
      <3>2. Fed(e, s)
        BY <1>3, <2>2, <3>1 DEF Resolved
      <3> QED  BY <1>4, <1>5, <2>2, <3>2 DEF Fed
    <2> QED  BY <2>3, <2>4
  <1> QED  BY <1>1, <1>2, <1>6 DEF InputsSent

LEMMA SentOperatorsFound == Inv /\ phase = "sent" => OperatorsFound
  <1> SUFFICES ASSUME Inv PROVE OperatorsFound
    OBVIOUS
  <1>1. PICK e : e = env
    OBVIOUS
  <1>2. /\ Numbered(e) /\ UniqueIds(e) /\ Once(e) /\ e.sets \in Seq(1 .. New(e))
        /\ DOMAIN e.sets = 1 .. Len(e.sets)
    BY <1>1, LenProperties DEF Inv, Whole, Sane, Typed
  <1>3. ASSUME NEW s \in ToSet(e.sets) PROVE OperatorFor(e, e.infos[s].id) = s
    <2>1. PICK q \in DOMAIN e.sets : e.sets[q] = s
      BY DEF ToSet
    <2>2. s \in 1 .. New(e) /\ Contains(e.sets, s)
      BY <1>2, <2>1, ElementOfSeq DEF Contains
    <2>3. PICK n : n = e.infos[s].id
      OBVIOUS
    <2>4. n # -1
      BY <1>2, <2>2, <2>3 DEF Numbered
    <2>5. PICK hits : hits = {k \in DOMAIN e.sets : e.infos[e.sets[k]].id = n}
      OBVIOUS
    <2>6. hits = {q}
      <3>1. q \in hits
        BY <2>1, <2>3, <2>5
      <3>2. ASSUME NEW k \in hits PROVE k = q
        <4>1. PICK y : y = e.sets[k]
          OBVIOUS
        <4>2. k \in 1 .. Len(e.sets) /\ e.infos[y].id = n
          BY <1>2, <2>5, <4>1
        <4>3. y \in 1 .. New(e)
          BY <1>2, <4>1, <4>2, ElementOfSeq
        <4>4. y = s
          BY <1>2, <2>2, <2>3, <2>4, <4>2, <4>3 DEF UniqueIds
        <4> QED  BY <1>2, <2>1, <4>1, <4>2, <4>4 DEF Once, IsOnce
      <3> QED  BY <3>1, <3>2
    <2>7. Max(hits) = q
      BY <1>2, <2>1, <2>6 DEF Max
    <2>8. OperatorFor(e, n) = IF hits = {} THEN 0 ELSE e.sets[Max(hits)]
      BY <2>5, Zenon DEF OperatorFor
    <2> QED  BY <2>1, <2>3, <2>6, <2>7, <2>8
  <1> QED  BY <1>1, <1>3 DEF OperatorsFound

LEMMA SentChains == Inv /\ phase = "sent" => TypesTrue /\ RunOnce
  <1> SUFFICES ASSUME Inv, phase = "sent" PROVE TypesTrue /\ RunOnce
    OBVIOUS
  <1>1. PICK e : e = env
    OBVIOUS
  <1>2. PICK o : o = orig
    OBVIOUS
  <1>3. /\ Apart(e, o)
        /\ \A s : s \in ToSet(e.sets) <=> Contains(e.sets, s)
        /\ \A s : s \in ToSet(o.sets) <=> Contains(o.sets, s)
    <2>1. Apart(e, o) /\ e.sets \in Seq(1 .. New(e)) /\ o.sets \in Seq(1 .. New(o))
      BY <1>1, <1>2 DEF Inv, Whole, Typed
    <2> QED  BY <2>1, ToSetContains
  <1>4. TypesTrue
    BY <1>1, <1>2, <1>3 DEF TypesTrue, Apart, Announced
  <1>5. ASSUME NEW f \in ToSet(o.sets)
        PROVE  Cardinality({s \in ToSet(e.sets) : Contains(ChainOf(e, s), f)}) = 1
    <2>1. PICK H : H = {s \in ToSet(e.sets) : Contains(ChainOf(e, s), f)}
      OBVIOUS
    <2>2. PICK s : RunsIn(e, s, f)
      BY <1>3 DEF Apart, Covered
    <2>3. \A y : y \in H <=> RunsIn(e, y, f)
      BY <1>3, <2>1 DEF RunsIn
    <2>4. \A y : RunsIn(e, y, f) => y = s
      BY <1>3, <2>2 DEF Apart, Disjoint
    <2>5. H = {s}
      BY <2>2, <2>3, <2>4
    <2> QED  BY <2>1, <2>5, FS_Singleton
  <1> QED  BY <1>1, <1>2, <1>4, <1>5 DEF RunOnce

\* Every plan that is sent resolves, whatever the script and the merges: no two of
\* its operations share an id, what an operation reads is sent too (_send_operation),
\* every set announces the type of its last function (Environment.py, _find_chains),
\* the process started for a set finds it by id, and no function is run twice or
\* lost by the merging.
THEOREM EveryPlanResolves == Spec => []PlanResolves
  <1>1. Inv => PlanResolves
    BY SentIdsUnique, SentInputsSent, SentOperatorsFound, SentChains DEF PlanResolves
  <1> QED  BY <1>1, PlanInvariant, PTL
-----------------------------------------------------------------------------
(* Groupings keep the fields the script named.                             *)

\* A number of I stands in Ascending(I) at its rank.
LEMMA AscendingHas ==
    ASSUME NEW I, I \subseteq Int, IsFiniteSet(I)
    PROVE  /\ Cardinality(I) \in Nat /\ DOMAIN Ascending(I) = 1 .. Cardinality(I)
           /\ \A f \in I : \E n \in 1 .. Cardinality(I) : Ascending(I)[n] = f
  <1>1. Cardinality(I) \in Nat
    BY FS_CardinalityType
  <1>2. DOMAIN Ascending(I) = 1 .. Cardinality(I)
    BY DEF Ascending
  <1>3. ASSUME NEW f \in I PROVE \E n \in 1 .. Cardinality(I) : Ascending(I)[n] = f
    <2>1. PICK n : n = Cardinality({j \in I : j <= f})
      OBVIOUS
    <2>2. ASSUME NEW g \in I, NEW h \in I, g < h
          PROVE  Cardinality({j \in I : j <= g}) < Cardinality({j \in I : j <= h})
      <3>1. PICK A : A = {j \in I : j <= g}
        OBVIOUS
      <3>2. PICK B : B = {j \in I : j <= h}
        OBVIOUS
      <3>3. A \subseteq B /\ h \in B /\ h \notin A /\ B \subseteq I
        <4>1. g \in Int /\ h \in Int /\ \A j \in I : j \in Int
          OBVIOUS
        <4>2. \A j \in I : j <= g => j <= h
          BY <2>2, <4>1
        <4>3. h <= h /\ ~(h <= g)
          BY <2>2, <4>1
        <4> QED  BY <3>1, <3>2, <4>2, <4>3
      <3>4. IsFiniteSet(B) /\ IsFiniteSet(A)
        BY <3>3, FS_Subset
      <3>5. Cardinality(A) < Cardinality(B)
        <4>1. Cardinality(A) <= Cardinality(B) /\ Cardinality(A) # Cardinality(B)
          BY <3>3, <3>4, FS_Subset
        <4>2. Cardinality(A) \in Nat /\ Cardinality(B) \in Nat
          BY <3>4, FS_CardinalityType
        <4> QED  BY <4>1, <4>2
      <3> QED  BY <3>1, <3>2, <3>5
    <2>3. n \in 1 .. Cardinality(I)
      <3>1. PICK A : A = {j \in I : j <= f}
        OBVIOUS
      <3>2. A \subseteq I /\ f \in A
        BY <3>1
      <3>3. IsFiniteSet(A) /\ Cardinality(A) <= Cardinality(I) /\ Cardinality(A) \in Nat
        BY <3>2, FS_Subset, FS_CardinalityType
      <3>4. Cardinality(A) # 0
        BY <3>2, <3>3, FS_EmptySet
      <3> QED  BY <1>1, <2>1, <3>1, <3>3, <3>4
    <2>4. ASSUME NEW g \in I, Cardinality({j \in I : j <= g}) = n PROVE g = f
      <3>1. ~(g < f) /\ ~(f < g)
        <4>1. CASE g < f
          <5>1. Cardinality({j \in I : j <= g}) < n /\ n \in Int
            BY <2>1, <2>2, <2>3, <4>1
          <5> QED  BY <2>4, <5>1
        <4>2. CASE f < g
          <5>1. n < Cardinality({j \in I : j <= g}) /\ n \in Int
            BY <2>1, <2>2, <2>3, <4>2
          <5> QED  BY <2>4, <5>1
        <4> QED  BY <4>1, <4>2
      <3> QED  BY <3>1
    <2>5. Ascending(I)[n] = CHOOSE i \in I : Cardinality({j \in I : j <= i}) = n
      BY <2>3, Zenon DEF Ascending
    <2>6. (CHOOSE i \in I : Cardinality({j \in I : j <= i}) = n) = f
      BY <2>1, <2>4, Zenon
    <2> QED  BY <2>3, <2>5, <2>6
  <1> QED  BY <1>1, <1>2, <1>3

\* What is at a picked position is among what is picked.
LEMMA PickedHas ==
    ASSUME NEW s, NEW I, I \subseteq Int, IsFiniteSet(I), NEW k \in I
    PROVE  \E n \in 1 .. Cardinality(I) : Picked(s, I)[n] = s[k]
  <1>1. PICK a : a = Ascending(I)
    OBVIOUS
  <1>2. PICK n \in 1 .. Cardinality(I) : a[n] = k
    BY <1>1, AscendingHas
  <1>3. Picked(s, I)[n] = s[a[n]]
    BY <1>1, Zenon DEF Picked
  <1> QED  BY <1>2, <1>3

\* An Environment as to its shape: infos in a sequence, with the fields of one.
Shaped(e) ==
    /\ DOMAIN e = EnvFields /\ SomeSeq(e.infos)
    /\ \A i \in 1 .. New(e) : DOMAIN e.infos[i] = Fields

Grouping(e, i) == i \in 1 .. New(e) /\ e.infos[i].cls = "grouping"
Root(e, g) == Grouping(e, g) /\ e.infos[g].identifier = "groupby"
Sorting(e, s) == Grouping(e, s) /\ e.infos[s].identifier = "sort"

\* What may read p: a sort that is read has got its position.
Usable(e, p) == p \in 0 .. New(e) /\ (Sorting(e, p) => e.infos[p].finals # 0)

\* What of a grouping and of a hidden step a later call does not touch.
AsGrouping(v, w) ==
    /\ w.identifier = v.identifier /\ w.parent = v.parent /\ w.group = v.group
    /\ w.keys = v.keys /\ w.sorts = v.sorts /\ w.field = v.field
    /\ w.asked = v.asked /\ w.finals = v.finals
AsHidden(v, w) ==
    /\ w.identifier = v.identifier /\ w.cls = v.cls
    /\ w.operator = v.operator /\ w.types = v.types

\* Calls that neither create nor change a grouping.
Quiet(e, d) ==
    /\ Shaped(d) /\ New(e) <= New(d)
    /\ \A j \in 1 .. New(d) : Grouping(d, j) => Grouping(e, j)
    /\ \A j \in 1 .. New(e) :
          /\ Grouping(e, j) => Grouping(d, j) /\ AsGrouping(e.infos[j], d.infos[j])
          /\ e.infos[j].cls = "hidden" => AsHidden(e.infos[j], d.infos[j])
    /\ \A j \in 1 .. New(d) : ~Grouping(d, j) =>
          \/ j \in 1 .. New(e) /\ d.infos[j].parent = e.infos[j].parent
          \/ Usable(d, d.infos[j].parent)

LEMMA ShapedLen == ASSUME NEW e, Shaped(e) PROVE New(e) \in Nat /\ Known(e) = 1 .. New(e)
  BY SomeSeqKnown DEF Shaped, New, Known

LEMMA TypedShaped == ASSUME NEW e, Typed(e) PROVE Shaped(e)
  BY DEF Typed, Shaped, InfoOK

LEMMA QuietUsable ==
    ASSUME NEW e, Shaped(e), NEW d, Quiet(e, d), NEW p, Usable(e, p)
    PROVE  Usable(d, p)
  <1>1. New(e) \in Nat /\ New(d) \in Nat /\ New(e) <= New(d)
    BY ShapedLen DEF Quiet
  <1>2. p \in 0 .. New(d)
    BY <1>1 DEF Usable
  <1>3. ASSUME Sorting(d, p) PROVE d.infos[p].finals # 0
    <2>1. Grouping(e, p)
      BY <1>3 DEF Sorting, Grouping, Quiet
    <2>2. p \in 1 .. New(e) /\ AsGrouping(e.infos[p], d.infos[p])
      BY <2>1 DEF Quiet, Grouping
    <2>3. Sorting(e, p)
      BY <1>3, <2>1, <2>2 DEF Sorting, AsGrouping
    <2> QED  BY <2>2, <2>3 DEF Usable, AsGrouping
  <1> QED  BY <1>2, <1>3 DEF Usable

LEMMA QuietAgain ==
    ASSUME NEW e, Shaped(e), NEW d, Quiet(e, d), NEW g, Quiet(d, g)
    PROVE  Quiet(e, g)
  <1>1. New(e) \in Nat /\ New(d) \in Nat /\ New(g) \in Nat /\ New(e) <= New(d) /\ New(d) <= New(g)
    BY ShapedLen DEF Quiet
  <1>2. \A j \in 1 .. New(e) : j \in 1 .. New(d)
    BY <1>1
  <1>3. \A j \in 1 .. New(g) : Grouping(g, j) => Grouping(e, j)
    BY DEF Quiet, Grouping
  <1>4. ASSUME NEW j \in 1 .. New(e), Grouping(e, j)
        PROVE  Grouping(g, j) /\ AsGrouping(e.infos[j], g.infos[j])
    BY <1>2, <1>4 DEF Quiet, AsGrouping
  <1>5. ASSUME NEW j \in 1 .. New(e), e.infos[j].cls = "hidden"
        PROVE  AsHidden(e.infos[j], g.infos[j])
    BY <1>2, <1>5 DEF Quiet, AsHidden
  <1>6. ASSUME NEW j \in 1 .. New(g), ~Grouping(g, j)
        PROVE  \/ j \in 1 .. New(e) /\ g.infos[j].parent = e.infos[j].parent
               \/ Usable(g, g.infos[j].parent)
    <2>1. CASE Usable(g, g.infos[j].parent)
      BY <2>1
    <2>2. CASE j \in 1 .. New(d) /\ g.infos[j].parent = d.infos[j].parent
      <3>1. ~Grouping(d, j)
        BY <1>6, <2>2 DEF Quiet
      <3>2. CASE j \in 1 .. New(e) /\ d.infos[j].parent = e.infos[j].parent
        BY <2>2, <3>2
      <3>3. CASE Usable(d, d.infos[j].parent)
        <4>1. PICK p : p = d.infos[j].parent
          OBVIOUS
        <4>2. Usable(g, p)
          BY <3>3, <4>1, QuietUsable DEF Quiet
        <4> QED  BY <2>2, <4>1, <4>2
      <3> QED  BY <2>2, <3>1, <3>2, <3>3 DEF Quiet
    <2> QED  BY <1>6, <2>1, <2>2 DEF Quiet
  <1> QED  BY <1>1, <1>3, <1>4, <1>5, <1>6 DEF Quiet

\* What groupings do not look at: of an info, and of an Environment.
Free == {"id", "other", "key1", "key2", "name", "chained", "bcvars", "sinks", "children"}
WithList(e, l, v) == [e EXCEPT ![l] = v]

Like(v, w) == AsGrouping(v, w) /\ AsHidden(v, w)
Alike(e, d) == Shaped(d) /\ New(d) = New(e) /\ \A j \in 1 .. New(e) : Like(e.infos[j], d.infos[j])

\* A new info like v, and nothing else to look at.
Grew(e, d, v) ==
    /\ Shaped(d) /\ New(d) = New(e) + 1
    /\ Like(v, d.infos[New(d)])
    /\ \A j \in 1 .. New(e) : Like(e.infos[j], d.infos[j])

\* Field f of info i set to v.
IsSet(e, d, i, f, v) ==
    /\ Shaped(d) /\ New(d) = New(e)
    /\ \A j \in 1 .. New(e) : j # i => d.infos[j] = e.infos[j]
    /\ i \in 1 .. New(e) => d.infos[i] = InfoField(e.infos[i], f, v)

LEMMA FieldSet ==
    ASSUME NEW e, Shaped(e), NEW i, NEW f \in Fields, NEW v
    PROVE  IsSet(e, WithField(e, i, f, v), i, f, v)
  <1>1. PICK w : w = InfoField(e.infos[i], f, v)
    OBVIOUS
  <1>2. PICK s : s = Put(e.infos, i, w)
    OBVIOUS
  <1>3. PICK d : d = [e EXCEPT !.infos = s]
    OBVIOUS
  <1>4. WithField(e, i, f, v) = d
    BY <1>1, <1>2, <1>3, Zenon DEF WithField, Put, InfoField
  <1>5. /\ SomeSeq(s) /\ Len(s) = Len(e.infos)
        /\ i \in 1 .. Len(e.infos) => s[i] = w
        /\ \A j \in 1 .. Len(e.infos) : j # i => s[j] = e.infos[j]
    <2>1. SomeSeq(e.infos)
      BY DEF Shaped
    <2> QED  BY <1>2, <2>1, SomeSeqPut
  <1>6. d.infos = s /\ DOMAIN d = EnvFields
    BY <1>3 DEF Shaped, EnvFields
  <1>7. New(d) = New(e) /\ New(e) = Len(e.infos)
    BY <1>5, <1>6 DEF New
  <1>8. i \in 1 .. New(e) => DOMAIN w = Fields
    BY <1>1 DEF Shaped, InfoField
  <1>9. ASSUME NEW j \in 1 .. New(e) PROVE DOMAIN d.infos[j] = Fields
    BY <1>5, <1>6, <1>7, <1>8 DEF Shaped
  <1>10. Shaped(d)
    BY <1>5, <1>6, <1>7, <1>9 DEF Shaped
  <1> QED  BY <1>1, <1>4, <1>5, <1>6, <1>7, <1>10 DEF IsSet

LEMMA FreeLike ==
    ASSUME NEW v, DOMAIN v = Fields, NEW f \in Free, NEW u
    PROVE  Like(v, InfoField(v, f, u))
  <1>1. PICK w : w = InfoField(v, f, u)
    OBVIOUS
  <1>2. \A g \in Fields : g # f => w[g] = v[g]
    BY <1>1 DEF InfoField
  <1>3. f \notin {"identifier", "cls", "parent", "keys", "group", "sorts", "field", "asked",
                  "finals", "operator", "types"}
    BY DEF Free
  <1>4. /\ w.identifier = v.identifier /\ w.cls = v.cls /\ w.parent = v.parent
        /\ w.keys = v.keys /\ w.group = v.group /\ w.sorts = v.sorts
        /\ w.field = v.field /\ w.asked = v.asked /\ w.finals = v.finals
        /\ w.operator = v.operator /\ w.types = v.types
    BY <1>2, <1>3 DEF Fields
  <1> QED  BY <1>1, <1>4 DEF Like, AsGrouping, AsHidden

LEMMA FreeAlike ==
    ASSUME NEW e, Shaped(e), NEW i, NEW f \in Free, NEW v
    PROVE  Alike(e, WithField(e, i, f, v))
  <1>1. PICK d : d = WithField(e, i, f, v)
    OBVIOUS
  <1>2. IsSet(e, d, i, f, v)
    BY <1>1, FieldSet DEF Free, Fields
  <1>3. ASSUME NEW j \in 1 .. New(e) PROVE Like(e.infos[j], d.infos[j])
    <2>1. CASE j # i
      BY <1>2, <2>1 DEF IsSet, Like, AsGrouping, AsHidden
    <2>2. CASE j = i
      <3>1. PICK w : w = e.infos[j]
        OBVIOUS
      <3>2. Like(w, InfoField(w, f, v))
        BY <3>1, FreeLike DEF Shaped
      <3>3. d.infos[j] = InfoField(w, f, v)
        BY <1>2, <2>2, <3>1 DEF IsSet
      <3> QED  BY <3>1, <3>2, <3>3
    <2> QED  BY <2>1, <2>2
  <1> QED  BY <1>1, <1>2, <1>3 DEF Alike, IsSet

LEMMA ListAlike ==
    ASSUME NEW e, Shaped(e), NEW l \in EnvFields \ {"infos"}, NEW v
    PROVE  Alike(e, WithList(e, l, v))
  <1>1. PICK d : d = WithList(e, l, v)
    OBVIOUS
  <1>2. DOMAIN d = EnvFields /\ \A f \in EnvFields : f # l => d[f] = e[f]
    BY <1>1 DEF WithList, Shaped
  <1>3. d.infos = e.infos
    BY <1>2 DEF EnvFields
  <1>4. Shaped(d) /\ New(d) = New(e)
    BY <1>2, <1>3 DEF Shaped, New
  <1> QED  BY <1>1, <1>3, <1>4 DEF Alike, Like, AsGrouping, AsHidden

LEMMA AlikeAgain ==
    ASSUME NEW e, NEW d, Alike(e, d), NEW g, Alike(d, g)
    PROVE  Alike(e, g)
  BY DEF Alike, Like, AsGrouping, AsHidden

LEMMA AlikeQuiet ==
    ASSUME NEW e, Shaped(e), NEW d, Alike(e, d)
    PROVE  Quiet(e, d)
  <1>1. New(e) \in Nat
    BY ShapedLen
  <1> QED  BY <1>1 DEF Alike, Like, AsGrouping, AsHidden, Quiet, Grouping

LEMMA GrewAlike ==
    ASSUME NEW e, Shaped(e), NEW v, NEW d, Grew(e, d, v), NEW g, Alike(d, g)
    PROVE  Grew(e, g, v)
  <1>1. New(e) \in Nat /\ New(d) = New(e) + 1
    BY ShapedLen DEF Grew
  <1>2. New(d) \in 1 .. New(d) /\ \A j \in 1 .. New(e) : j \in 1 .. New(d)
    BY <1>1
  <1> QED  BY <1>1, <1>2 DEF Grew, Alike, Like, AsGrouping, AsHidden

LEMMA GrewQuiet ==
    ASSUME NEW e, Shaped(e), NEW v, NEW d, Grew(e, d, v), v.cls # "grouping", Usable(e, v.parent)
    PROVE  Quiet(e, d)
  <1>1. New(e) \in Nat /\ New(d) = New(e) + 1
    BY ShapedLen DEF Grew
  <1>2. \A j \in 1 .. New(d) : j \in 1 .. New(e) \/ j = New(d)
    BY <1>1
  <1>3. \A j \in 1 .. New(e) : j \in 1 .. New(d) /\ Like(e.infos[j], d.infos[j])
    BY <1>1 DEF Grew
  <1>4. \A j \in 1 .. New(d) : Grouping(d, j) => Grouping(e, j)
    BY <1>2, <1>3 DEF Grew, Grouping, Like, AsHidden
  <1>5. ASSUME NEW j \in 1 .. New(e)
        PROVE  /\ Grouping(e, j) => Grouping(d, j) /\ AsGrouping(e.infos[j], d.infos[j])
               /\ AsHidden(e.infos[j], d.infos[j])
               /\ d.infos[j].parent = e.infos[j].parent
    BY <1>3 DEF Grouping, Like, AsGrouping, AsHidden
  <1>6. Usable(d, v.parent)
    <2>1. PICK p : p = v.parent
      OBVIOUS
    <2>2. p \in 0 .. New(e) /\ p \in 0 .. New(d)
      BY <1>1, <2>1 DEF Usable
    <2>3. ASSUME Sorting(d, p) PROVE d.infos[p].finals # 0
      <3>1. Grouping(e, p)
        BY <1>4, <2>3 DEF Sorting, Grouping
      <3>2. p \in 1 .. New(e)
        BY <3>1 DEF Grouping
      <3>3. Sorting(e, p)
        BY <2>3, <1>5, <3>1, <3>2 DEF Sorting, AsGrouping
      <3> QED  BY <1>5, <2>1, <3>1, <3>2, <3>3 DEF Usable, AsGrouping
    <2> QED  BY <2>1, <2>2, <2>3 DEF Usable
  <1>7. d.infos[New(d)].parent = v.parent
    BY DEF Grew, Like, AsGrouping
  <1> QED  BY <1>1, <1>2, <1>4, <1>5, <1>6, <1>7 DEF Quiet, Grew

LEMMA AllocateGrew ==
    ASSUME NEW e, Shaped(e), NEW v, DOMAIN v = Fields
    PROVE  Grew(e, Allocate(e, v), v)
  <1>1. PICK s : s = Append(e.infos, v)
    OBVIOUS
  <1>2. PICK d : d = [e EXCEPT !.infos = s]
    OBVIOUS
  <1>3. Allocate(e, v) = d
    BY <1>1, <1>2, Zenon DEF Allocate
  <1>4. /\ SomeSeq(s) /\ Len(s) = New(e) + 1 /\ s[New(e) + 1] = v
        /\ \A j \in 1 .. New(e) : s[j] = e.infos[j]
    BY <1>1, SomeSeqAppend DEF New, Shaped
  <1>5. d.infos = s /\ DOMAIN d = EnvFields
    BY <1>2 DEF Shaped, EnvFields
  <1>6. New(d) = New(e) + 1 /\ New(e) \in Nat
    BY <1>4, <1>5, ShapedLen DEF New
  <1>7. \A j \in 1 .. New(d) : j \in 1 .. New(e) \/ j = New(e) + 1
    BY <1>6
  <1>8. Shaped(d)
    BY <1>4, <1>5, <1>6, <1>7 DEF Shaped
  <1> QED  BY <1>3, <1>4, <1>5, <1>6, <1>8 DEF Grew, Like, AsGrouping, AsHidden

LEMMA NumberAlike ==
    ASSUME NEW e, Shaped(e), NEW i
    PROVE  Alike(e, Number(e, i))
  <1>1. PICK c : c = e.counter
    OBVIOUS
  <1>2. PICK e1 : e1 = WithField(e, i, "id", c)
    OBVIOUS
  <1>3. PICK k : k = c + 1
    OBVIOUS
  <1>4. Number(e, i) = WithList(e1, "counter", k)
    BY <1>1, <1>2, <1>3, Zenon DEF Number, WithField, WithList
  <1>5. Alike(e, e1)
    BY <1>2, FreeAlike DEF Free
  <1>6. Alike(e1, WithList(e1, "counter", k))
    BY <1>5, ListAlike DEF Alike, EnvFields
  <1> QED  BY <1>4, <1>5, <1>6, AlikeAgain

LEMMA AdoptAlike ==
    ASSUME NEW e, Shaped(e), NEW p, NEW c
    PROVE  Alike(e, Adopt(e, p, c))
  <1>1. PICK l : l = Append(e.infos[p].children, c)
    OBVIOUS
  <1>2. Adopt(e, p, c) = WithField(e, p, "children", l)
    BY <1>1, Zenon DEF Adopt, WithField
  <1> QED  BY <1>2, FreeAlike DEF Free

LEMMA EnlistAlike ==
    ASSUME NEW e, Shaped(e), NEW c
    PROVE  Alike(e, Enlist(e, c))
  <1>1. PICK l : l = Append(e.sets, c)
    OBVIOUS
  <1>2. Enlist(e, c) = WithList(e, "sets", l)
    BY <1>1, Zenon DEF Enlist, WithList
  <1> QED  BY <1>2, ListAlike DEF EnvFields

LEMMA CreateGrew ==
    ASSUME NEW e, Shaped(e), NEW v, DOMAIN v = Fields
    PROVE  Grew(e, Create(e, v), v)
  <1>1. PICK e1 : e1 = Allocate(e, v)
    OBVIOUS
  <1>2. PICK n : n = New(e1)
    OBVIOUS
  <1>3. Create(e, v) = Number(e1, n)
    BY <1>1, <1>2, Zenon DEF Create
  <1>4. Grew(e, e1, v)
    BY <1>1, AllocateGrew
  <1>5. Alike(e1, Number(e1, n))
    BY <1>4, NumberAlike DEF Grew
  <1> QED  BY <1>3, <1>4, <1>5, GrewAlike

LEMMA BelowGrew ==
    ASSUME NEW e, Shaped(e), NEW p, NEW v, DOMAIN v = Fields
    PROVE  Grew(e, Below(e, p, v), v)
  <1>1. PICK e1 : e1 = Create(e, v)
    OBVIOUS
  <1>2. PICK n : n = New(e1)
    OBVIOUS
  <1>3. PICK e2 : e2 = Adopt(e1, p, n)
    OBVIOUS
  <1>4. Below(e, p, v) = Enlist(e2, n)
    BY <1>1, <1>2, <1>3, Zenon DEF Below
  <1>5. Grew(e, e1, v)
    BY <1>1, CreateGrew
  <1>6. Alike(e1, e2)
    BY <1>3, <1>5, AdoptAlike DEF Grew
  <1>7. Alike(e2, Enlist(e2, n))
    BY <1>6, EnlistAlike DEF Alike
  <1>8. Alike(e1, Enlist(e2, n))
    BY <1>6, <1>7, AlikeAgain
  <1> QED  BY <1>4, <1>5, <1>8, GrewAlike

\* What no call may change of a hidden step may still be set for what is new since e.
LEMMA StepQuiet ==
    ASSUME NEW e, Shaped(e), NEW d, Quiet(e, d), NEW i, i \in 1 .. New(e) => e.infos[i].cls # "hidden",
           NEW f \in {"operator", "types", "cls"}, NEW v,
           f = "cls" => v # "grouping" /\ ~Grouping(d, i)
    PROVE  Quiet(e, WithField(d, i, f, v))
  <1>1. PICK g : g = WithField(d, i, f, v)
    OBVIOUS
  <1>2. IsSet(d, g, i, f, v) /\ Shaped(d)
    BY <1>1, FieldSet DEF Quiet, Fields
  <1>3. ASSUME NEW j \in 1 .. New(d)
        PROVE  /\ AsGrouping(d.infos[j], g.infos[j])
               /\ g.infos[j].parent = d.infos[j].parent
               /\ Grouping(g, j) <=> Grouping(d, j)
               /\ j # i => AsHidden(d.infos[j], g.infos[j])
    <2>1. CASE j # i
      BY <1>2, <2>1 DEF IsSet, AsGrouping, AsHidden, Grouping
    <2>2. CASE j = i
      <3>1. PICK w : w = g.infos[j]
        OBVIOUS
      <3>2. PICK z : z = d.infos[j]
        OBVIOUS
      <3>3. w = InfoField(z, f, v) /\ DOMAIN z = Fields
        BY <1>2, <2>2, <3>1, <3>2 DEF IsSet, Shaped
      <3>4. \A h \in Fields : h # f => w[h] = z[h]
        BY <3>3 DEF InfoField
      <3>5. f \notin {"identifier", "parent", "keys", "group", "sorts", "field", "asked", "finals"}
        OBVIOUS
      <3>6. AsGrouping(z, w) /\ w.parent = z.parent
        BY <3>4, <3>5 DEF Fields, AsGrouping
      <3>7. f # "cls" => w.cls = z.cls
        BY <3>4 DEF Fields
      <3>8. f = "cls" => w.cls = v
        BY <3>3 DEF InfoField, Fields
      <3>9. New(g) = New(d)
        BY <1>2 DEF IsSet
      <3>10. Grouping(g, j) <=> Grouping(d, j)
        BY <2>2, <3>1, <3>2, <3>7, <3>8, <3>9 DEF Grouping
      <3> QED  BY <2>2, <3>1, <3>2, <3>6, <3>10
    <2> QED  BY <2>1, <2>2
  <1>4. New(g) = New(d) /\ Shaped(g) /\ New(e) \in Nat /\ New(d) \in Nat /\ New(e) <= New(d)
    BY <1>2, ShapedLen DEF IsSet, Quiet
  <1>5. ASSUME NEW j \in 1 .. New(e)
        PROVE  /\ Grouping(e, j) => Grouping(g, j) /\ AsGrouping(e.infos[j], g.infos[j])
               /\ e.infos[j].cls = "hidden" => AsHidden(e.infos[j], g.infos[j])
    <2>1. j \in 1 .. New(d)
      BY <1>4
    <2>2. /\ Grouping(e, j) => Grouping(d, j) /\ AsGrouping(e.infos[j], d.infos[j])
          /\ e.infos[j].cls = "hidden" => AsHidden(e.infos[j], d.infos[j])
      BY DEF Quiet
    <2> QED  BY <1>3, <2>1, <2>2 DEF AsGrouping, AsHidden
  <1>6. \A p : Usable(d, p) => Usable(g, p)
    BY <1>3, <1>4 DEF Usable, Sorting, Grouping, AsGrouping
  <1>7. ASSUME NEW j \in 1 .. New(g), ~Grouping(g, j)
        PROVE  \/ j \in 1 .. New(e) /\ g.infos[j].parent = e.infos[j].parent
               \/ Usable(g, g.infos[j].parent)
    <2>1. /\ ~Grouping(d, j) /\ g.infos[j].parent = d.infos[j].parent
      BY <1>3, <1>4, <1>7
    <2>2. \/ j \in 1 .. New(e) /\ d.infos[j].parent = e.infos[j].parent
          \/ Usable(d, d.infos[j].parent)
      BY <1>4, <2>1 DEF Quiet
    <2> QED  BY <1>6, <2>1, <2>2
  <1>8. \A j \in 1 .. New(g) : Grouping(g, j) => Grouping(e, j)
    BY <1>3, <1>4 DEF Quiet
  <1> QED  BY <1>1, <1>4, <1>5, <1>7, <1>8 DEF Quiet

LEMMA ParentQuiet ==
    ASSUME NEW e, Shaped(e), NEW i, ~Grouping(e, i), NEW q, Usable(e, q)
    PROVE  Quiet(e, WithField(e, i, "parent", q))
  <1>1. PICK g : g = WithField(e, i, "parent", q)
    OBVIOUS
  <1>2. IsSet(e, g, i, "parent", q)
    BY <1>1, FieldSet DEF Fields
  <1>3. ASSUME NEW j \in 1 .. New(e)
        PROVE  /\ j # i => g.infos[j] = e.infos[j]
               /\ AsHidden(e.infos[j], g.infos[j])
               /\ Grouping(g, j) <=> Grouping(e, j)
               /\ j = i => g.infos[j].parent = q
    <2>1. CASE j # i
      BY <1>2, <2>1 DEF IsSet, AsHidden, Grouping
    <2>2. CASE j = i
      <3>1. PICK z : z = e.infos[j]
        OBVIOUS
      <3>2. g.infos[j] = InfoField(z, "parent", q) /\ DOMAIN z = Fields /\ New(g) = New(e)
        BY <1>2, <2>2, <3>1 DEF IsSet, Shaped
      <3> QED  BY <2>2, <3>1, <3>2 DEF InfoField, Fields, AsHidden, Grouping
    <2> QED  BY <2>1, <2>2
  <1>4. New(g) = New(e) /\ Shaped(g) /\ New(e) \in Nat
    BY <1>2, ShapedLen DEF IsSet
  <1>5. \A j \in 1 .. New(e) : Grouping(e, j) => j # i
    OBVIOUS
  <1>6. \A p : Sorting(g, p) => Sorting(e, p) /\ g.infos[p] = e.infos[p]
    BY <1>3, <1>4, <1>5 DEF Sorting, Grouping
  <1>7. Usable(g, q)
    BY <1>4, <1>6 DEF Usable
  <1>8. \A j \in 1 .. New(g) : ~Grouping(g, j) =>
          \/ j \in 1 .. New(e) /\ g.infos[j].parent = e.infos[j].parent
          \/ Usable(g, g.infos[j].parent)
    BY <1>3, <1>4, <1>7
  <1>9. \A j \in 1 .. New(e) : Grouping(e, j) => Grouping(g, j) /\ AsGrouping(e.infos[j], g.infos[j])
    BY <1>3, <1>5 DEF AsGrouping
  <1> QED  BY <1>1, <1>3, <1>4, <1>8, <1>9 DEF Quiet

LEMMA InfoFields ==
    ASSUME NEW ident, NEW cls, NEW p, NEW op, NEW types
    PROVE  LET v == Info(ident, cls, p, op, types) IN
           /\ DOMAIN v = Fields /\ v.cls = cls /\ v.parent = p /\ v.identifier = ident
           /\ v.sorts = <<>> /\ v.finals = 0 /\ v.group = 0 /\ v.operator = op /\ v.types = types
  BY DEF Info, Fields

\* A field of a new info that says nothing of its class and its parent.
LEMMA InfoFieldFields ==
    ASSUME NEW v, DOMAIN v = Fields, NEW f \in Fields, NEW u
    PROVE  LET w == InfoField(v, f, u) IN
           /\ DOMAIN w = Fields /\ w[f] = u
           /\ f # "cls" => w.cls = v.cls
           /\ f # "parent" => w.parent = v.parent
           /\ f # "identifier" => w.identifier = v.identifier
           /\ f # "sorts" => w.sorts = v.sorts
           /\ f # "finals" => w.finals = v.finals
           /\ f # "group" => w.group = v.group
           /\ f # "keys" => w.keys = v.keys
           /\ f # "field" => w.field = v.field
           /\ f # "asked" => w.asked = v.asked
  BY DEF InfoField, Fields

\* An object the script holds that is no grouping.
Held(e, s) == s \in 1 .. New(e) /\ ~Grouping(e, s)

LEMMA HeldUsable ==
    ASSUME NEW e, Shaped(e), NEW s, Held(e, s)
    PROVE  Usable(e, s)
  <1>1. New(e) \in Nat
    BY ShapedLen
  <1> QED  BY <1>1 DEF Held, Usable, Sorting

LEMMA QuietHeld ==
    ASSUME NEW e, Shaped(e), NEW d, Quiet(e, d)
    PROVE  /\ \A s : Held(e, s) => Held(d, s)
           /\ \A s \in 1 .. New(d) : s \notin 1 .. New(e) => Held(d, s)
  <1>1. New(e) \in Nat /\ New(d) \in Nat /\ New(e) <= New(d)
    BY ShapedLen DEF Quiet
  <1>2. \A s \in 1 .. New(e) : s \in 1 .. New(d)
    BY <1>1
  <1>3. \A s \in 1 .. New(d) : Grouping(d, s) => Grouping(e, s)
    BY DEF Quiet
  <1> QED  BY <1>2, <1>3 DEF Held, Grouping

LEMMA NewQuiet ==
    ASSUME NEW e, Shaped(e), NEW p, Usable(e, p), NEW ident, NEW cls, cls # "grouping",
           NEW op, NEW types
    PROVE  LET d == Below(e, p, Info(ident, cls, p, op, types)) IN
           Quiet(e, d) /\ New(d) = New(e) + 1 /\ Held(d, New(d))
  <1>1. PICK v : v = Info(ident, cls, p, op, types)
    OBVIOUS
  <1>2. PICK d : d = Below(e, p, v)
    OBVIOUS
  <1>3. DOMAIN v = Fields /\ v.cls = cls /\ v.parent = p
    BY <1>1, InfoFields
  <1>4. Grew(e, d, v)
    BY <1>2, <1>3, BelowGrew
  <1>5. Quiet(e, d)
    BY <1>3, <1>4, GrewQuiet
  <1>6. New(d) = New(e) + 1 /\ New(e) \in Nat
    BY <1>4, ShapedLen DEF Grew
  <1>7. New(d) \in 1 .. New(d) /\ New(d) \notin 1 .. New(e)
    BY <1>6
  <1> QED  BY <1>1, <1>2, <1>5, <1>6, <1>7, QuietHeld

LEMMA MapQuiet ==
    ASSUME NEW e, Shaped(e), NEW s, Held(e, s), NEW op, NEW cls, cls # "grouping"
    PROVE  LET d == Map(e, s, op, cls) IN
           Quiet(e, d) /\ New(d) = New(e) + 1 /\ Held(d, New(d))
  BY HeldUsable, NewQuiet DEF Map

LEMMA OneInputQuiet ==
    ASSUME NEW e, Shaped(e), NEW s, Held(e, s), NEW op
    PROVE  /\ Quiet(e, Filter(e, s)) /\ Quiet(e, FlatMap(e, s))
           /\ Quiet(e, Reduce(e, s)) /\ Quiet(e, ReduceGroup(e, s)) /\ Quiet(e, Aggregate(e, s))
           /\ Quiet(e, Project(e, s)) /\ Quiet(e, First(e, s)) /\ Quiet(e, Rebalance(e, s))
           /\ LET d == MapPartition(e, s, op) IN
              Quiet(e, d) /\ New(d) = New(e) + 1 /\ Held(d, New(d))
  <1>1. Usable(e, s)
    BY HeldUsable
  <1>2. Quiet(e, Filter(e, s)) /\ Quiet(e, FlatMap(e, s)) /\ Quiet(e, Reduce(e, s))
    BY <1>1, NewQuiet DEF Filter, FlatMap, Reduce
  <1>3. Quiet(e, ReduceGroup(e, s)) /\ Quiet(e, Aggregate(e, s)) /\ Quiet(e, Project(e, s))
    BY <1>1, NewQuiet, MapQuiet DEF ReduceGroup, Aggregate, Project
  <1>4. Quiet(e, First(e, s)) /\ Quiet(e, Rebalance(e, s))
    BY <1>1, NewQuiet DEF First, Rebalance
  <1>5. LET d == MapPartition(e, s, op) IN
        Quiet(e, d) /\ New(d) = New(e) + 1 /\ Held(d, New(d))
    BY <1>1, NewQuiet DEF MapPartition
  <1> QED  BY <1>2, <1>3, <1>4, <1>5

LEMMA KeyMapQuiet ==
    ASSUME NEW e, Shaped(e), NEW s, Held(e, s), NEW fields
    PROVE  LET d == KeyMap(e, s, fields) IN
           Quiet(e, d) /\ New(d) = New(e) + 1 /\ Held(d, New(d))
  <1>1. PICK m : m = Map(e, s, Extract(fields), "hidden")
    OBVIOUS
  <1>2. PICK n : n = New(m)
    OBVIOUS
  <1>2a. PICK k : k = KeyValueType(Len(fields))
    OBVIOUS
  <1>3. PICK d : d = WithField(m, n, "types", k)
    OBVIOUS
  <1>4. KeyMap(e, s, fields) = d
    BY <1>1, <1>2, <1>2a, <1>3, Zenon DEF KeyMap, WithField
  <1>5. Quiet(e, m) /\ n = New(e) + 1
    BY <1>1, <1>2, MapQuiet
  <1>6. New(e) \in Nat /\ n \notin 1 .. New(e)
    BY <1>5, ShapedLen
  <1>7. Quiet(e, d)
    BY <1>3, <1>5, <1>6, StepQuiet
  <1>8. New(d) = n
    <2>1. Shaped(m) /\ "types" \in Fields
      BY <1>5 DEF Quiet, Fields
    <2>2. IsSet(m, d, n, "types", k)
      BY <1>3, <2>1, FieldSet
    <2> QED  BY <1>2, <2>2 DEF IsSet
  <1>9. n \in 1 .. n
    BY <1>5, <1>6
  <1> QED  BY <1>4, <1>5, <1>6, <1>7, <1>8, <1>9, QuietHeld

LEMMA KeyedQuiet ==
    ASSUME NEW e, Shaped(e), NEW s, Held(e, s), NEW fields, NEW ident
    PROVE  Quiet(e, Keyed(e, s, fields, ident))
  <1>1. PICK m : m = KeyMap(e, s, fields)
    OBVIOUS
  <1>2. PICK n : n = New(m)
    OBVIOUS
  <1>3. PICK v : v = Info(ident, "set", n, NoFun, NoType)
    OBVIOUS
  <1>4. PICK w : w = InfoField(v, "keys", Upto(Len(fields)))
    OBVIOUS
  <1>5. Keyed(e, s, fields, ident) = Below(m, n, w)
    BY <1>1, <1>2, <1>3, <1>4, Zenon DEF Keyed, InfoField
  <1>6. Quiet(e, m) /\ Held(m, n) /\ Shaped(m)
    BY <1>1, <1>2, KeyMapQuiet DEF Quiet
  <1>7. DOMAIN v = Fields /\ v.cls = "set" /\ v.parent = n
    BY <1>3, InfoFields
  <1>8. DOMAIN w = Fields /\ w.cls # "grouping" /\ w.parent = n
    BY <1>4, <1>7, InfoFieldFields DEF Fields
  <1>9. Grew(m, Below(m, n, w), w)
    BY <1>6, <1>8, BelowGrew
  <1>10. Usable(m, w.parent)
    BY <1>6, <1>8, HeldUsable
  <1>11. Quiet(m, Below(m, n, w))
    BY <1>6, <1>8, <1>9, <1>10, GrewQuiet
  <1> QED  BY <1>5, <1>6, <1>11, QuietAgain

LEMMA SinkQuiet ==
    ASSUME NEW e, Shaped(e), NEW p, Held(e, p), NEW ident
    PROVE  Quiet(e, Sink(e, p, ident))
  <1>1. PICK v : v = Info(ident, "hidden", p, NoFun, NoType)
    OBVIOUS
  <1>2. PICK e1 : e1 = Create(e, v)
    OBVIOUS
  <1>3. PICK n : n = New(e1)
    OBVIOUS
  <1>4. PICK l : l = Append(e1.infos[p].sinks, n)
    OBVIOUS
  <1>5. PICK k : k = Append(e1.sinks, n)
    OBVIOUS
  <1>6. PICK e2 : e2 = WithField(e1, p, "sinks", l)
    OBVIOUS
  <1>7. Sink(e, p, ident) = WithList(e2, "sinks", k)
    BY <1>1, <1>2, <1>3, <1>4, <1>5, <1>6, Zenon DEF Sink, WithField, WithList
  <1>8. DOMAIN v = Fields /\ v.cls # "grouping" /\ v.parent = p
    BY <1>1, InfoFields
  <1>9. Grew(e, e1, v) /\ Usable(e, v.parent)
    BY <1>2, <1>8, CreateGrew, HeldUsable
  <1>10. Quiet(e, e1)
    BY <1>8, <1>9, GrewQuiet
  <1>11. Alike(e1, e2)
    BY <1>6, <1>10, FreeAlike DEF Free, Quiet
  <1>12. Alike(e2, WithList(e2, "sinks", k))
    BY <1>11, ListAlike DEF Alike, EnvFields
  <1>13. Quiet(e1, WithList(e2, "sinks", k))
    BY <1>10, <1>11, <1>12, AlikeAgain, AlikeQuiet DEF Quiet
  <1> QED  BY <1>7, <1>10, <1>13, QuietAgain

LEMMA FinishQuiet ==
    ASSUME NEW e, Shaped(e), NEW s, Held(e, s)
    PROVE  Quiet(e, Output(e, s)) /\ Quiet(e, WriteText(e, s)) /\ Quiet(e, WriteCsv(e, s))
  <1>1. ASSUME NEW op, NEW ident
        PROVE  LET m == Map(e, s, op, "hidden") IN Quiet(e, Sink(m, New(m), ident))
    <2>1. PICK m : m = Map(e, s, op, "hidden")
      OBVIOUS
    <2>2. Quiet(e, m) /\ Held(m, New(m)) /\ Shaped(m)
      BY <2>1, MapQuiet DEF Quiet
    <2>3. Quiet(m, Sink(m, New(m), ident))
      BY <2>2, SinkQuiet
    <2> QED  BY <2>1, <2>2, <2>3, QuietAgain
  <1> QED  BY <1>1 DEF Output, WriteText, WriteCsv

LEMMA WithBroadcastQuiet ==
    ASSUME NEW e, Shaped(e), NEW s, Held(e, s), NEW name, NEW o
    PROVE  Quiet(e, WithBroadcast(e, s, name, o))
  <1>1. PICK v : v = Info("broadcast", "hidden", s, NoFun, NoType)
    OBVIOUS
  <1>2. PICK u : u = InfoField(v, "other", o)
    OBVIOUS
  <1>3. PICK w : w = InfoField(u, "name", name)
    OBVIOUS
  <1>4. PICK e1 : e1 = Allocate(e, w)
    OBVIOUS
  <1>5. PICK n : n = New(e1)
    OBVIOUS
  <1>6. PICK l : l = Append(e1.infos[s].bcvars, n)
    OBVIOUS
  <1>7. PICK k : k = Append(e1.broadcast, n)
    OBVIOUS
  <1>8. PICK e2 : e2 = WithField(e1, s, "bcvars", l)
    OBVIOUS
  <1>9. WithBroadcast(e, s, name, o) = WithList(e2, "broadcast", k)
    BY <1>1, <1>2, <1>3, <1>4, <1>5, <1>6, <1>7, <1>8, Zenon
       DEF WithBroadcast, WithField, WithList, InfoField
  <1>10. DOMAIN v = Fields /\ v.cls = "hidden" /\ v.parent = s
    BY <1>1, InfoFields
  <1>11. DOMAIN u = Fields /\ u.cls = "hidden" /\ u.parent = s
    BY <1>2, <1>10, InfoFieldFields DEF Fields
  <1>12. DOMAIN w = Fields /\ w.cls # "grouping" /\ w.parent = s
    BY <1>3, <1>11, InfoFieldFields DEF Fields
  <1>13. Grew(e, e1, w) /\ Usable(e, w.parent)
    BY <1>4, <1>12, AllocateGrew, HeldUsable
  <1>14. Quiet(e, e1)
    BY <1>12, <1>13, GrewQuiet
  <1>15. Alike(e1, e2)
    BY <1>8, <1>14, FreeAlike DEF Free, Quiet
  <1>16. Alike(e2, WithList(e2, "broadcast", k))
    BY <1>15, ListAlike DEF Alike, EnvFields
  <1>17. Quiet(e1, WithList(e2, "broadcast", k))
    BY <1>14, <1>15, <1>16, AlikeAgain, AlikeQuiet DEF Quiet
  <1> QED  BY <1>9, <1>14, <1>17, QuietAgain

LEMMA ZipWithIndexQuiet ==
    ASSUME NEW e, Shaped(e), NEW s, Held(e, s)
    PROVE  Quiet(e, ZipWithIndex(e, s))
  <1>1. PICK c : c = CountElements(e, s)
    OBVIOUS
  <1>2. PICK z : z = MapPartition(c, s, <<"zip">>)
    OBVIOUS
  <1>3. PICK n : n = New(c)
    OBVIOUS
  <1>4. PICK m : m = New(z)
    OBVIOUS
  <1>5. ZipWithIndex(e, s) = WithBroadcast(z, m, "counts", n)
    BY <1>1, <1>2, <1>3, <1>4, Zenon DEF ZipWithIndex
  <1>6. Quiet(e, c) /\ Shaped(c)
    BY <1>1, OneInputQuiet DEF CountElements, Quiet
  <1>7. Held(c, s)
    BY <1>6, QuietHeld
  <1>8. Quiet(c, z) /\ Held(z, m) /\ Shaped(z)
    BY <1>2, <1>4, <1>6, <1>7, OneInputQuiet DEF Quiet
  <1>9. Quiet(z, WithBroadcast(z, m, "counts", n))
    BY <1>8, WithBroadcastQuiet
  <1> QED  BY <1>5, <1>6, <1>8, <1>9, QuietAgain

LEMMA SourceQuiet ==
    ASSUME NEW e, Shaped(e), NEW ident
    PROVE  Quiet(e, Source(e, ident))
  <1>1. PICK v : v = Info(ident, "set", 0, NoFun, NoType)
    OBVIOUS
  <1>2. PICK e1 : e1 = Create(e, v)
    OBVIOUS
  <1>3. PICK l : l = Append(e1.sources, New(e1))
    OBVIOUS
  <1>4. Source(e, ident) = WithList(e1, "sources", l)
    BY <1>1, <1>2, <1>3, Zenon DEF Source, WithList
  <1>5. DOMAIN v = Fields /\ v.cls # "grouping" /\ v.parent = 0
    BY <1>1, InfoFields
  <1>6. Usable(e, v.parent)
    BY <1>5, ShapedLen DEF Usable, Sorting, Grouping
  <1>7. Grew(e, e1, v)
    BY <1>2, <1>5, CreateGrew
  <1>8. Quiet(e, e1) /\ Shaped(e1)
    BY <1>5, <1>6, <1>7, GrewQuiet DEF Quiet
  <1>9. Quiet(e1, WithList(e1, "sources", l))
    BY <1>8, ListAlike, AlikeQuiet DEF EnvFields
  <1> QED  BY <1>4, <1>8, <1>9, QuietAgain

LEMMA TwoInputsQuiet ==
    ASSUME NEW e, Shaped(e), NEW a, NEW b, Held(e, a), NEW v,
           DOMAIN v = Fields, v.cls # "grouping", v.parent = a
    PROVE  Quiet(e, TwoInputs(e, a, b, v))
  <1>1. PICK w : w = InfoField(v, "other", b)
    OBVIOUS
  <1>2. PICK e1 : e1 = Create(e, w)
    OBVIOUS
  <1>3. PICK c : c = New(e1)
    OBVIOUS
  <1>4. PICK e2 : e2 = Adopt(e1, a, c)
    OBVIOUS
  <1>5. PICK e3 : e3 = Adopt(e2, b, c)
    OBVIOUS
  <1>6. TwoInputs(e, a, b, v) = Enlist(e3, c)
    BY <1>1, <1>2, <1>3, <1>4, <1>5, Zenon DEF TwoInputs, InfoField
  <1>7. DOMAIN w = Fields /\ w.cls # "grouping" /\ w.parent = a
    BY <1>1, InfoFieldFields DEF Fields
  <1>8. Grew(e, e1, w) /\ Usable(e, w.parent)
    BY <1>2, <1>7, CreateGrew, HeldUsable
  <1>9. Quiet(e, e1) /\ Shaped(e1)
    BY <1>7, <1>8, GrewQuiet DEF Quiet
  <1>10. Alike(e1, e2) /\ Shaped(e2)
    BY <1>4, <1>9, AdoptAlike DEF Alike
  <1>11. Alike(e2, e3) /\ Shaped(e3)
    BY <1>5, <1>10, AdoptAlike DEF Alike
  <1>12. Alike(e3, Enlist(e3, c))
    BY <1>11, EnlistAlike
  <1>13. Alike(e1, Enlist(e3, c))
    BY <1>10, <1>11, <1>12, AlikeAgain
  <1>14. Quiet(e1, Enlist(e3, c))
    BY <1>9, <1>13, AlikeQuiet
  <1> QED  BY <1>6, <1>9, <1>14, QuietAgain

LEMMA CrossUnionQuiet ==
    ASSUME NEW e, Shaped(e), NEW a, NEW b, Held(e, a)
    PROVE  Quiet(e, Cross(e, a, b, "cross")) /\ Quiet(e, Union(e, a, b))
  <1>1. ASSUME NEW ident, NEW cls, cls # "grouping"
        PROVE  Quiet(e, TwoInputs(e, a, b, Info(ident, cls, a, NoFun, NoType)))
    <2>1. PICK v : v = Info(ident, cls, a, NoFun, NoType)
      OBVIOUS
    <2>2. DOMAIN v = Fields /\ v.cls # "grouping" /\ v.parent = a
      BY <1>1, <2>1, InfoFields
    <2> QED  BY <2>1, <2>2, TwoInputsQuiet
  <1> QED  BY <1>1 DEF Cross, Union

LEMMA AttachQuiet ==
    ASSUME NEW e, Shaped(e), NEW c, Held(e, c), NEW a, Held(e, a), NEW k,
           NEW side \in {"parent", "other"}
    PROVE  Quiet(e, Attach(e, c, side, a, k))
  <1>1. PICK m : m = KeyMap(e, a, k)
    OBVIOUS
  <1>2. PICK n : n = New(m)
    OBVIOUS
  <1>3. PICK f : f = WithField(m, c, side, n)
    OBVIOUS
  <1>4. Attach(e, c, side, a, k) = Adopt(f, n, c)
    BY <1>1, <1>2, <1>3, Zenon DEF Attach, WithInput, WithField
  <1>5. Quiet(e, m) /\ Held(m, n) /\ Shaped(m)
    BY <1>1, <1>2, KeyMapQuiet DEF Quiet
  <1>6. Held(m, c) /\ Usable(m, n)
    BY <1>5, QuietHeld, HeldUsable
  <1>7. Quiet(m, f)
    <2>1. CASE side = "parent"
      BY <1>3, <1>5, <1>6, <2>1, ParentQuiet DEF Held
    <2>2. CASE side = "other"
      BY <1>3, <1>5, <2>2, FreeAlike, AlikeQuiet DEF Free
    <2> QED  BY <2>1, <2>2
  <1>8. Quiet(f, Adopt(f, n, c))
    BY <1>7, AdoptAlike, AlikeQuiet DEF Quiet
  <1>9. Quiet(m, Adopt(f, n, c))
    BY <1>5, <1>7, <1>8, QuietAgain
  <1> QED  BY <1>4, <1>5, <1>9, QuietAgain

LEMMA BothQuiet ==
    ASSUME NEW e, Shaped(e), NEW c, Held(e, c), NEW a, NEW b, Held(e, a), Held(e, b), NEW k1, NEW k2
    PROVE  Quiet(e, EqualTo(Where(e, c, a, k1), c, b, k2))
  <1>1. PICK f : f = Attach(e, c, "parent", a, k1)
    OBVIOUS
  <1>2. PICK d : d = Attach(f, c, "other", b, k2)
    OBVIOUS
  <1>3. f = Where(e, c, a, k1)
    BY <1>1, Zenon DEF Where, Attach, WithInput
  <1>4. d = EqualTo(f, c, b, k2)
    BY <1>2, Zenon DEF EqualTo, Attach, WithInput
  <1>5. Quiet(e, f) /\ Shaped(f)
    BY <1>1, AttachQuiet DEF Quiet
  <1>6. Held(f, b) /\ Held(f, c)
    BY <1>5, QuietHeld
  <1>7. Quiet(f, d)
    BY <1>2, <1>5, <1>6, AttachQuiet
  <1> QED  BY <1>3, <1>4, <1>5, <1>7, QuietAgain

LEMMA PairQuiet ==
    ASSUME NEW e, Shaped(e), NEW ident, NEW cls, cls # "grouping", NEW types, NEW k1, NEW k2, NEW c,
           c = New(e) + 1
    PROVE  LET d == Allocate(e, PairInfo(ident, cls, types, k1, k2)) IN
           Quiet(e, d) /\ Held(d, c) /\ c \notin 1 .. New(e)
  <1>1. PICK v : v = Info(ident, cls, 0, NoFun, types)
    OBVIOUS
  <1>2. PICK u : u = InfoField(v, "key1", k1)
    OBVIOUS
  <1>3. PICK w : w = InfoField(u, "key2", k2)
    OBVIOUS
  <1>4. PICK d : d = Allocate(e, w)
    OBVIOUS
  <1>5. d = Allocate(e, PairInfo(ident, cls, types, k1, k2))
    BY <1>1, <1>2, <1>3, <1>4, Zenon DEF InfoField, PairInfo
  <1>6. DOMAIN v = Fields /\ v.cls = cls /\ v.parent = 0
    BY <1>1, InfoFields
  <1>7. DOMAIN u = Fields /\ u.cls = cls /\ u.parent = 0
    BY <1>2, <1>6, InfoFieldFields DEF Fields
  <1>8. DOMAIN w = Fields /\ w.cls # "grouping" /\ w.parent = 0
    BY <1>3, <1>7, InfoFieldFields DEF Fields
  <1>9. Usable(e, w.parent)
    BY <1>8, ShapedLen DEF Usable, Sorting, Grouping
  <1>10. Grew(e, d, w)
    BY <1>4, <1>8, AllocateGrew
  <1>11. Quiet(e, d)
    BY <1>8, <1>9, <1>10, GrewQuiet
  <1>12. c \in 1 .. New(d) /\ c \notin 1 .. New(e)
    BY <1>10, ShapedLen DEF Grew
  <1> QED  BY <1>5, <1>11, <1>12, QuietHeld

LEMMA JoinQuiet ==
    ASSUME NEW e, Shaped(e), NEW a, NEW b, Held(e, a), Held(e, b), NEW k1, NEW k2
    PROVE  Quiet(e, Join(e, a, b, "join", k1, k2))
  <1>1. PICK c : c = New(e) + 1
    OBVIOUS
  <1>u. PICK u : u = Upto(Len(k1))
    OBVIOUS
  <1>v. PICK v : v = Upto(Len(k2))
    OBVIOUS
  <1>2. PICK f : f = Allocate(e, PairInfo("join", "pair", NoType, u, v))
    OBVIOUS
  <1>3. PICK g : g = EqualTo(Where(f, c, a, k1), c, b, k2)
    OBVIOUS
  <1>4. PICK h : h = Enlist(g, c)
    OBVIOUS
  <1>5. Join(e, a, b, "join", k1, k2) = Number(h, c)
    BY <1>u, <1>v, <1>1, <1>2, <1>3, <1>4, Zenon DEF Join, PairInfo
  <1>6. Quiet(e, f) /\ Held(f, c) /\ Shaped(f)
    <2>1. Quiet(e, f) /\ Held(f, c)
      BY <1>1, <1>2, PairQuiet
    <2> QED  BY <2>1 DEF Quiet
  <1>7. Held(f, a) /\ Held(f, b)
    BY <1>6, QuietHeld
  <1>8. Quiet(f, g) /\ Shaped(g)
    BY <1>3, <1>6, <1>7, BothQuiet DEF Quiet
  <1>9. Alike(g, h) /\ Shaped(h)
    BY <1>4, <1>8, EnlistAlike DEF Alike
  <1>10. Alike(h, Number(h, c))
    BY <1>9, NumberAlike
  <1>11. Quiet(g, Number(h, c))
    BY <1>8, <1>9, <1>10, AlikeAgain, AlikeQuiet
  <1>12. Quiet(e, g)
    BY <1>6, <1>8, QuietAgain
  <1> QED  BY <1>5, <1>11, <1>12, QuietAgain

LEMMA CoGroupQuiet ==
    ASSUME NEW e, Shaped(e), NEW a, NEW b, Held(e, a), Held(e, b), NEW k1, NEW k2
    PROVE  Quiet(e, CoGroup(e, a, b, k1, k2))
  <1>1. PICK c : c = New(e) + 1
    OBVIOUS
  <1>u. PICK u : u = Upto(Len(k1))
    OBVIOUS
  <1>v. PICK v : v = Upto(Len(k2))
    OBVIOUS
  <1>2. PICK f : f = Allocate(e, PairInfo("cogroup", "op", ArrayType, u, v))
    OBVIOUS
  <1>2a. PICK f2 : f2 = Adopt(f, b, c)
    OBVIOUS
  <1>3. PICK g : g = EqualTo(Where(f2, c, a, k1), c, b, k2)
    OBVIOUS
  <1>4. PICK h : h = Number(g, c)
    OBVIOUS
  <1>5. PICK i : i = WithField(h, c, "operator", <<"udf", c>>)
    OBVIOUS
  <1>6. CoGroup(e, a, b, k1, k2) = Enlist(i, c)
    BY <1>u, <1>v, <1>1, <1>2, <1>2a, <1>3, <1>4, <1>5, Zenon DEF CoGroup, WithField, PairInfo
  <1>7. Quiet(e, f) /\ Held(f, c) /\ Shaped(f) /\ c \notin 1 .. New(e)
    <2>1. Quiet(e, f) /\ Held(f, c) /\ c \notin 1 .. New(e)
      BY <1>1, <1>2, PairQuiet
    <2> QED  BY <2>1 DEF Quiet
  <1>8. Quiet(f, f2) /\ Shaped(f2)
    BY <1>2a, <1>7, AdoptAlike, AlikeQuiet DEF Quiet
  <1>9. Quiet(e, f2)
    BY <1>7, <1>8, QuietAgain
  <1>10. Held(f2, a) /\ Held(f2, b) /\ Held(f2, c)
    BY <1>7, <1>8, <1>9, QuietHeld
  <1>11. Quiet(f2, g) /\ Shaped(g)
    BY <1>3, <1>8, <1>10, BothQuiet DEF Quiet
  <1>12. Quiet(g, h)
    BY <1>4, <1>11, NumberAlike, AlikeQuiet
  <1>13. Quiet(e, h)
    BY <1>8, <1>9, <1>11, <1>12, QuietAgain
  <1>14. Quiet(e, i) /\ Shaped(i)
    BY <1>5, <1>7, <1>13, StepQuiet DEF Quiet
  <1>15. Quiet(i, Enlist(i, c))
    BY <1>14, EnlistAlike, AlikeQuiet
  <1> QED  BY <1>6, <1>14, <1>15, QuietAgain

LEMMA UsingQuiet ==
    ASSUME NEW e, Shaped(e), NEW c, Held(e, c), e.infos[c].cls # "hidden"
    PROVE  Quiet(e, Using(e, c))
  <1>1. PICK f : f = WithField(e, c, "operator", <<"udf", c>>)
    OBVIOUS
  <1>2. PICK g : g = WithField(f, c, "types", ArrayType)
    OBVIOUS
  <1>3. PICK h : h = WithField(g, c, "cls", "op")
    OBVIOUS
  <1>4. Using(e, c) = Number(h, c)
    BY <1>1, <1>2, <1>3, Zenon DEF Using, WithField
  <1>5. Quiet(e, e)
    BY AlikeQuiet DEF Alike, Like, AsGrouping, AsHidden
  <1>6. Quiet(e, f)
    BY <1>1, <1>5, StepQuiet
  <1>7. Quiet(e, g)
    BY <1>2, <1>6, StepQuiet
  <1>8. ~Grouping(g, c)
    BY <1>7, QuietHeld DEF Held
  <1>9. Quiet(e, h) /\ Shaped(h)
    BY <1>3, <1>7, <1>8, StepQuiet DEF Quiet
  <1>10. Quiet(h, Number(h, c))
    BY <1>9, NumberAlike, AlikeQuiet
  <1> QED  BY <1>4, <1>9, <1>10, QuietAgain

LEMMA AndAggQuiet ==
    ASSUME NEW e, Shaped(e), NEW s, e.infos[s].cls # "hidden"
    PROVE  Quiet(e, AndAgg(e, s))
  <1>1. PICK v : v = <<"agg", e.infos[s].operator[2] + 1>>
    OBVIOUS
  <1>2. AndAgg(e, s) = WithField(e, s, "operator", v)
    BY <1>1, Zenon DEF AndAgg, WithField
  <1>3. Quiet(e, e)
    BY AlikeQuiet DEF Alike, Like, AsGrouping, AsHidden
  <1> QED  BY <1>2, <1>3, StepQuiet

\* The fields that grouping g has its pre-step extract.
Lifted(e, g) == e.infos[e.infos[g].parent].operator[2]

\* Fields a script groups by.
Asks(ks) == ks = <<Selector>> \/ ks \in Seq(Nat) \ {<<>>}

\* The identity map of a group_by, its own.
PreOK(e, g) ==
    LET p == e.infos[g].parent IN
    /\ p \in 1 .. New(e) /\ e.infos[p].cls = "hidden" /\ e.infos[p].identifier = "map"
    /\ \A h : Root(e, h) /\ e.infos[h].parent = p => h = g

\* The positions of grouping g name the fields the script asked for.
KeysTrue(e, g) ==
    /\ [i \in DOMAIN e.infos[g].keys |-> Lifted(e, g)[e.infos[g].keys[i] + 1]] = e.infos[g].asked
    /\ e.infos[e.infos[g].parent].types = KeyValueType(Len(Lifted(e, g)))

RootOK(e, g) ==
    /\ PreOK(e, g)
    /\ e.infos[g].finals \in Nat
    /\ Asks(e.infos[g].asked)
    /\ e.infos[g].finals = 0 => e.infos[g].keys = e.infos[g].asked
    /\ e.infos[g].finals = 1 => KeysTrue(e, g)
    /\ \A s : Contains(e.infos[g].sorts, s) => Sorting(e, s) /\ e.infos[s].group = g

\* A sort s of grouping r: before and after its field became a position.
FieldTrue(e, s, r) ==
    /\ e.infos[s].finals \in Nat
    /\ \E f \in Nat \cup {Selector} : e.infos[s].asked = <<f>>
    /\ e.infos[r].finals = 0 => e.infos[s].finals = 0
    /\ e.infos[s].finals = 0 => e.infos[s].field = e.infos[s].asked[1]
    /\ e.infos[r].finals = 1 /\ e.infos[s].finals # 0 =>
         Lifted(e, r)[e.infos[s].field + 1] = e.infos[s].asked[1]

SortOK(e, s) ==
    LET r == e.infos[s].group
        q == e.infos[s].parent
    IN  /\ Root(e, r) /\ Contains(e.infos[r].sorts, s)
        /\ FieldTrue(e, s, r)
        /\ Grouping(e, q)
        /\ Sorting(e, q) => /\ e.infos[q].group = r
                            /\ e.infos[s].finals # 0 => e.infos[q].finals # 0

\* Groupings that name what the script named until they are used twice.
Groups(e) == \A i \in 1 .. New(e) :
    /\ Root(e, i) => RootOK(e, i)
    /\ Sorting(e, i) => SortOK(e, i)
    /\ ~Grouping(e, i) => Usable(e, e.infos[i].parent)

\* What two Environments have in common when they have the same groupings.
SameGroupings(e, d) ==
    /\ \A g : /\ Grouping(d, g) <=> Grouping(e, g)
              /\ Root(d, g) <=> Root(e, g)
              /\ Sorting(d, g) <=> Sorting(e, g)
    /\ \A g : Grouping(e, g) => AsGrouping(e.infos[g], d.infos[g])

LEMMA QuietSame ==
    ASSUME NEW e, NEW d, Quiet(e, d)
    PROVE  SameGroupings(e, d)
  <1>1. ASSUME NEW g PROVE Grouping(d, g) <=> Grouping(e, g)
    BY DEF Quiet, Grouping
  <1>2. ASSUME NEW g, Grouping(e, g) PROVE AsGrouping(e.infos[g], d.infos[g])
    BY <1>2 DEF Quiet, Grouping
  <1> QED  BY <1>1, <1>2 DEF SameGroupings, Root, Sorting, AsGrouping

\* Groupings that stay, though they may get more sorts.
Stays(v, w) ==
    /\ w.identifier = v.identifier /\ w.parent = v.parent /\ w.group = v.group
    /\ w.keys = v.keys /\ w.field = v.field /\ w.asked = v.asked /\ w.finals = v.finals
    /\ \A s : Contains(v.sorts, s) => Contains(w.sorts, s)
StayGroupings(e, d) == \A g : Grouping(e, g) => Grouping(d, g) /\ Stays(e.infos[g], d.infos[g])

LEMMA RootStays ==
    ASSUME NEW e, NEW d, New(e) \in Nat, New(d) \in Nat, New(e) <= New(d), StayGroupings(e, d),
           NEW g, Root(e, g), RootOK(e, g),
           AsHidden(e.infos[e.infos[g].parent], d.infos[e.infos[g].parent]),
           \A h : Root(d, h) /\ d.infos[h].parent = e.infos[g].parent => Grouping(e, h),
           \A s : Contains(d.infos[g].sorts, s) =>
               Contains(e.infos[g].sorts, s) \/ (Sorting(d, s) /\ d.infos[s].group = g)
    PROVE  RootOK(d, g)
  <1>1. PICK p : p = e.infos[g].parent
    OBVIOUS
  <1>2. /\ Stays(e.infos[g], d.infos[g]) /\ d.infos[g].parent = p
        /\ AsHidden(e.infos[p], d.infos[p])
    BY <1>1, SMTT(30) DEF StayGroupings, Root, Stays
  <1>3. p \in 1 .. New(d) /\ Lifted(d, g) = Lifted(e, g)
    BY <1>1, <1>2, SMTT(30) DEF RootOK, PreOK, Lifted, AsHidden
  <1>4. PreOK(d, g)
    <2>1. ASSUME NEW h, Root(d, h), d.infos[h].parent = p PROVE h = g
      <3>1. Grouping(e, h)
        BY <1>1, <2>1
      <3>2. Root(e, h) /\ e.infos[h].parent = p
        BY <2>1, <3>1, SMTT(30) DEF StayGroupings, Root, Stays
      <3> QED  BY <1>1, <3>2 DEF RootOK, PreOK
    <2> QED  BY <1>1, <1>2, <1>3, <2>1 DEF RootOK, PreOK, AsHidden
  <1>5. KeysTrue(e, g) => KeysTrue(d, g)
    <2>1. PICK l : l = Lifted(e, g)
      OBVIOUS
    <2>2. PICK ks : ks = e.infos[g].keys
      OBVIOUS
    <2>3. d.infos[g].keys = ks /\ d.infos[g].asked = e.infos[g].asked
      BY <1>2, <2>2 DEF Stays
    <2>4. d.infos[p].types = e.infos[p].types
      BY <1>2 DEF AsHidden
    <2> QED  BY <1>1, <1>2, <1>3, <2>1, <2>2, <2>3, <2>4 DEF KeysTrue
  <1>6. \A s : Sorting(e, s) => Sorting(d, s) /\ d.infos[s].group = e.infos[s].group
    BY SMTT(30) DEF StayGroupings, Sorting, Stays
  <1> QED  BY <1>2, <1>4, <1>5, <1>6 DEF RootOK, Stays

LEMMA SortStays ==
    ASSUME NEW e, NEW d, StayGroupings(e, d), NEW s, Sorting(e, s), SortOK(e, s),
           LET r == e.infos[s].group IN Lifted(d, r) = Lifted(e, r)
    PROVE  SortOK(d, s)
  <1>1. PICK r : r = e.infos[s].group
    OBVIOUS
  <1>2. PICK q : q = e.infos[s].parent
    OBVIOUS
  <1>3. Stays(e.infos[s], d.infos[s])
    BY DEF StayGroupings, Sorting
  <1>4. Root(e, r) /\ Grouping(e, q)
    BY <1>1, <1>2 DEF SortOK
  <1>5. Stays(e.infos[r], d.infos[r]) /\ Stays(e.infos[q], d.infos[q])
    BY <1>4 DEF StayGroupings, Root
  <1>6. Root(d, r) /\ Grouping(d, q) /\ (Sorting(d, q) <=> Sorting(e, q))
    BY <1>4, <1>5 DEF StayGroupings, Root, Sorting, Stays
  <1>7. d.infos[s].group = r /\ d.infos[s].parent = q /\ Lifted(d, r) = Lifted(e, r)
    BY <1>1, <1>2, <1>3, SMTT(30) DEF Stays
  <1>8. FieldTrue(d, s, r)
    BY <1>1, <1>3, <1>5, <1>7 DEF SortOK, FieldTrue, Stays
  <1> QED  BY <1>1, <1>2, <1>3, <1>5, <1>6, <1>7, <1>8 DEF SortOK, Stays

LEMMA QuietGroups ==
    ASSUME NEW e, Shaped(e), Groups(e), NEW d, Quiet(e, d)
    PROVE  Groups(d)
  <1>1. New(e) \in Nat /\ New(d) \in Nat /\ New(e) <= New(d)
    BY ShapedLen DEF Quiet
  <1>2. SameGroupings(e, d)
    BY QuietSame
  <1>2a. StayGroupings(e, d)
    BY <1>2 DEF SameGroupings, StayGroupings, AsGrouping, Stays
  <1>3. ASSUME NEW g, Root(e, g)
        PROVE  RootOK(e, g) /\ AsHidden(e.infos[e.infos[g].parent], d.infos[e.infos[g].parent])
    <2>1. RootOK(e, g)
      BY <1>3 DEF Groups, Root, Grouping
    <2>2. PICK p : p = e.infos[g].parent
      OBVIOUS
    <2>3. p \in 1 .. New(e) /\ e.infos[p].cls = "hidden"
      BY <2>1, <2>2 DEF RootOK, PreOK
    <2> QED  BY <2>1, <2>2, <2>3 DEF Quiet
  <1>4. ASSUME NEW g, Root(d, g) PROVE RootOK(d, g)
    <2>1. Root(e, g)
      BY <1>2, <1>4 DEF SameGroupings
    <2>2. \A h : Root(d, h) => Grouping(e, h)
      BY <1>2 DEF SameGroupings, Root
    <2>3. \A s : Contains(d.infos[g].sorts, s) => Contains(e.infos[g].sorts, s)
      BY <1>2, <2>1 DEF SameGroupings, Root, AsGrouping
    <2> QED  BY <1>1, <1>2a, <1>3, <2>1, <2>2, <2>3, RootStays
  <1>5. ASSUME NEW s, Sorting(d, s) PROVE SortOK(d, s)
    <2>1. Sorting(e, s)
      BY <1>2, <1>5 DEF SameGroupings
    <2>2. SortOK(e, s)
      BY <2>1 DEF Groups, Sorting, Grouping
    <2>3. PICK r : r = e.infos[s].group
      OBVIOUS
    <2>4. Root(e, r)
      BY <2>2, <2>3 DEF SortOK
    <2>5. Lifted(d, r) = Lifted(e, r)
      <3>1. AsGrouping(e.infos[r], d.infos[r])
        BY <1>2, <2>4 DEF SameGroupings, Root
      <3> QED  BY <1>3, <2>4, <3>1 DEF Lifted, AsGrouping, AsHidden
    <2> QED  BY <1>2a, <2>1, <2>2, <2>3, <2>5, SortStays
  <1>6. ASSUME NEW c \in 1 .. New(d), ~Grouping(d, c) PROVE Usable(d, d.infos[c].parent)
    <2>1. CASE Usable(d, d.infos[c].parent)
      BY <2>1
    <2>2. CASE c \in 1 .. New(e) /\ d.infos[c].parent = e.infos[c].parent
      <3>1. PICK p : p = e.infos[c].parent
        OBVIOUS
      <3>2. ~Grouping(e, c)
        BY <1>2, <1>6 DEF SameGroupings
      <3>3. Usable(e, p)
        BY <2>2, <3>1, <3>2 DEF Groups
      <3> QED  BY <2>2, <3>1, <3>3, QuietUsable
    <2> QED  BY <1>6, <2>1, <2>2 DEF Quiet
  <1> QED  BY <1>4, <1>5, <1>6 DEF Groups

\* One grouping more, n, and what it adds to the sorts of its root.
LEMMA GroupingAdded ==
    ASSUME NEW e, Shaped(e), Groups(e), NEW d, NEW n, New(d) = New(e) + 1, n = New(d),
           StayGroupings(e, d),
           \A g : Grouping(d, g) => Grouping(e, g) \/ g = n,
           \A j \in 1 .. New(e) : /\ AsHidden(e.infos[j], d.infos[j])
                                  /\ d.infos[j].parent = e.infos[j].parent,
           \A g, s : Root(e, g) /\ Contains(d.infos[g].sorts, s) =>
               Contains(e.infos[g].sorts, s) \/ (s = n /\ Sorting(d, n) /\ d.infos[n].group = g),
           Grouping(d, n),
           Root(d, n) => RootOK(d, n) /\ \A h : Root(e, h) => e.infos[h].parent # d.infos[n].parent,
           Sorting(d, n) => SortOK(d, n)
    PROVE  Groups(d)
  <1>1. New(e) \in Nat /\ New(d) \in Nat /\ New(e) <= New(d)
    BY ShapedLen
  <1>2. ASSUME NEW g, Root(e, g)
        PROVE  /\ RootOK(e, g) /\ AsHidden(e.infos[e.infos[g].parent], d.infos[e.infos[g].parent])
               /\ d.infos[g].parent = e.infos[g].parent /\ Lifted(d, g) = Lifted(e, g)
    <2>1. RootOK(e, g) /\ g \in 1 .. New(e)
      BY <1>2 DEF Groups, Root, Grouping
    <2>2. PICK p : p = e.infos[g].parent
      OBVIOUS
    <2>3. p \in 1 .. New(e)
      BY <2>1, <2>2 DEF RootOK, PreOK
    <2>4. d.infos[g].parent = p /\ AsHidden(e.infos[p], d.infos[p])
      BY <2>1, <2>2, <2>3
    <2> QED  BY <2>1, <2>2, <2>4 DEF Lifted, AsHidden
  <1>3. ASSUME NEW g, Root(d, g) PROVE RootOK(d, g)
    <2>1. CASE g = n
      BY <1>3, <2>1
    <2>2. CASE Grouping(e, g)
      <3>1. Root(e, g)
        BY <1>3, <2>2 DEF StayGroupings, Root, Stays
      <3>2. ASSUME NEW h, Root(d, h), d.infos[h].parent = e.infos[g].parent PROVE Grouping(e, h)
        BY <3>1, <3>2 DEF Root
      <3>3. ASSUME NEW s, Contains(d.infos[g].sorts, s)
            PROVE  Contains(e.infos[g].sorts, s) \/ (Sorting(d, s) /\ d.infos[s].group = g)
        BY <3>1, <3>3
      <3> QED  BY <1>1, <1>2, <3>1, <3>2, <3>3, RootStays
    <2> QED  BY <1>3, <2>1, <2>2 DEF Root
  <1>4. ASSUME NEW s, Sorting(d, s) PROVE SortOK(d, s)
    <2>1. CASE s = n
      BY <1>4, <2>1
    <2>2. CASE Grouping(e, s)
      <3>1. Sorting(e, s)
        BY <1>4, <2>2 DEF StayGroupings, Sorting, Stays
      <3>2. SortOK(e, s)
        BY <3>1 DEF Groups, Sorting, Grouping
      <3>3. PICK r : r = e.infos[s].group
        OBVIOUS
      <3>4. Root(e, r)
        BY <3>2, <3>3 DEF SortOK
      <3> QED  BY <1>2, <3>1, <3>2, <3>3, <3>4, SortStays
    <2> QED  BY <1>4, <2>1, <2>2 DEF Sorting
  <1>5. ASSUME NEW c \in 1 .. New(d), ~Grouping(d, c) PROVE Usable(d, d.infos[c].parent)
    <2>1. c \in 1 .. New(e)
      BY <1>1, <1>5
    <2>2. PICK p : p = e.infos[c].parent
      OBVIOUS
    <2>3. ~Grouping(e, c)
      BY <1>5 DEF StayGroupings
    <2>4. Usable(e, p)
      BY <2>1, <2>2, <2>3 DEF Groups
    <2>5. p \in 0 .. New(e) /\ p \in 0 .. New(d) /\ p # n
      BY <1>1, <2>4 DEF Usable
    <2>6. Sorting(d, p) => Sorting(e, p) /\ d.infos[p].finals = e.infos[p].finals
      BY <2>5 DEF Sorting, StayGroupings, Stays
    <2>7. d.infos[c].parent = p
      BY <2>1, <2>2
    <2> QED  BY <2>4, <2>5, <2>6, <2>7 DEF Usable
  <1> QED  BY <1>3, <1>4, <1>5 DEF Groups

\* A new info leaves all groupings as they are.
LEMMA GrewStays ==
    ASSUME NEW e, Shaped(e), NEW v, NEW d, Grew(e, d, v)
    PROVE  /\ StayGroupings(e, d) /\ New(e) \in Nat /\ Shaped(d)
           /\ \A g : Grouping(d, g) => Grouping(e, g) \/ g = New(d)
           /\ \A j \in 1 .. New(e) : /\ AsHidden(e.infos[j], d.infos[j])
                                     /\ d.infos[j].parent = e.infos[j].parent
                                     /\ d.infos[j].sorts = e.infos[j].sorts
  <1>1. New(e) \in Nat /\ New(d) = New(e) + 1
    BY ShapedLen DEF Grew
  <1>2. \A j \in 1 .. New(d) : j \in 1 .. New(e) \/ j = New(d)
    BY <1>1
  <1>3. \A j \in 1 .. New(e) : j \in 1 .. New(d) /\ Like(e.infos[j], d.infos[j])
    BY <1>1 DEF Grew
  <1>4. StayGroupings(e, d)
    BY <1>3 DEF StayGroupings, Grouping, Like, AsGrouping, AsHidden, Stays
  <1>5. \A g : Grouping(d, g) => Grouping(e, g) \/ g = New(d)
    BY <1>2, <1>3 DEF Grouping, Like, AsHidden
  <1> QED  BY <1>1, <1>3, <1>4, <1>5 DEF Like, AsGrouping, Grew

LEMMA GroupByGroups ==
    ASSUME NEW e, Shaped(e), Groups(e), NEW s, Held(e, s), NEW keys, Asks(keys)
    PROVE  Groups(GroupBy(e, s, keys))
  <1>1. PICK z : z = Info("map", "hidden", s, <<"identity">>, ArrayType)
    OBVIOUS
  <1>2. PICK m : m = Below(e, s, z)
    OBVIOUS
  <1>3. PICK n : n = New(m)
    OBVIOUS
  <1>4. PICK c : c = n + 1
    OBVIOUS
  <1>5. PICK v : v = Info("groupby", "grouping", n, NoFun, NoType)
    OBVIOUS
  <1>6. PICK u : u = InfoField(v, "keys", keys)
    OBVIOUS
  <1>7. PICK t : t = InfoField(u, "group", c)
    OBVIOUS
  <1>8. PICK w : w = InfoField(t, "asked", keys)
    OBVIOUS
  <1>9. PICK d : d = Below(m, n, w)
    OBVIOUS
  <1>10. GroupBy(e, s, keys) = d
    BY <1>1, <1>2, <1>3, <1>4, <1>5, <1>6, <1>7, <1>8, <1>9, Zenon DEF GroupBy, Map, InfoField
  <1>11. DOMAIN z = Fields /\ z.cls = "hidden" /\ z.parent = s /\ z.identifier = "map"
    BY <1>1, InfoFields
  <1>12. Grew(e, m, z)
    BY <1>2, <1>11, BelowGrew
  <1>13. /\ Quiet(e, m) /\ Shaped(m) /\ n = New(e) + 1 /\ New(e) \in Nat
         /\ m.infos[n].cls = "hidden" /\ m.infos[n].identifier = "map"
    <2>1. Usable(e, z.parent)
      BY <1>11, HeldUsable
    <2>2. Quiet(e, m)
      BY <1>11, <1>12, <2>1, GrewQuiet
    <2> QED  BY <1>3, <1>11, <1>12, <2>2, ShapedLen DEF Quiet, Grew, Like, AsHidden
  <1>14. Groups(m)
    BY <1>13, QuietGroups
  <1>15. /\ DOMAIN v = Fields /\ v.cls = "grouping" /\ v.parent = n /\ v.identifier = "groupby"
         /\ v.sorts = <<>> /\ v.finals = 0
    BY <1>5, InfoFields
  <1>16. /\ DOMAIN u = Fields /\ u.cls = "grouping" /\ u.parent = n /\ u.identifier = "groupby"
         /\ u.sorts = <<>> /\ u.finals = 0 /\ u.keys = keys
    BY <1>6, <1>15, InfoFieldFields DEF Fields
  <1>17. /\ DOMAIN t = Fields /\ t.cls = "grouping" /\ t.parent = n /\ t.identifier = "groupby"
         /\ t.sorts = <<>> /\ t.finals = 0 /\ t.keys = keys
    BY <1>7, <1>16, InfoFieldFields DEF Fields
  <1>18. /\ DOMAIN w = Fields /\ w.cls = "grouping" /\ w.parent = n /\ w.identifier = "groupby"
         /\ w.sorts = <<>> /\ w.finals = 0 /\ w.keys = keys /\ w.asked = keys
    BY <1>8, <1>17, InfoFieldFields DEF Fields
  <1>19. Grew(m, d, w)
    BY <1>9, <1>13, <1>18, BelowGrew
  <1>20. /\ StayGroupings(m, d) /\ Shaped(d)
         /\ \A g : Grouping(d, g) => Grouping(m, g) \/ g = New(d)
         /\ \A j \in 1 .. New(m) : /\ AsHidden(m.infos[j], d.infos[j])
                                   /\ d.infos[j].parent = m.infos[j].parent
                                   /\ d.infos[j].sorts = m.infos[j].sorts
    BY <1>13, <1>19, GrewStays
  <1>21. New(d) = c /\ Like(w, d.infos[c]) /\ c \in 1 .. New(d) /\ n \in 1 .. n /\ n \in 1 .. New(d)
    <2>1. New(d) = New(m) + 1 /\ Like(w, d.infos[New(d)])
      BY <1>19 DEF Grew
    <2>2. New(d) = c
      BY <1>3, <1>4, <2>1
    <2>3. n \in Nat /\ n >= 1
      BY <1>13
    <2> QED  BY <1>4, <2>1, <2>2, <2>3
  <1>22. ASSUME NEW h, Root(m, h) PROVE m.infos[h].parent # n
    <2>1. SameGroupings(e, m)
      BY <1>13, QuietSame
    <2>2. Root(e, h) /\ m.infos[h].parent = e.infos[h].parent
      BY <1>22, <2>1 DEF SameGroupings, Root, AsGrouping
    <2>3. e.infos[h].parent \in 1 .. New(e)
      BY <2>2 DEF Groups, Root, Grouping, RootOK, PreOK
    <2> QED  BY <1>13, <2>2, <2>3
  <1>23. Root(d, c) /\ ~Sorting(d, c)
    BY <1>18, <1>21 DEF Root, Sorting, Grouping, Like, AsGrouping, AsHidden
  <1>24. RootOK(d, c)
    <2>1. d.infos[c].parent = n /\ d.infos[n].cls = "hidden" /\ d.infos[n].identifier = "map"
      BY <1>3, <1>13, <1>18, <1>20, <1>21 DEF Like, AsGrouping, AsHidden
    <2>2. ASSUME NEW h, Root(d, h), d.infos[h].parent = n PROVE h = c
      <3>1. SUFFICES ASSUME Grouping(m, h) PROVE FALSE
        BY <1>20, <1>21, <2>2 DEF Root
      <3>2. Root(m, h) /\ m.infos[h].parent = n
        BY <1>20, <2>2, <3>1 DEF StayGroupings, Root, Stays
      <3> QED  BY <1>22, <3>2
    <2>3. PreOK(d, c)
      BY <1>21, <2>1, <2>2 DEF PreOK
    <2>4. /\ d.infos[c].finals = 0 /\ d.infos[c].keys = keys /\ d.infos[c].asked = keys
          /\ d.infos[c].sorts = <<>>
      BY <1>18, <1>21 DEF Like, AsGrouping
    <2>5. \A y : ~Contains(<<>>, y)
      BY DEF Contains
    <2> QED  BY <2>3, <2>4, <2>5 DEF RootOK
  <1>25. \A g, y : Root(m, g) /\ Contains(d.infos[g].sorts, y) => Contains(m.infos[g].sorts, y)
    BY <1>20 DEF Root, Grouping
  <1>26. d.infos[c].parent = n
    BY <1>18, <1>21 DEF Like, AsGrouping
  <1> QED  BY <1>3, <1>4, <1>10, <1>13, <1>14, <1>20, <1>21, <1>22, <1>23, <1>24, <1>25, <1>26,
              GroupingAdded DEF Root

LEMMA SortGroupGroups ==
    ASSUME NEW e, Typed(e), Groups(e), NEW g, Grouping(e, g), Root(e, g) \/ Sorting(e, g),
           Root(e, g) => e.infos[g].group = g, NEW f, f \in Nat \cup {Selector}
    PROVE  Groups(SortGroup(e, g, f))
  <1>1. PICK root : root = e.infos[g].group
    OBVIOUS
  <1>2. PICK v : v = Info("sort", "grouping", g, NoFun, NoType)
    OBVIOUS
  <1>3. PICK u : u = InfoField(v, "field", f)
    OBVIOUS
  <1>4. PICK t : t = InfoField(u, "group", root)
    OBVIOUS
  <1>5. PICK w : w = InfoField(t, "asked", <<f>>)
    OBVIOUS
  <1>6. PICK m : m = Below(e, g, w)
    OBVIOUS
  <1>7. PICK n : n = New(m)
    OBVIOUS
  <1>8. PICK l : l = Append(m.infos[root].sorts, n)
    OBVIOUS
  <1>9. PICK d : d = WithField(m, root, "sorts", l)
    OBVIOUS
  <1>10. SortGroup(e, g, f) = d
    BY <1>1, <1>2, <1>3, <1>4, <1>5, <1>6, <1>7, <1>8, <1>9, Zenon DEF SortGroup, InfoField, WithField
  <1>11. /\ DOMAIN v = Fields /\ v.cls = "grouping" /\ v.parent = g /\ v.identifier = "sort"
         /\ v.sorts = <<>> /\ v.finals = 0
    BY <1>2, InfoFields
  <1>12. /\ DOMAIN u = Fields /\ u.cls = "grouping" /\ u.parent = g /\ u.identifier = "sort"
         /\ u.sorts = <<>> /\ u.finals = 0 /\ u.field = f
    BY <1>3, <1>11, InfoFieldFields DEF Fields
  <1>13. /\ DOMAIN t = Fields /\ t.cls = "grouping" /\ t.parent = g /\ t.identifier = "sort"
         /\ t.sorts = <<>> /\ t.finals = 0 /\ t.field = f /\ t.group = root
    BY <1>4, <1>12, InfoFieldFields DEF Fields
  <1>14. /\ DOMAIN w = Fields /\ w.cls = "grouping" /\ w.parent = g /\ w.identifier = "sort"
         /\ w.sorts = <<>> /\ w.finals = 0 /\ w.field = f /\ w.group = root /\ w.asked = <<f>>
    BY <1>5, <1>13, InfoFieldFields DEF Fields
  <1>15. Shaped(e)
    BY TypedShaped
  <1>16. Grew(e, m, w)
    BY <1>6, <1>14, <1>15, BelowGrew
  <1>17. /\ StayGroupings(e, m) /\ New(e) \in Nat /\ Shaped(m)
         /\ \A h : Grouping(m, h) => Grouping(e, h) \/ h = New(m)
         /\ \A j \in 1 .. New(e) : /\ AsHidden(e.infos[j], m.infos[j])
                                   /\ m.infos[j].parent = e.infos[j].parent
                                   /\ m.infos[j].sorts = e.infos[j].sorts
    BY <1>15, <1>16, GrewStays
  <1>18. n = New(e) + 1 /\ Like(w, m.infos[n]) /\ n \in 1 .. n
    <2>1. New(m) = New(e) + 1 /\ Like(w, m.infos[New(m)])
      BY <1>16 DEF Grew
    <2> QED  BY <1>7, <1>17, <2>1
  <1>19. Root(e, root) /\ root \in 1 .. New(e)
    <2>1. CASE Root(e, g)
      BY <1>1, <2>1 DEF Root, Grouping
    <2>2. CASE Sorting(e, g)
      <3>1. SortOK(e, g)
        BY <2>2 DEF Groups, Sorting, Grouping
      <3> QED  BY <1>1, <3>1 DEF SortOK, Root, Grouping
    <2> QED  BY <2>1, <2>2
  <1>20. m.infos[root].sorts \in Seq(1 .. n)
    <2>1. e.infos[root].sorts \in Seq(1 .. New(e))
      BY <1>19 DEF Typed, InfoOK
    <2>2. 1 .. New(e) \subseteq 1 .. n
      BY <1>17, <1>18
    <2>3. PICK sorts : sorts = e.infos[root].sorts
      OBVIOUS
    <2>4. sorts \in Seq(1 .. n)
      BY <2>1, <2>2, <2>3, SeqMonotonic
    <2> QED  BY <1>17, <1>19, <2>3, <2>4
  <1>21. \A y : Contains(l, y) <=> Contains(m.infos[root].sorts, y) \/ y = n
    <2>1. PICK sorts : sorts = m.infos[root].sorts
      OBVIOUS
    <2>2. n \in 1 .. n
      BY <1>18
    <2> QED  BY <1>8, <1>20, <2>1, <2>2, ContainsAppend
  <1>22. IsSet(m, d, root, "sorts", l)
    BY <1>9, <1>17, FieldSet DEF Fields
  <1>23. /\ New(d) = n /\ Shaped(d)
         /\ \A j \in 1 .. n : j # root => d.infos[j] = m.infos[j]
         /\ d.infos[root] = InfoField(m.infos[root], "sorts", l)
         /\ root \in 1 .. n /\ root # n
    <2>1. root \in 1 .. n /\ root # n
      BY <1>17, <1>18, <1>19
    <2> QED  BY <1>7, <1>22, <2>1 DEF IsSet
  <1>24. PICK y : y = m.infos[root]
    OBVIOUS
  <1>25. /\ d.infos[root].cls = y.cls /\ d.infos[root].identifier = y.identifier
         /\ d.infos[root].parent = y.parent /\ d.infos[root].group = y.group
         /\ d.infos[root].keys = y.keys /\ d.infos[root].field = y.field
         /\ d.infos[root].asked = y.asked /\ d.infos[root].finals = y.finals
         /\ d.infos[root].sorts = l /\ AsHidden(y, d.infos[root])
    <2>1. DOMAIN y = Fields
      BY <1>7, <1>17, <1>23, <1>24 DEF Shaped
    <2>2. d.infos[root] = InfoField(y, "sorts", l)
      BY <1>23, <1>24
    <2> QED  BY <2>1, <2>2 DEF InfoField, Fields, AsHidden
  <1>26. \A j \in 1 .. n : /\ AsHidden(m.infos[j], d.infos[j])
                           /\ d.infos[j].parent = m.infos[j].parent
                           /\ Grouping(d, j) <=> Grouping(m, j)
                           /\ Stays(m.infos[j], d.infos[j])
    <2>1. ASSUME NEW j \in 1 .. n, j # root
          PROVE  /\ AsHidden(m.infos[j], d.infos[j])
                 /\ d.infos[j].parent = m.infos[j].parent
                 /\ Grouping(d, j) <=> Grouping(m, j)
                 /\ Stays(m.infos[j], d.infos[j])
      <3>1. d.infos[j] = m.infos[j]
        BY <1>23, <2>1
      <3> QED  BY <1>7, <1>23, <3>1 DEF AsHidden, Grouping, Stays
    <2>2. /\ AsHidden(m.infos[root], d.infos[root])
          /\ d.infos[root].parent = m.infos[root].parent
          /\ Grouping(d, root) <=> Grouping(m, root)
      BY <1>7, <1>23, <1>24, <1>25 DEF Grouping
    <2>3. Stays(m.infos[root], d.infos[root])
      BY <1>21, <1>24, <1>25 DEF Stays
    <2> QED  BY <2>1, <2>2, <2>3
  <1>27. StayGroupings(e, d)
    <2>1. ASSUME NEW h, Grouping(e, h) PROVE Grouping(d, h) /\ Stays(e.infos[h], d.infos[h])
      <3>1. Grouping(m, h) /\ Stays(e.infos[h], m.infos[h]) /\ h \in 1 .. n
        BY <1>7, <1>17, <2>1 DEF StayGroupings, Grouping
      <3> QED  BY <1>26, <3>1 DEF Stays
    <2> QED  BY <2>1 DEF StayGroupings
  <1>28. \A h : Grouping(d, h) => Grouping(e, h) \/ h = n
    BY <1>7, <1>17, <1>23, <1>26 DEF Grouping
  <1>29. \A j \in 1 .. New(e) : /\ AsHidden(e.infos[j], d.infos[j])
                                /\ d.infos[j].parent = e.infos[j].parent
    <2>1. \A j \in 1 .. New(e) : j \in 1 .. n
      BY <1>17, <1>18
    <2> QED  BY <1>17, <1>26, <2>1 DEF AsHidden
  <1>30. Sorting(d, n) /\ ~Root(d, n) /\ Like(w, d.infos[n])
    BY <1>14, <1>18, <1>23 DEF Sorting, Root, Grouping, Like, AsGrouping, AsHidden
  <1>31. d.infos[n].group = root
    BY <1>14, <1>30 DEF Like, AsGrouping
  <1>32. ASSUME NEW h, NEW s, Root(e, h), Contains(d.infos[h].sorts, s)
         PROVE  Contains(e.infos[h].sorts, s) \/ (s = n /\ Sorting(d, n) /\ d.infos[n].group = h)
    <2>1. h \in 1 .. New(e) /\ h \in 1 .. n
      BY <1>17, <1>18, <1>32 DEF Root, Grouping
    <2>2. m.infos[h].sorts = e.infos[h].sorts
      BY <1>17, <2>1
    <2>3. CASE h = root
      BY <1>21, <1>24, <1>25, <1>30, <1>31, <1>32, <2>2, <2>3
    <2>4. CASE h # root
      <3>1. d.infos[h] = m.infos[h]
        BY <1>23, <2>1, <2>4
      <3> QED  BY <1>32, <2>2, <3>1
    <2> QED  BY <2>3, <2>4
  <1>33. SortOK(d, n)
    <2>1. Root(d, root) /\ d.infos[root].finals = e.infos[root].finals
      BY <1>19, <1>27 DEF StayGroupings, Root, Stays
    <2>2. Contains(d.infos[root].sorts, n)
      BY <1>21, <1>25
    <2>3. /\ d.infos[n].finals = 0 /\ d.infos[n].field = f /\ d.infos[n].asked = <<f>>
          /\ d.infos[n].parent = g
      BY <1>14, <1>30 DEF Like, AsGrouping
    <2>4. FieldTrue(d, n, root)
      BY <2>3 DEF FieldTrue
    <2>5. Grouping(d, g) /\ d.infos[g].group = e.infos[g].group
      BY <1>27 DEF StayGroupings, Stays
    <2> QED  BY <1>1, <1>31, <2>1, <2>2, <2>3, <2>4, <2>5 DEF SortOK
  <1>34. New(d) = New(e) + 1 /\ n = New(d) /\ Grouping(d, n)
    BY <1>18, <1>23, <1>30 DEF Sorting
  <1> QED  BY <1>10, <1>15, <1>27, <1>28, <1>29, <1>30, <1>32, <1>33, <1>34, GroupingAdded

\* _finalize of root r: X, the groupings it gives positions, has r in it.
Kept(v, w) ==
    /\ w.identifier = v.identifier /\ w.cls = v.cls /\ w.parent = v.parent
    /\ w.group = v.group /\ w.sorts = v.sorts /\ w.asked = v.asked
Finalized(e, d, r, X) ==
    /\ Shaped(d) /\ New(d) = New(e)
    /\ \A j \in 1 .. New(e) :
          /\ Kept(e.infos[j], d.infos[j])
          /\ j # e.infos[r].parent => AsHidden(e.infos[j], d.infos[j])
          /\ j \notin X => AsGrouping(e.infos[j], d.infos[j])
          /\ j \in X => d.infos[j].finals = e.infos[j].finals + 1

\* What r and its sorts have to name, if they are used for the first time.
NamedNow(e, d, r, X) == e.infos[r].finals = 0 =>
    /\ KeysTrue(d, r)
    /\ \A s \in X : s # r => Lifted(d, r)[d.infos[s].field + 1] = e.infos[s].asked[1]

LEMMA FinalizedGroups ==
    ASSUME NEW e, Shaped(e), Groups(e), NEW r, Root(e, r), NEW d, NEW X, Finalized(e, d, r, X),
           \/ X = {r}
           \/ \A s : s \in X <=> s = r \/ Contains(e.infos[r].sorts, s),
           NamedNow(e, d, r, X)
    PROVE  /\ Groups(d)
           /\ \A s \in X : Usable(d, s)
  <1>1. New(e) \in Nat /\ New(d) = New(e) /\ r \in X
    BY ShapedLen DEF Finalized
  <1>2. \A j \in 1 .. New(e) : Kept(e.infos[j], d.infos[j])
    BY DEF Finalized
  <1>3. \A g : /\ Grouping(d, g) <=> Grouping(e, g)
               /\ Root(d, g) <=> Root(e, g)
               /\ Sorting(d, g) <=> Sorting(e, g)
    BY <1>1, <1>2 DEF Grouping, Root, Sorting, Kept
  <1>4. RootOK(e, r) /\ \A g : Root(e, g) => RootOK(e, g) /\ g \in 1 .. New(e)
    BY DEF Groups, Root, Grouping
  <1>5. \A s : Sorting(e, s) => SortOK(e, s) /\ s \in 1 .. New(e)
    BY DEF Groups, Sorting, Grouping
  <1>6. \A s \in X : s # r => Contains(e.infos[r].sorts, s) /\ Sorting(e, s) /\ e.infos[s].group = r
    BY <1>4 DEF RootOK
  <1>7. \A g \in X : g \in 1 .. New(e) /\ Grouping(e, g)
    BY <1>4, <1>5, <1>6 DEF Root, Sorting
  <1>8. \A g \in X : e.infos[g].finals \in Nat
    BY <1>4, <1>5, <1>6 DEF RootOK, SortOK, FieldTrue
  <1>9. \A g \in X : d.infos[g].finals = e.infos[g].finals + 1 /\ d.infos[g].finals \in Nat \ {0}
    <2>1. ASSUME NEW g \in X
          PROVE  d.infos[g].finals = e.infos[g].finals + 1 /\ d.infos[g].finals \in Nat \ {0}
      <3>1. d.infos[g].finals = e.infos[g].finals + 1 /\ e.infos[g].finals \in Nat
        BY <1>7, <1>8 DEF Finalized
      <3> QED  BY <3>1
    <2> QED  BY <2>1
  <1>10. \A g \in 1 .. New(e) : g \notin X => AsGrouping(e.infos[g], d.infos[g])
    BY DEF Finalized
  <1>11. ASSUME NEW g, Root(e, g), g # r
         PROVE  /\ g \notin X /\ AsGrouping(e.infos[g], d.infos[g])
                /\ AsHidden(e.infos[e.infos[g].parent], d.infos[e.infos[g].parent])
                /\ Lifted(d, g) = Lifted(e, g)
    <2>1. g \notin X /\ g \in 1 .. New(e)
      BY <1>4, <1>6, <1>11 DEF Root, Sorting
    <2>2. AsGrouping(e.infos[g], d.infos[g])
      BY <1>10, <2>1
    <2>3. PICK p : p = e.infos[g].parent
      OBVIOUS
    <2>4. p # e.infos[r].parent /\ p \in 1 .. New(e)
      BY <1>4, <1>11, <2>3 DEF RootOK, PreOK
    <2>5. AsHidden(e.infos[p], d.infos[p])
      BY <2>4 DEF Finalized
    <2> QED  BY <2>1, <2>2, <2>3, <2>5 DEF Lifted, AsGrouping, AsHidden
  <1>12. ASSUME NEW g, Root(e, g) PROVE PreOK(d, g)
    <2>1. PICK p : p = e.infos[g].parent
      OBVIOUS
    <2>2. /\ p \in 1 .. New(e) /\ e.infos[p].cls = "hidden" /\ e.infos[p].identifier = "map"
          /\ \A h : Root(e, h) /\ e.infos[h].parent = p => h = g
      BY <1>4, <1>12, <2>1 DEF RootOK, PreOK
    <2>3. d.infos[g].parent = p /\ d.infos[p].cls = "hidden" /\ d.infos[p].identifier = "map"
      BY <1>2, <1>4, <1>12, <2>1, <2>2 DEF Kept
    <2>4. ASSUME NEW h, Root(d, h), d.infos[h].parent = p PROVE h = g
      <3>1. Root(e, h) /\ e.infos[h].parent = p
        BY <1>2, <1>3, <1>4, <2>4 DEF Kept
      <3> QED  BY <2>2, <3>1
    <2> QED  BY <1>1, <2>2, <2>3, <2>4 DEF PreOK
  <1>13. ASSUME NEW g, Root(e, g), NEW s, Contains(d.infos[g].sorts, s)
         PROVE  Sorting(d, s) /\ d.infos[s].group = g
    <2>1. g \in 1 .. New(e) /\ Contains(e.infos[g].sorts, s)
      BY <1>2, <1>4, <1>13 DEF Kept
    <2>2. Sorting(e, s) /\ e.infos[s].group = g
      BY <1>4, <1>13, <2>1 DEF RootOK
    <2> QED  BY <1>2, <1>3, <1>5, <2>2 DEF Kept
  <1>14. RootOK(d, r)
    <2>1. d.infos[r].finals \in Nat \ {0} /\ (d.infos[r].finals = 1 => e.infos[r].finals = 0)
      BY <1>1, <1>8, <1>9
    <2>2. Asks(d.infos[r].asked)
      BY <1>2, <1>4 DEF Kept, RootOK
    <2>3. d.infos[r].finals = 1 => KeysTrue(d, r)
      BY <2>1 DEF NamedNow
    <2> QED  BY <1>12, <1>13, <2>1, <2>2, <2>3 DEF RootOK
  <1>15. ASSUME NEW g, Root(e, g), g # r PROVE RootOK(d, g)
    <2>1. StayGroupings(e, e)
      BY DEF StayGroupings, Stays
    <2>2. /\ RootOK(e, g) /\ AsGrouping(e.infos[g], d.infos[g]) /\ Lifted(d, g) = Lifted(e, g)
          /\ AsHidden(e.infos[e.infos[g].parent], d.infos[e.infos[g].parent])
      BY <1>4, <1>11, <1>15
    <2>3. KeysTrue(e, g) => KeysTrue(d, g)
      <3>1. PICK l : l = Lifted(e, g)
        OBVIOUS
      <3>2. PICK ks : ks = e.infos[g].keys
        OBVIOUS
      <3>3. d.infos[g].keys = ks /\ d.infos[g].asked = e.infos[g].asked
        BY <2>2, <3>2 DEF AsGrouping
      <3>4. d.infos[d.infos[g].parent].types = e.infos[e.infos[g].parent].types
        BY <2>2 DEF AsHidden, AsGrouping
      <3> QED  BY <2>2, <3>1, <3>2, <3>3, <3>4 DEF KeysTrue
    <2> QED  BY <1>12, <1>13, <1>15, <2>2, <2>3 DEF RootOK, AsGrouping
  <1>16. ASSUME NEW s, Sorting(e, s) PROVE SortOK(d, s)
    <2>1. PICK h : h = e.infos[s].group
      OBVIOUS
    <2>2. PICK q : q = e.infos[s].parent
      OBVIOUS
    <2>3. /\ Root(e, h) /\ Contains(e.infos[h].sorts, s) /\ FieldTrue(e, s, h) /\ Grouping(e, q)
          /\ Sorting(e, q) => /\ e.infos[q].group = h
                              /\ e.infos[s].finals # 0 => e.infos[q].finals # 0
      BY <1>5, <1>16, <2>1, <2>2 DEF SortOK
    <2>4. s \in 1 .. New(e) /\ h \in 1 .. New(e) /\ q \in 1 .. New(e)
      BY <1>4, <1>5, <1>16, <2>3 DEF Grouping
    <2>5. /\ Kept(e.infos[s], d.infos[s]) /\ Kept(e.infos[h], d.infos[h]) /\ Kept(e.infos[q], d.infos[q])
      BY <1>2, <2>4, SMTT(30)
    <2>6. /\ d.infos[s].group = h /\ d.infos[s].parent = q /\ d.infos[s].asked = e.infos[s].asked
          /\ Root(d, h) /\ Contains(d.infos[h].sorts, s) /\ Grouping(d, q)
          /\ d.infos[q].group = e.infos[q].group
      BY <1>3, <2>1, <2>2, <2>3, <2>5 DEF Kept
    <2>7. CASE s \notin X
      <3>1. AsGrouping(e.infos[s], d.infos[s])
        BY <1>10, <2>4, <2>7
      <3>2. d.infos[s].finals # 0 => e.infos[s].finals # 0
        BY <3>1 DEF AsGrouping
      <3>3. Sorting(d, q) => d.infos[q].group = h /\ (d.infos[s].finals # 0 => d.infos[q].finals # 0)
        <4>1. CASE q \in X
          BY <1>3, <1>9, <2>3, <2>6, <4>1
        <4>2. CASE q \notin X
          <5>1. AsGrouping(e.infos[q], d.infos[q])
            BY <1>10, <2>4, <4>2
          <5> QED  BY <1>3, <2>3, <2>6, <3>2, <5>1 DEF AsGrouping
        <4> QED  BY <4>1, <4>2
      <3>4. FieldTrue(d, s, h)
        <4>1. CASE h = r
          <5>1. d.infos[h].finals # 0 /\ (d.infos[h].finals = 1 => e.infos[h].finals = 0)
            BY <1>1, <1>8, <1>9, <4>1
          <5>2. d.infos[h].finals = 1 => d.infos[s].finals = 0
            BY <2>3, <3>2, <5>1 DEF FieldTrue
          <5>3. d.infos[s].finals \in Nat /\ (d.infos[s].finals = 0 => d.infos[s].field = d.infos[s].asked[1])
            BY <2>3, <3>1 DEF FieldTrue, AsGrouping
          <5>4. \E f \in Nat \cup {Selector} : d.infos[s].asked = <<f>>
            BY <2>3, <2>6 DEF FieldTrue
          <5> QED  BY <5>1, <5>2, <5>3, <5>4 DEF FieldTrue
        <4>2. CASE h # r
          <5>1. Lifted(d, h) = Lifted(e, h) /\ AsGrouping(e.infos[h], d.infos[h])
            BY <1>11, <2>3, <4>2
          <5> QED  BY <2>3, <3>1, <5>1 DEF FieldTrue, AsGrouping
        <4> QED  BY <4>1, <4>2
      <3> QED  BY <2>6, <3>3, <3>4 DEF SortOK
    <2>8. CASE s \in X
      <3>1. h = r /\ s # r
        BY <1>6, <1>16, <2>1, <2>8 DEF Sorting, Root
      <3>2. d.infos[s].finals \in Nat \ {0}
        BY <1>9, <2>8
      <3>3. Sorting(d, q) => d.infos[q].group = h /\ d.infos[q].finals # 0
        <4>1. SUFFICES ASSUME Sorting(d, q) PROVE d.infos[q].group = h /\ d.infos[q].finals # 0
          OBVIOUS
        <4>2. Sorting(e, q) /\ e.infos[q].group = r
          BY <1>3, <2>3, <3>1, <4>1
        <4>3. Contains(e.infos[r].sorts, q)
          BY <1>5, <4>2 DEF SortOK
        <4>4. q \in X
          BY <2>8, <3>1, <4>3
        <4> QED  BY <1>9, <2>6, <3>1, <4>2, <4>4
      <3>4. FieldTrue(d, s, h)
        <4>1. d.infos[h].finals # 0 /\ (d.infos[h].finals = 1 => e.infos[h].finals = 0)
          BY <1>1, <1>8, <1>9, <3>1
        <4>2. d.infos[h].finals = 1 => Lifted(d, h)[d.infos[s].field + 1] = d.infos[s].asked[1]
          BY <2>6, <2>8, <3>1, <4>1 DEF NamedNow
        <4>3. \E f \in Nat \cup {Selector} : d.infos[s].asked = <<f>>
          BY <2>3, <2>6 DEF FieldTrue
        <4> QED  BY <3>2, <4>1, <4>2, <4>3 DEF FieldTrue
      <3> QED  BY <2>6, <3>3, <3>4 DEF SortOK
    <2> QED  BY <2>7, <2>8
  <1>17. \A p : Usable(e, p) => Usable(d, p)
    <2>1. ASSUME NEW p, Usable(e, p), Sorting(d, p) PROVE d.infos[p].finals # 0
      <3>1. Sorting(e, p) /\ p \in 1 .. New(e)
        BY <1>3, <1>5, <2>1
      <3>2. CASE p \in X
        BY <1>9, <3>2
      <3>3. CASE p \notin X
        BY <1>10, <2>1, <3>1, <3>3 DEF Usable, AsGrouping
      <3> QED  BY <3>2, <3>3
    <2> QED  BY <1>1, <2>1 DEF Usable
  <1>18. ASSUME NEW c \in 1 .. New(d), ~Grouping(d, c) PROVE Usable(d, d.infos[c].parent)
    <2>1. c \in 1 .. New(e) /\ ~Grouping(e, c) /\ d.infos[c].parent = e.infos[c].parent
      BY <1>1, <1>2, <1>3, <1>18 DEF Kept
    <2> QED  BY <1>17, <2>1 DEF Groups
  <1>19. \A s \in X : Usable(d, s)
    BY <1>1, <1>7, <1>9 DEF Usable
  <1>20. Groups(d)
    <2>1. \A i \in 1 .. New(d) : Root(d, i) => RootOK(d, i)
      BY <1>3, <1>14, <1>15
    <2>2. \A i \in 1 .. New(d) : Sorting(d, i) => SortOK(d, i)
      BY <1>3, <1>16
    <2> QED  BY <1>18, <2>1, <2>2 DEF Groups
  <1> QED  BY <1>19, <1>20

\* The elements of a sequence are finitely many.
Image(s, n) == {s[i] : i \in 1 .. n}
LEMMA ImageFinite ==
    ASSUME NEW n \in Nat, NEW s
    PROVE  IsFiniteSet(Image(s, n))
  <1>0. PICK T : T = {s[i] : i \in 1 .. n}
    OBVIOUS
  <1>1. PICK f : f = [i \in 1 .. n |-> s[i]]
    OBVIOUS
  <1>2. f \in [1 .. n -> T] /\ \A y \in T : \E i \in 1 .. n : f[i] = y
    BY <1>0, <1>1
  <1>3. PICK N : N = 1 .. n
    OBVIOUS
  <1>4. f \in Surjection(N, T)
    BY <1>2, <1>3 DEF Surjection
  <1>5. IsFiniteSet(N)
    BY <1>3, FS_Interval
  <1>6. IsFiniteSet(T)
    BY <1>4, <1>5, FS_Surjection
  <1> QED  BY <1>0, <1>6 DEF Image

\* The fields that _finalize has extracted: those of S at their positions, then
\* key functions.
AtRank(I, n) == CHOOSE i \in I : Cardinality({j \in I : j <= i}) = n
Functions(k) == [i \in 1 .. k |-> Selector]
InOrder(S, used, k, fs) ==
    /\ Len(used) \in Nat /\ Len(fs) = Len(used) + k
    /\ \A f \in S : Position(used, f) \in Nat /\ fs[Position(used, f) + 1] = f
    /\ \A j \in 1 .. k : fs[Len(used) + j] = Selector
LEMMA FieldsInOrder ==
    ASSUME NEW S, S \subseteq Nat, IsFiniteSet(S), NEW used, used = Ascending(S),
           NEW k \in Nat, NEW fs, fs = used \o Functions(k)
    PROVE  InOrder(S, used, k, fs)
  <1>1. PICK c : c = Cardinality(S)
    OBVIOUS
  <1>2. c \in Nat /\ DOMAIN used = 1 .. c /\ \A f \in S : \E m \in 1 .. c : used[m] = f
    <2>1. S \subseteq Int
      OBVIOUS
    <2> QED  BY <1>1, <2>1, AscendingHas
  <1>3. PICK T : T = {used[i] : i \in 1 .. c} \cup {Selector}
    OBVIOUS
  <1>4. used \in [1 .. c -> T]
    <2>1. used = [m \in 1 .. c |-> AtRank(S, m)]
      BY <1>1, Zenon DEF Ascending, AtRank
    <2> QED  BY <1>2, <1>3, <2>1
  <1>5. used \in Seq(T) /\ Len(used) = c
    BY <1>2, <1>4, FunSeq
  <1>7. PICK q : q = Functions(k)
    OBVIOUS
  <1>8. q \in Seq(T) /\ Len(q) = k /\ \A j \in 1 .. k : q[j] = Selector
    <2>1. q \in [1 .. k -> T] /\ \A j \in 1 .. k : q[j] = Selector
      BY <1>3, <1>7 DEF Functions
    <2> QED  BY <2>1, FunSeq
  <1>9. fs = used \o q
    BY <1>7
  <1>10. Len(fs) = c + k /\ \A i \in 1 .. c + k : fs[i] = IF i <= c THEN used[i] ELSE q[i - c]
    <2>1. PICK p : p = used \o q
      OBVIOUS
    <2>2. /\ Len(p) = Len(used) + Len(q)
          /\ \A i \in 1 .. Len(used) + Len(q) : p[i] = IF i <= Len(used) THEN used[i] ELSE q[i - Len(used)]
      BY <1>5, <1>8, <2>1, ConcatProperties
    <2> QED  BY <1>5, <1>8, <1>9, <2>1, <2>2
  <1>11. ASSUME NEW f \in S PROVE Position(used, f) \in Nat /\ fs[Position(used, f) + 1] = f
    <2>1. PICK m \in 1 .. c : used[m] = f
      BY <1>2
    <2>2. m - 1 \in 0 .. Len(used) - 1 /\ used[(m - 1) + 1] = f
      BY <1>2, <1>5, <2>1
    <2>3. \E i \in 0 .. Len(used) - 1 : used[i + 1] = f
      BY <2>2
    <2>4. Position(used, f) \in 0 .. Len(used) - 1 /\ used[Position(used, f) + 1] = f
      BY <2>3, Zenon DEF Position
    <2>5. PICK p : p = Position(used, f)
      OBVIOUS
    <2>6. p \in 0 .. c - 1 /\ used[p + 1] = f
      BY <1>5, <2>4, <2>5
    <2>7. p + 1 \in 1 .. c + k /\ p + 1 <= c /\ p \in Nat
      BY <1>2, <2>6
    <2>8. fs[p + 1] = f
      BY <1>10, <2>6, <2>7
    <2> QED  BY <2>5, <2>7, <2>8
  <1>12. ASSUME NEW j \in 1 .. k PROVE fs[Len(used) + j] = Selector
    <2>1. c + j \in 1 .. c + k /\ ~(c + j <= c) /\ (c + j) - c = j
      BY <1>2
    <2>2. fs[c + j] = q[j]
      BY <1>10, <2>1, SMTT(30)
    <2> QED  BY <1>5, <1>8, <2>2
  <1> QED  BY <1>1, <1>2, <1>5, <1>10, <1>11, <1>12 DEF InOrder

\* What a SortedGrouping has extracted is what its keys and sorts name.
Restored(e, r, keys, sorts, n, fs, ks) ==
    /\ Len(fs) = n
    /\ [i \in DOMAIN ks |-> fs[ks[i] + 1]] = keys
    /\ \A s : Contains(sorts, s) => fs[NewField(e, r, s) + 1] = e.infos[s].field
LEMMA SortedFields ==
    ASSUME NEW e, NEW r, NEW keys, keys = e.infos[r].keys, Asks(keys),
           NEW sorts, sorts = e.infos[r].sorts, sorts \in Seq(1 .. New(e)),
           \A s : Contains(sorts, s) => e.infos[s].field \in Nat \cup {Selector},
           NEW used, used = UsedKeys(e, r),
           NEW n, n = FirstSort(e, r) + Len(SortFunctions(e, r)),
           NEW fs, fs = used \o Functions(n - Len(used)),
           NEW ks, ks = IF ByFunction(e, r) THEN <<Len(used)>>
                        ELSE [i \in DOMAIN keys |-> Position(used, keys[i])]
    PROVE  Restored(e, r, keys, sorts, n, fs, ks)
  <1>1. PICK A : A = IF ByFunction(e, r) THEN {} ELSE ToSet(keys)
    OBVIOUS
  <1>2. PICK B : B = {e.infos[s].field : s \in ToSet(sorts)}
    OBVIOUS
  <1>3. PICK S : S = A \cup (B \ {Selector})
    OBVIOUS
  <1>4. used = Ascending(S)
    BY <1>1, <1>2, <1>3, Zenon DEF UsedKeys
  <1>5. PICK L : L = Len(sorts)
    OBVIOUS
  <1>6. L \in Nat /\ DOMAIN sorts = 1 .. L /\ \A k \in 1 .. L : Contains(sorts, sorts[k])
    BY <1>5 DEF Contains
  <1>7. \A s : Contains(sorts, s) => \E k \in 1 .. L : sorts[k] = s
    BY <1>5 DEF Contains
  <1>8. ByFunction(e, r) <=> keys[1] = Selector
    BY DEF ByFunction
  <1>9. ByFunction(e, r) => keys = <<Selector>>
    <2>1. keys \in Seq(Nat) /\ keys # <<>> => keys[1] \in Nat
      <3>1. SUFFICES ASSUME keys \in Seq(Nat), keys # <<>> PROVE keys[1] \in Nat
        OBVIOUS
      <3>2. Len(keys) \in Nat /\ Len(keys) # 0
        BY <3>1
      <3>3. 1 \in 1 .. Len(keys)
        BY <3>2
      <3> QED  BY <3>1, <3>3
    <2>2. Selector \notin Nat
      BY DEF Selector
    <2> QED  BY <1>8, <2>1, <2>2 DEF Asks
  <1>10. ~ByFunction(e, r) => keys \in Seq(Nat)
    BY <1>8 DEF Asks
  <1>11. A \subseteq Nat /\ IsFiniteSet(A)
    <2>1. CASE ByFunction(e, r)
      BY <1>1, <2>1, FS_EmptySet
    <2>2. CASE ~ByFunction(e, r)
      <3>1. PICK m : m = Len(keys)
        OBVIOUS
      <3>2. A = {keys[i] : i \in 1 .. m} /\ m \in Nat /\ A \subseteq Nat
        <4>1. keys \in Seq(Nat)
          BY <1>10, <2>2
        <4>2. DOMAIN keys = 1 .. m /\ m \in Nat /\ \A i \in 1 .. m : keys[i] \in Nat
          BY ONLY <3>1, <4>1
        <4>3. A = {keys[i] : i \in DOMAIN keys}
          BY <1>1, <2>2, Zenon DEF ToSet
        <4> QED  BY <4>2, <4>3
      <3>3. IsFiniteSet(Image(keys, m))
        BY <3>2, ImageFinite
      <3> QED  BY <3>2, <3>3 DEF Image
    <2> QED  BY <2>1, <2>2
  <1>12. B \subseteq Nat \cup {Selector} /\ IsFiniteSet(B)
    <2>1. PICK v : v = [k \in 1 .. L |-> e.infos[sorts[k]].field]
      OBVIOUS
    <2>2. ToSet(sorts) = {sorts[k] : k \in 1 .. L}
      BY <1>6 DEF ToSet
    <2>3. B = {v[k] : k \in 1 .. L}
      BY <1>2, <2>1, <2>2, SMTT(30)
    <2>4. IsFiniteSet(B)
      <3>1. IsFiniteSet(Image(v, L))
        BY <1>6, ImageFinite
      <3> QED  BY <2>3, <3>1 DEF Image
    <2>5. \A k \in 1 .. L : v[k] \in Nat \cup {Selector}
      BY <1>6, <2>1
    <2> QED  BY <2>3, <2>4, <2>5
  <1>13. S \subseteq Nat /\ IsFiniteSet(S)
    <2>1. IsFiniteSet(A \cup B)
      BY <1>11, <1>12, FS_Union
    <2>2. S \subseteq A \cup B /\ S \subseteq Nat
      BY <1>3, <1>11, <1>12
    <2>3. PICK U : U = A \cup B
      OBVIOUS
    <2>4. IsFiniteSet(U) /\ S \subseteq U
      BY <2>1, <2>2, <2>3
    <2>5. IsFiniteSet(S)
      BY <2>4, FS_Subset
    <2> QED  BY <2>2, <2>5
  <1>14. PICK K : K = {k \in DOMAIN sorts : e.infos[sorts[k]].field = Selector}
    OBVIOUS
  <1>15. K \subseteq Int /\ IsFiniteSet(K) /\ Cardinality(K) \in Nat
    <2>1. PICK N : N = 1 .. L
      OBVIOUS
    <2>2. K \subseteq N /\ N \subseteq Int
      BY <1>6, <1>14, <2>1
    <2>3. IsFiniteSet(N)
      BY <1>6, <2>1, FS_Interval
    <2>4. IsFiniteSet(K)
      BY <2>2, <2>3, FS_Subset
    <2> QED  BY <2>2, <2>4, FS_CardinalityType
  <1>16. PICK ksl : ksl = SortFunctions(e, r)
    OBVIOUS
  <1>17. PICK c : c = Cardinality(K)
    OBVIOUS
  <1>18. ksl = Picked(sorts, K)
    BY <1>14, <1>16, Zenon DEF SortFunctions
  <1>19. DOMAIN ksl = 1 .. c /\ Len(ksl) = c
    <2>1. PICK T : T = {sorts[Ascending(K)[m]] : m \in 1 .. c}
      OBVIOUS
    <2>2. ksl \in [1 .. c -> T]
      BY <1>17, <1>18, <2>1 DEF Picked
    <2> QED  BY <1>15, <1>17, <2>2, FunSeq
  <1>20. PICK b : b = IF ByFunction(e, r) THEN 1 ELSE 0
    OBVIOUS
  <1>21. b \in Nat /\ FirstSort(e, r) = Len(used) + b
    BY <1>20 DEF FirstSort
  <1>22. Len(used) \in Nat
    <2>1. PICK q : q = used \o Functions(0)
      OBVIOUS
    <2>2. InOrder(S, used, 0, q)
      BY <1>4, <1>13, <2>1, FieldsInOrder
    <2> QED  BY <2>2 DEF InOrder
  <1>23. n = Len(used) + (b + c) /\ b + c \in Nat
    BY <1>15, <1>16, <1>17, <1>19, <1>21, <1>22
  <1>24. /\ Len(fs) = n
         /\ \A f \in S : Position(used, f) \in Nat /\ fs[Position(used, f) + 1] = f
         /\ \A j \in 1 .. b + c : fs[Len(used) + j] = Selector
    <2>1. PICK k : k = b + c
      OBVIOUS
    <2>2. k \in Nat /\ n = Len(used) + k /\ n - Len(used) = k
      BY <1>22, <1>23, <2>1
    <2>3. /\ Len(fs) = Len(used) + k
          /\ \A f \in S : Position(used, f) \in Nat /\ fs[Position(used, f) + 1] = f
          /\ \A j \in 1 .. k : fs[Len(used) + j] = Selector
      <3>1. fs = used \o Functions(k)
        BY <2>2
      <3>2. InOrder(S, used, k, fs)
        BY <1>4, <1>13, <2>2, <3>1, FieldsInOrder
      <3> QED  BY <3>2 DEF InOrder
    <2> QED  BY <2>1, <2>2, <2>3
  <1>25. [i \in DOMAIN ks |-> fs[ks[i] + 1]] = keys
    <2>1. CASE ByFunction(e, r)
      <3>1. ks = <<Len(used)>> /\ keys = <<Selector>> /\ b = 1
        BY <1>9, <1>20, <2>1
      <3>2. fs[Len(used) + 1] = Selector
        <4>1. 1 \in 1 .. b + c
          BY <1>15, <1>17, <3>1
        <4> QED  BY <1>24, <4>1
      <3>3. PICK u : u = Len(used)
        OBVIOUS
      <3>4. DOMAIN ks = {1} /\ ks[1] = u /\ fs[u + 1] = Selector
        <4>1. ks = <<u>>
          BY <3>1, <3>3
        <4>2. fs[u + 1] = Selector
          BY <3>2, <3>3
        <4>3. DOMAIN ks = 1 .. 1 /\ ks[1] = u
          BY <4>1
        <4>4. 1 .. 1 = {1}
          BY SMTT(30)
        <4> QED  BY <4>2, <4>3, <4>4
      <3>5. [i \in DOMAIN ks |-> fs[ks[i] + 1]] = [i \in {1} |-> Selector]
        BY <3>4
      <3>6. keys = [i \in {1} |-> Selector]
        BY <3>1
      <3> QED  BY <3>5, <3>6
    <2>2. CASE ~ByFunction(e, r)
      <3>1. ks = [i \in DOMAIN keys |-> Position(used, keys[i])]
        BY <2>2
      <3>2. \A i \in DOMAIN keys : keys[i] \in S
        BY <1>1, <1>3, <2>2, SMTT(30) DEF ToSet
      <3>3. \A i \in DOMAIN keys : fs[ks[i] + 1] = keys[i]
        BY <1>24, <3>1, <3>2
      <3>4. keys = [i \in DOMAIN keys |-> keys[i]]
        BY <1>10, <2>2
      <3> QED  BY <3>1, <3>3, <3>4
    <2> QED  BY <2>1, <2>2
  <1>26. ASSUME NEW s, Contains(sorts, s) PROVE fs[NewField(e, r, s) + 1] = e.infos[s].field
    <2>1. PICK k \in 1 .. L : sorts[k] = s
      BY <1>7, <1>26
    <2>2. CASE e.infos[s].field # Selector
      <3>1. PICK f : f = e.infos[s].field
        OBVIOUS
      <3>2. f \in S
        BY <1>2, <1>3, <1>6, <2>1, <2>2, <3>1 DEF ToSet
      <3>3. NewField(e, r, s) = Position(used, f)
        BY <2>2, <3>1, Zenon DEF NewField
      <3> QED  BY <1>24, <3>1, <3>2, <3>3
    <2>3. CASE e.infos[s].field = Selector
      <3>1. k \in K
        BY <1>6, <1>14, <2>1, <2>3
      <3>2. \E m \in 1 .. c : ksl[m] = s
        <4>1. \E m \in 1 .. Cardinality(K) : Picked(sorts, K)[m] = sorts[k]
          BY ONLY <1>15, <3>1, PickedHas
        <4> QED  BY <1>17, <1>18, <2>1, <4>1
      <3>3. PICK m : m = CHOOSE i \in DOMAIN ksl : ksl[i] = s
        OBVIOUS
      <3>4. m \in 1 .. c
        BY <1>19, <3>2, <3>3, Zenon
      <3>5. NewField(e, r, s) = FirstSort(e, r) + m - 1
        BY <1>16, <2>3, <3>3, Zenon DEF NewField
      <3>6. NewField(e, r, s) + 1 = Len(used) + (b + m) /\ b + m \in 1 .. b + c
        BY <1>15, <1>17, <1>21, <1>22, <3>4, <3>5
      <3> QED  BY <1>24, <2>3, <3>6
    <2> QED  BY <2>2, <2>3
  <1> QED  BY <1>23, <1>24, <1>25, <1>26 DEF Restored

LEMMA RekeyFinalized ==
    ASSUME NEW e, Shaped(e), NEW r, Root(e, r), PreOK(e, r), NEW fs, NEW n, NEW ks
    PROVE  LET d == Rekey(e, r, fs, n, ks)
               p == e.infos[r].parent
           IN  /\ Finalized(e, d, r, {r})
               /\ d.infos[r].keys = ks
               /\ d.infos[p].operator = Extract(fs) /\ d.infos[p].types = KeyValueType(n)
  <1>1. PICK p : p = e.infos[r].parent
    OBVIOUS
  <1>2. PICK d1 : d1 = WithField(e, p, "operator", Extract(fs))
    OBVIOUS
  <1>3. PICK d2 : d2 = WithField(d1, p, "types", KeyValueType(n))
    OBVIOUS
  <1>4. PICK d3 : d3 = WithField(d2, r, "keys", ks)
    OBVIOUS
  <1>5. PICK k : k = e.infos[r].finals + 1
    OBVIOUS
  <1>6. PICK d : d = WithField(d3, r, "finals", k)
    OBVIOUS
  <1>7. Rekey(e, r, fs, n, ks) = d
    BY <1>1, <1>2, <1>3, <1>4, <1>5, <1>6, Zenon DEF Rekey, WithField
  <1>8. /\ p \in 1 .. New(e) /\ r \in 1 .. New(e) /\ p # r
        /\ \A h : Root(e, h) /\ e.infos[h].parent = p => h = r
    BY <1>1 DEF PreOK, Root, Grouping
  <1>9. IsSet(e, d1, p, "operator", Extract(fs))
    BY <1>2, FieldSet DEF Fields
  <1>10. IsSet(d1, d2, p, "types", KeyValueType(n))
    BY <1>3, <1>9, FieldSet DEF Fields, IsSet
  <1>11. IsSet(d2, d3, r, "keys", ks)
    BY <1>4, <1>10, FieldSet DEF Fields, IsSet
  <1>12. IsSet(d3, d, r, "finals", k)
    BY <1>6, <1>11, FieldSet DEF Fields, IsSet
  <1>13. Shaped(d) /\ New(d) = New(e)
    BY <1>9, <1>10, <1>11, <1>12 DEF IsSet
  <1>14. \A j \in 1 .. New(e) : j # p /\ j # r => d.infos[j] = e.infos[j]
    BY <1>9, <1>10, <1>11, <1>12 DEF IsSet
  <1>15. PICK v : v = e.infos[p]
    OBVIOUS
  <1>16. PICK v1 : v1 = InfoField(v, "operator", Extract(fs))
    OBVIOUS
  <1>17. d.infos[p] = InfoField(v1, "types", KeyValueType(n))
    BY <1>8, <1>9, <1>10, <1>11, <1>12, <1>15, <1>16 DEF IsSet
  <1>18. PICK w : w = e.infos[r]
    OBVIOUS
  <1>19. PICK w1 : w1 = InfoField(w, "keys", ks)
    OBVIOUS
  <1>20. d.infos[r] = InfoField(w1, "finals", k)
    BY <1>8, <1>9, <1>10, <1>11, <1>12, <1>18, <1>19 DEF IsSet
  <1>21. DOMAIN v = Fields /\ DOMAIN w = Fields
    BY <1>8, <1>15, <1>18 DEF Shaped
  <1>22. /\ Kept(v, d.infos[p]) /\ AsGrouping(v, d.infos[p])
         /\ d.infos[p].operator = Extract(fs) /\ d.infos[p].types = KeyValueType(n)
    <2>1. DOMAIN v1 = Fields /\ Kept(v, v1) /\ AsGrouping(v, v1) /\ v1.operator = Extract(fs)
      BY <1>16, <1>21 DEF InfoField, Fields, Kept, AsGrouping
    <2> QED  BY <1>17, <2>1 DEF InfoField, Fields, Kept, AsGrouping
  <1>23. /\ Kept(w, d.infos[r]) /\ AsHidden(w, d.infos[r])
         /\ d.infos[r].keys = ks /\ d.infos[r].finals = k /\ d.infos[r].field = w.field
    <2>1. DOMAIN w1 = Fields /\ Kept(w, w1) /\ AsHidden(w, w1) /\ w1.keys = ks /\ w1.field = w.field
      BY <1>19, <1>21 DEF InfoField, Fields, Kept, AsHidden
    <2> QED  BY <1>20, <2>1 DEF InfoField, Fields, Kept, AsHidden
  <1>24. ASSUME NEW j \in 1 .. New(e)
         PROVE  /\ Kept(e.infos[j], d.infos[j])
                /\ j # p => AsHidden(e.infos[j], d.infos[j])
                /\ j # r => AsGrouping(e.infos[j], d.infos[j])
    <2>1. CASE j = p
      BY <1>15, <1>22, <2>1
    <2>2. CASE j = r
      BY <1>18, <1>23, <2>2
    <2>3. CASE j # p /\ j # r
      BY <1>14, <2>3 DEF Kept, AsHidden, AsGrouping
    <2> QED  BY <2>1, <2>2, <2>3
  <1>25. Finalized(e, d, r, {r})
    BY <1>1, <1>5, <1>13, <1>23, <1>24 DEF Finalized
  <1> QED  BY <1>1, <1>7, <1>22, <1>23, <1>25

Refielded(e, d, g, r, X) ==
    /\ Finalized(e, g, r, X)
    /\ g.infos[r] = d.infos[r] /\ g.infos[e.infos[r].parent] = d.infos[e.infos[r].parent]
    /\ \A s : Contains(e.infos[r].sorts, s) => g.infos[s].field = NewField(e, r, s)
LEMMA RefieldFinalized ==
    ASSUME NEW e, Shaped(e), NEW r, Root(e, r), RootOK(e, r), NEW d, Finalized(e, d, r, {r}),
           NEW X, \A s : s \in X <=> s = r \/ Contains(e.infos[r].sorts, s)
    PROVE  Refielded(e, d, Refield(e, d, r), r, X)
  <1>1. PICK t : t = d.infos
    OBVIOUS
  <1>2. PICK u : u = [i \in Known(d) |->
        IF Contains(e.infos[r].sorts, i)
        THEN [t[i] EXCEPT !.field = NewField(e, r, i), !.finals = @ + 1] ELSE t[i]]
    OBVIOUS
  <1>3. PICK g : g = WithInfos(d, u)
    OBVIOUS
  <1>4. Refield(e, d, r) = g
    BY <1>1, <1>2, <1>3, Zenon DEF Refield, WithInfos
  <1>5. Shaped(d) /\ New(d) = New(e) /\ New(e) \in Nat /\ Known(d) = 1 .. New(e)
    BY ShapedLen DEF Finalized
  <1>6. PICK p : p = e.infos[r].parent
    OBVIOUS
  <1>7. \A s : Contains(e.infos[r].sorts, s) => s \in 1 .. New(e) /\ s # r /\ s # p
    BY <1>6 DEF RootOK, PreOK, Root, Sorting, Grouping
  <1>8. r \in 1 .. New(e) /\ p \in 1 .. New(e)
    BY <1>6 DEF RootOK, PreOK, Root, Grouping
  <1>9. ASSUME NEW j \in 1 .. New(e), ~Contains(e.infos[r].sorts, j) PROVE u[j] = t[j]
    BY <1>2, <1>5, <1>9
  <1>10. ASSUME NEW j \in 1 .. New(e), Contains(e.infos[r].sorts, j)
         PROVE  /\ DOMAIN u[j] = Fields /\ Kept(t[j], u[j]) /\ AsHidden(t[j], u[j])
                /\ u[j].field = NewField(e, r, j) /\ u[j].finals = t[j].finals + 1
    <2>1. PICK f : f = NewField(e, r, j)
      OBVIOUS
    <2>2. u[j] = [t[j] EXCEPT !.field = f, !.finals = @ + 1]
      BY <1>2, <1>5, <1>10, <2>1, Zenon
    <2>3. DOMAIN t[j] = Fields
      BY <1>1, <1>5 DEF Shaped
    <2> QED  BY <2>1, <2>2, <2>3 DEF Fields, Kept, AsHidden
  <1>11. Shaped(g) /\ New(g) = New(e) /\ g.infos = u
    <2>1. PICK T : T = {u[i] : i \in 1 .. New(e)}
      OBVIOUS
    <2>2. u \in [1 .. New(e) -> T]
      BY <1>2, <1>5, <2>1
    <2>3. u \in Seq(T) /\ Len(u) = New(e)
      BY <1>5, <2>2, FunSeq
    <2>4. SomeSeq(u)
      BY <2>3 DEF SomeSeq
    <2>5. g.infos = u /\ DOMAIN g = EnvFields
      BY <1>3, <1>5 DEF WithInfos, Shaped, EnvFields
    <2>6. \A j \in 1 .. New(e) : DOMAIN u[j] = Fields
      BY <1>1, <1>5, <1>9, <1>10 DEF Shaped
    <2> QED  BY <2>3, <2>4, <2>5, <2>6 DEF Shaped, New
  <1>12. ASSUME NEW j \in 1 .. New(e)
         PROVE  /\ Kept(e.infos[j], g.infos[j])
                /\ j # p => AsHidden(e.infos[j], g.infos[j])
                /\ j \notin X => AsGrouping(e.infos[j], g.infos[j])
                /\ j \in X => g.infos[j].finals = e.infos[j].finals + 1
    <2>1. /\ Kept(e.infos[j], t[j])
          /\ j # p => AsHidden(e.infos[j], t[j])
          /\ j # r => AsGrouping(e.infos[j], t[j])
          /\ j = r => t[j].finals = e.infos[j].finals + 1
      BY <1>1, <1>6 DEF Finalized
    <2>2. CASE Contains(e.infos[r].sorts, j)
      BY <1>7, <1>10, <1>11, <2>1, <2>2 DEF Kept, AsHidden, AsGrouping
    <2>3. CASE ~Contains(e.infos[r].sorts, j)
      <3>1. g.infos[j] = t[j] /\ (j \in X <=> j = r)
        BY <1>9, <1>11, <2>3
      <3> QED  BY <2>1, <3>1
    <2> QED  BY <2>2, <2>3
  <1>13. Finalized(e, g, r, X)
    BY <1>6, <1>11, <1>12 DEF Finalized
  <1>14. g.infos[r] = d.infos[r] /\ g.infos[p] = d.infos[p]
    BY <1>1, <1>7, <1>8, <1>9, <1>11
  <1>15. \A s : Contains(e.infos[r].sorts, s) => g.infos[s].field = NewField(e, r, s)
    BY <1>7, <1>10, <1>11
  <1> QED  BY <1>4, <1>6, <1>13, <1>14, <1>15 DEF Refielded

LEMMA UnsortedGroups ==
    ASSUME NEW e, Shaped(e), Groups(e), NEW r, Root(e, r)
    PROVE  LET d == FinalizeUnsorted(e, r) IN
           Groups(d) /\ Shaped(d) /\ New(d) = New(e) /\ Usable(d, r)
  <1>1. PICK keys : keys = e.infos[r].keys
    OBVIOUS
  <1>2. PICK fs : fs = IF keys[1] = Selector THEN <<Selector>> ELSE keys
    OBVIOUS
  <1>3. PICK n : n = Len(keys)
    OBVIOUS
  <1>4. PICK ks : ks = Upto(n)
    OBVIOUS
  <1>5. PICK d : d = Rekey(e, r, fs, n, ks)
    OBVIOUS
  <1>6. FinalizeUnsorted(e, r) = d
    BY <1>1, <1>2, <1>3, <1>4, <1>5, Zenon DEF FinalizeUnsorted
  <1>7. RootOK(e, r) /\ r \in 1 .. New(e)
    BY DEF Groups, Root, Grouping
  <1>8. PICK p : p = e.infos[r].parent
    OBVIOUS
  <1>9. /\ Finalized(e, d, r, {r}) /\ d.infos[r].keys = ks
        /\ d.infos[p].operator = Extract(fs) /\ d.infos[p].types = KeyValueType(n)
    <2>1. PreOK(e, r)
      BY <1>7 DEF RootOK
    <2> QED  BY <1>5, <1>8, <2>1, RekeyFinalized
  <1>10. d.infos[r].parent = p /\ d.infos[r].asked = e.infos[r].asked
    BY <1>7, <1>8, <1>9 DEF Finalized, Kept
  <1>11. Lifted(d, r) = fs
    BY <1>9, <1>10 DEF Lifted, Extract
  <1>12. ASSUME e.infos[r].finals = 0 PROVE KeysTrue(d, r)
    <2>1. keys = e.infos[r].asked /\ Asks(keys)
      BY <1>1, <1>7, <1>12 DEF RootOK
    <2>2. fs = keys /\ n \in Nat /\ keys = [i \in 1 .. n |-> keys[i]]
      <3>1. CASE keys = <<Selector>>
        <4>1. keys[1] = Selector /\ keys \in Seq({Selector})
          BY <3>1
        <4>2. fs = keys
          BY <1>2, <3>1, <4>1
        <4> QED  BY <1>3, <4>1, <4>2
      <3>2. CASE keys \in Seq(Nat) \ {<<>>}
        <4>1. Len(keys) \in Nat /\ Len(keys) # 0
          BY <3>2
        <4>2. 1 \in 1 .. Len(keys)
          BY <4>1
        <4>3. keys[1] \in Nat
          BY <3>2, <4>2
        <4>4. keys[1] # Selector
          BY <4>3 DEF Selector
        <4> QED  BY <1>2, <1>3, <3>2, <4>1, <4>4
      <3> QED  BY <2>1, <3>1, <3>2 DEF Asks
    <2>3. DOMAIN ks = 1 .. n /\ \A i \in 1 .. n : ks[i] + 1 = i
      BY <1>4, <2>2 DEF Upto
    <2>4. [i \in DOMAIN ks |-> fs[ks[i] + 1]] = keys
      BY <2>2, <2>3
    <2>5. [i \in DOMAIN d.infos[r].keys |-> Lifted(d, r)[d.infos[r].keys[i] + 1]] = d.infos[r].asked
      BY <1>9, <1>10, <1>11, <2>1, <2>4
    <2>6. d.infos[d.infos[r].parent].types = KeyValueType(Len(Lifted(d, r)))
      BY <1>3, <1>9, <1>10, <1>11, <2>2
    <2> QED  BY <2>5, <2>6 DEF KeysTrue
  <1>13. NamedNow(e, d, r, {r})
    BY <1>12 DEF NamedNow
  <1>14. Groups(d) /\ Usable(d, r)
    <2>1. PICK X : X = {r}
      OBVIOUS
    <2>2. Groups(d) /\ \A s \in X : Usable(d, s)
      BY <1>9, <1>13, <2>1, FinalizedGroups
    <2> QED  BY <2>1, <2>2
  <1> QED  BY <1>6, <1>9, <1>14 DEF Finalized

LEMMA SortedGroups ==
    ASSUME NEW e, Typed(e), Groups(e), NEW r, Root(e, r)
    PROVE  LET d == FinalizeSorted(e, r) IN
           /\ Groups(d) /\ Shaped(d) /\ New(d) = New(e)
           /\ \A s : Contains(e.infos[r].sorts, s) => Usable(d, s)
  <1>1. PICK keys : keys = e.infos[r].keys
    OBVIOUS
  <1>2. PICK sorts : sorts = e.infos[r].sorts
    OBVIOUS
  <1>3. PICK used : used = UsedKeys(e, r)
    OBVIOUS
  <1>4. PICK n : n = FirstSort(e, r) + Len(SortFunctions(e, r))
    OBVIOUS
  <1>5. PICK fs : fs = used \o [i \in 1 .. n - Len(used) |-> Selector]
    OBVIOUS
  <1>6. PICK ks : ks = IF ByFunction(e, r) THEN <<Len(used)>>
                ELSE [i \in DOMAIN e.infos[r].keys |-> Position(used, e.infos[r].keys[i])]
    OBVIOUS
  <1>7. PICK m : m = Rekey(e, r, fs, n, ks)
    OBVIOUS
  <1>8. PICK d : d = Refield(e, m, r)
    OBVIOUS
  <1>9. FinalizeSorted(e, r) = d
    BY <1>3, <1>4, <1>5, <1>6, <1>7, <1>8, ZenonT(60) DEF FinalizeSorted, Refield
  <1>9a. fs = used \o Functions(n - Len(used))
    BY <1>5, Zenon DEF Functions
  <1>9b. ks = IF ByFunction(e, r) THEN <<Len(used)>>
              ELSE [i \in DOMAIN keys |-> Position(used, keys[i])]
    BY <1>1, <1>6
  <1>10. RootOK(e, r) /\ r \in 1 .. New(e) /\ Shaped(e)
    BY TypedShaped DEF Groups, Root, Grouping
  <1>11. PICK p : p = e.infos[r].parent
    OBVIOUS
  <1>12. /\ Finalized(e, m, r, {r}) /\ m.infos[r].keys = ks
         /\ m.infos[p].operator = Extract(fs) /\ m.infos[p].types = KeyValueType(n)
    <2>1. PreOK(e, r)
      BY <1>10 DEF RootOK
    <2> QED  BY <1>7, <1>10, <1>11, <2>1, RekeyFinalized
  <1>13. PICK X : X = {r} \cup {s \in 1 .. New(e) : Contains(sorts, s)}
    OBVIOUS
  <1>14. \A s : Contains(sorts, s) => s \in 1 .. New(e) /\ Sorting(e, s) /\ SortOK(e, s) /\ e.infos[s].group = r
    <2>1. ASSUME NEW s, Contains(sorts, s)
          PROVE  s \in 1 .. New(e) /\ Sorting(e, s) /\ SortOK(e, s) /\ e.infos[s].group = r
      <3>1. Sorting(e, s) /\ e.infos[s].group = r
        BY <1>2, <1>10, <2>1 DEF RootOK
      <3> QED  BY <3>1 DEF Groups, Sorting, Grouping
    <2> QED  BY <2>1
  <1>15. \A s : s \in X <=> s = r \/ Contains(sorts, s)
    BY <1>13, <1>14
  <1>16. /\ Finalized(e, d, r, X) /\ d.infos[r] = m.infos[r] /\ d.infos[p] = m.infos[p]
         /\ \A s : Contains(sorts, s) => d.infos[s].field = NewField(e, r, s)
    <2>1. \A s : s \in X <=> s = r \/ Contains(e.infos[r].sorts, s)
      BY <1>2, <1>15
    <2>2. /\ Finalized(e, d, r, X) /\ d.infos[r] = m.infos[r] /\ d.infos[p] = m.infos[p]
          /\ \A s : Contains(e.infos[r].sorts, s) => d.infos[s].field = NewField(e, r, s)
      <3>1. Refielded(e, m, d, r, X)
        BY <1>8, <1>10, <1>12, <2>1, RefieldFinalized
      <3> QED  BY <1>11, <3>1 DEF Refielded
    <2> QED  BY <1>2, <2>2
  <1>17. d.infos[r].parent = p /\ d.infos[r].asked = e.infos[r].asked
    BY <1>10, <1>11, <1>16 DEF Finalized, Kept
  <1>18. Lifted(d, r) = fs
    BY <1>12, <1>16, <1>17 DEF Lifted, Extract
  <1>19. ASSUME e.infos[r].finals = 0
         PROVE  /\ KeysTrue(d, r)
                /\ \A s \in X : s # r => Lifted(d, r)[d.infos[s].field + 1] = e.infos[s].asked[1]
    <2>1. keys = e.infos[r].asked /\ Asks(keys)
      BY <1>1, <1>10, <1>19 DEF RootOK
    <2>2. \A s : Contains(sorts, s) => /\ e.infos[s].field = e.infos[s].asked[1]
                                       /\ e.infos[s].field \in Nat \cup {Selector}
      <3>1. ASSUME NEW s, Contains(sorts, s)
            PROVE  /\ e.infos[s].field = e.infos[s].asked[1]
                   /\ e.infos[s].field \in Nat \cup {Selector}
        <4>1. FieldTrue(e, s, r)
          BY <1>14, <3>1 DEF SortOK
        <4>2. e.infos[s].field = e.infos[s].asked[1]
          BY <1>19, <4>1 DEF FieldTrue
        <4>3. PICK f \in Nat \cup {Selector} : e.infos[s].asked = <<f>>
          BY <4>1 DEF FieldTrue
        <4> QED  BY <4>2, <4>3
      <3> QED  BY <3>1
    <2>3. sorts \in Seq(1 .. New(e))
      BY <1>2, <1>10 DEF Typed, InfoOK
    <2>4. /\ Len(fs) = n
          /\ [i \in DOMAIN ks |-> fs[ks[i] + 1]] = keys
          /\ \A s : Contains(sorts, s) => fs[NewField(e, r, s) + 1] = e.infos[s].field
      <3>1. Restored(e, r, keys, sorts, n, fs, ks)
        BY <1>1, <1>2, <1>3, <1>4, <1>9a, <1>9b, <2>1, <2>2, <2>3, SortedFields
      <3> QED  BY <3>1 DEF Restored
    <2>5. [i \in DOMAIN d.infos[r].keys |-> Lifted(d, r)[d.infos[r].keys[i] + 1]] = d.infos[r].asked
      BY <1>12, <1>16, <1>17, <1>18, <2>1, <2>4
    <2>6. d.infos[d.infos[r].parent].types = KeyValueType(Len(Lifted(d, r)))
      BY <1>12, <1>16, <1>17, <1>18, <2>4
    <2>7. ASSUME NEW s \in X, s # r
          PROVE  Lifted(d, r)[d.infos[s].field + 1] = e.infos[s].asked[1]
      <3>1. Contains(sorts, s)
        BY <1>15, <2>7
      <3> QED  BY <1>16, <1>18, <2>2, <2>4, <3>1
    <2> QED  BY <2>5, <2>6, <2>7 DEF KeysTrue
  <1>20. NamedNow(e, d, r, X)
    BY <1>19 DEF NamedNow
  <1>21. Groups(d) /\ \A s \in X : Usable(d, s)
    BY <1>2, <1>10, <1>15, <1>16, <1>20, FinalizedGroups
  <1> QED  BY <1>2, <1>9, <1>15, <1>16, <1>21 DEF Finalized

LEMMA FinalizeGroups ==
    ASSUME NEW e, Typed(e), Groups(e), NEW g, Root(e, g) \/ Sorting(e, g)
    PROVE  LET d == Finalize(e, g) IN
           Groups(d) /\ Shaped(d) /\ New(d) = New(e) /\ Usable(d, g)
  <1>1. Shaped(e)
    BY TypedShaped
  <1>2. CASE Root(e, g)
    <2>1. PICK d : d = FinalizeUnsorted(e, g)
      OBVIOUS
    <2>2. Finalize(e, g) = d
      BY <1>2, <2>1 DEF Finalize, Root
    <2>3. Groups(d) /\ Shaped(d) /\ New(d) = New(e) /\ Usable(d, g)
      BY <1>1, <1>2, <2>1, UnsortedGroups
    <2> QED  BY <2>2, <2>3
  <1>3. CASE Sorting(e, g)
    <2>1. PICK r : r = e.infos[g].group
      OBVIOUS
    <2>2. PICK d : d = FinalizeSorted(e, r)
      OBVIOUS
    <2>3. Finalize(e, g) = d
      BY <1>3, <2>1, <2>2 DEF Finalize, Sorting
    <2>4. SortOK(e, g)
      BY <1>3 DEF Groups, Sorting, Grouping
    <2>5. Root(e, r) /\ Contains(e.infos[r].sorts, g)
      BY <2>1, <2>4 DEF SortOK
    <2>6. /\ Groups(d) /\ Shaped(d) /\ New(d) = New(e)
          /\ \A s : Contains(e.infos[r].sorts, s) => Usable(d, s)
      BY <2>2, <2>5, SortedGroups
    <2> QED  BY <2>3, <2>5, <2>6
  <1> QED  BY <1>2, <1>3

\* What is put below a grouping once _finalize has given it positions.
LEMMA GroupedBelowGroups ==
    ASSUME NEW e, Typed(e), Groups(e), NEW g, Root(e, g) \/ Sorting(e, g), NEW ident,
           NEW cls, cls # "grouping", NEW op
    PROVE  Groups(GroupedBelow(e, g, ident, cls, op))
  <1>1. PICK f : f = Finalize(e, g)
    OBVIOUS
  <1>2. PICK v : v = Info(ident, cls, g, op, ArrayType)
    OBVIOUS
  <1>3. PICK w : w = InfoField(v, "key1", f.infos[f.infos[g].group].keys)
    OBVIOUS
  <1>4. GroupedBelow(e, g, ident, cls, op) = Below(f, g, w)
    BY <1>1, <1>2, <1>3, Zenon DEF GroupedBelow, InfoField
  <1>5. Groups(f) /\ Shaped(f) /\ Usable(f, g)
    BY <1>1, FinalizeGroups
  <1>6. DOMAIN v = Fields /\ v.cls = cls /\ v.parent = g
    BY <1>2, InfoFields, SMTT(30)
  <1>7. DOMAIN w = Fields /\ w.cls = cls /\ w.parent = g
    BY <1>3, <1>6, InfoFieldFields DEF Fields
  <1>8. PICK d : d = Below(f, g, w)
    OBVIOUS
  <1>9. Grew(f, d, w)
    BY <1>5, <1>7, <1>8, BelowGrew
  <1>10. Quiet(f, d)
    BY <1>5, <1>7, <1>9, GrewQuiet
  <1> QED  BY <1>4, <1>5, <1>8, <1>10, QuietGroups

LEMMA GroupFirstGroups ==
    ASSUME NEW e, Typed(e), Groups(e), NEW g, Root(e, g) \/ Sorting(e, g)
    PROVE  Groups(GroupFirst(e, g))
  <1>1. PICK f : f = Finalize(e, g)
    OBVIOUS
  <1>2. PICK w : w = Info("first", "set", g, NoFun, NoType)
    OBVIOUS
  <1>3. PICK d : d = Below(f, g, w)
    OBVIOUS
  <1>4. GroupFirst(e, g) = d
    BY <1>1, <1>2, <1>3, Zenon DEF GroupFirst
  <1>5. Groups(f) /\ Shaped(f) /\ Usable(f, g)
    BY <1>1, FinalizeGroups
  <1>6. DOMAIN w = Fields /\ w.cls = "set" /\ w.parent = g
    BY <1>2, InfoFields
  <1>7. Grew(f, d, w)
    BY <1>3, <1>5, <1>6, BelowGrew
  <1>8. Quiet(f, d)
    BY <1>5, <1>6, <1>7, GrewQuiet
  <1> QED  BY <1>4, <1>5, <1>8, QuietGroups

\* Every method a script calls leaves groupings that name what the script named.
LEMMA GroupsStep ==
    ASSUME Inv, Script, Groups(env)
    PROVE  Groups(env')
  <1>1. PICK e : e = env
    BY Zenon
  <1>2. Script => phase = "build"
    BY DEF Script, ReadSources, OneInput, Finish, AddAggregation, Broadcast, BothInputs, OfPairs,
           Group, Grouped, Do
  <1>3. /\ Typed(e) /\ Shaped(e) /\ Building(e) /\ Groups(e) /\ Known(e) = 1 .. New(e)
        /\ menu \in Menus
    <2>1. Typed(e) /\ Building(e) /\ menu \in Menus
      BY <1>1, <1>2 DEF Inv, Whole, Scripting
    <2> QED  BY <1>1, <2>1, KnownLen, TypedShaped
  <1>4. \A cls, s : s \in Class(e, {cls}) /\ cls # "grouping" => Held(e, s) /\ e.infos[s].cls = cls
    BY <1>3 DEF Class, Held, Grouping
  <1>5. \A s \in DataSets(e) : Held(e, s)
    BY <1>3 DEF DataSets, Class, Held, Grouping
  <1>6. ASSUME NEW method, NEW d, Do(method, d), Quiet(e, d) \/ Groups(d) PROVE Groups(env')
    BY <1>1, <1>3, <1>6, QuietGroups DEF Do
  <1>7. CASE ReadSources
    <2>1. PICK ident : ident = menu.sources[Len(env.sources) + 1]
      OBVIOUS
    <2>2. Quiet(e, Source(e, ident))
      BY <1>3, SourceQuiet
    <2>3. env' = Source(e, ident)
      BY <1>1, <1>7, <2>1 DEF ReadSources
    <2> QED  BY <1>3, <2>2, <2>3, QuietGroups
  <1>8. CASE OneInput
    <2>1. PICK s \in DataSets(e) :
            \/ Do("map", Map(e, s, Udf(e), "op"))
            \/ Do("filter", Filter(e, s))
            \/ Do("flat_map", FlatMap(e, s))
            \/ Do("map_partition", MapPartition(e, s, Udf(e)))
            \/ Do("reduce", Reduce(e, s))
            \/ Do("reduce_group", ReduceGroup(e, s))
            \/ Do("aggregate", Aggregate(e, s))
            \/ Do("project", Project(e, s))
            \/ Do("first", First(e, s))
            \/ Do("rebalance", Rebalance(e, s))
            \/ Do("zip_with_index", ZipWithIndex(e, s))
            \/ \E k \in menu.keys : \/ Do("distinct", Distinct(e, s, k))
                                   \/ Do("partition_by_hash", PartitionByHash(e, s, k))
      BY <1>1, <1>8, Zenon DEF OneInput
    <2>2. Held(e, s)
      BY <1>5, <2>1
    <2>3. PICK op : op = Udf(e)
      OBVIOUS
    <2>4. Quiet(e, Map(e, s, op, "op"))
      BY <1>3, <2>2, MapQuiet
    <2>5. /\ Quiet(e, Filter(e, s)) /\ Quiet(e, FlatMap(e, s)) /\ Quiet(e, MapPartition(e, s, op))
          /\ Quiet(e, Reduce(e, s)) /\ Quiet(e, ReduceGroup(e, s)) /\ Quiet(e, Aggregate(e, s))
          /\ Quiet(e, Project(e, s)) /\ Quiet(e, First(e, s)) /\ Quiet(e, Rebalance(e, s))
      BY <1>3, <2>2, OneInputQuiet
    <2>6. Quiet(e, ZipWithIndex(e, s))
      BY <1>3, <2>2, ZipWithIndexQuiet
    <2>7. \A k : Quiet(e, Distinct(e, s, k)) /\ Quiet(e, PartitionByHash(e, s, k))
      BY <1>3, <2>2, KeyedQuiet DEF Distinct, PartitionByHash
    <2> QED  BY <1>6, <2>1, <2>3, <2>4, <2>5, <2>6, <2>7
  <1>9. CASE Finish
    BY <1>1, <1>3, <1>5, <1>6, <1>9, FinishQuiet DEF Finish
  <1>10. CASE AddAggregation
    <2>1. PICK s \in Class(e, {"agg"}) : Do("and_agg", AndAgg(e, s))
      BY <1>1, <1>10 DEF AddAggregation
    <2>2. e.infos[s].cls = "agg"
      BY <1>4, <2>1
    <2>3. Quiet(e, AndAgg(e, s))
      BY <1>3, <2>2, AndAggQuiet
    <2> QED  BY <1>6, <2>1, <2>3
  <1>11. CASE Broadcast
    <2>1. PICK s \in Class(e, {"op", "agg"}), o \in DataSets(e), n \in Names :
              Do("with_broadcast_set", WithBroadcast(e, s, n, o))
      BY <1>1, <1>11 DEF Broadcast
    <2>2. Held(e, s)
      BY <1>3, <2>1 DEF Class, Held, Grouping
    <2>3. Quiet(e, WithBroadcast(e, s, n, o))
      BY <1>3, <2>2, WithBroadcastQuiet
    <2> QED  BY <1>6, <2>1, <2>3
  <1>12. CASE BothInputs
    BY <1>1, <1>3, <1>5, <1>6, <1>12, CrossUnionQuiet, JoinQuiet, CoGroupQuiet DEF BothInputs
  <1>13. CASE OfPairs
    <2>1. PICK c \in Class(e, {"pair"}) : \/ Do("using", Using(e, c))
                                          \/ Do("project_first", Projector(e, c))
      BY <1>1, <1>13 DEF OfPairs
    <2>2. Held(e, c) /\ e.infos[c].cls = "pair"
      BY <1>4, <2>1
    <2>3. Quiet(e, Using(e, c))
      BY <1>3, <2>2, UsingQuiet
    <2>4. Quiet(e, Projector(e, c))
      <3>1. PICK op : op = Udf(e)
        OBVIOUS
      <3>2. Quiet(e, Map(e, c, op, "set"))
        BY <1>3, <2>2, MapQuiet
      <3> QED  BY <3>1, <3>2 DEF Projector
    <2> QED  BY <1>6, <2>1, <2>3, <2>4
  <1>14. CASE Group
    <2>1. PICK s \in DataSets(e), k \in menu.keys : Do("group_by", GroupBy(e, s, k))
      BY <1>1, <1>14 DEF Group
    <2>2. Asks(k)
      BY <1>3, <2>1, MenuAssumption DEF Asks
    <2>3. Held(e, s)
      BY <1>5, <2>1
    <2>4. Groups(GroupBy(e, s, k))
      BY <1>3, <2>2, <2>3, GroupByGroups
    <2> QED  BY <1>6, <2>1, <2>4
  <1>15. CASE Grouped
    <2>1. PICK g \in Class(e, {"grouping"}) :
            \/ \E f \in menu.sorts : Do("sort_group", SortGroup(e, g, f))
            \/ Do("g_first", GroupFirst(e, g))
            \/ Do("g_reduce_group", GroupReduceAll(e, g))
            \/ Do("g_reduce", GroupReduce(e, g))
            \/ Do("g_aggregate", GroupAggregate(e, g))
      BY <1>1, <1>15, Zenon DEF Grouped
    <2>2. Grouping(e, g)
      BY <1>3, <2>1 DEF Class, Grouping
    <2>3. Root(e, g) \/ Sorting(e, g)
      BY <1>3, <2>2 DEF Typed, InfoOK, ClassOK, Grouping, Root, Sorting
    <2>4. Root(e, g) => e.infos[g].group = g
      BY <1>3, <2>2 DEF Building, GroupFit, Grouping, Root
    <2>5. \A f \in menu.sorts : Groups(SortGroup(e, g, f))
      <3>1. \A f \in menu.sorts : f \in Nat \cup {Selector}
        BY <1>3, MenuAssumption
      <3> QED  BY <1>3, <2>2, <2>3, <2>4, <3>1, SortGroupGroups
    <2>6. /\ Groups(GroupFirst(e, g)) /\ Groups(GroupReduce(e, g))
          /\ Groups(GroupReduceAll(e, g)) /\ Groups(GroupAggregate(e, g))
      BY <1>3, <2>3, GroupFirstGroups, GroupedBelowGroups
         DEF GroupReduce, GroupReduceAll, GroupAggregate
    <2> QED  BY <1>6, <2>1, <2>5, <2>6
  <1> QED  BY <1>7, <1>8, <1>9, <1>10, <1>11, <1>12, <1>13, <1>14, <1>15 DEF Script

\* While the script runs, its groupings name what it named.
Faithful == phase = "build" => Groups(env)

LEMMA FaithfulInit == Init => Faithful
  <1> SUFFICES ASSUME Init PROVE Groups(env)
    BY DEF Faithful
  <1>1. env.infos = <<>>
    BY DEF Init, NoEnv
  <1>2. 1 .. New(env) = {}
    BY <1>1 DEF New
  <1> QED  BY <1>2 DEF Groups

LEMMA FaithfulNext == Inv /\ Faithful /\ [Next]_vars => Faithful'
  <1> SUFFICES ASSUME Inv, Faithful, [Next]_vars, phase' = "build" PROVE Groups(env')
    BY DEF Faithful
  <1>1. CASE Script
    <2>1. phase = "build"
      BY <1>1 DEF Script, ReadSources, OneInput, Finish, AddAggregation, Broadcast, BothInputs,
                  OfPairs, Group, Grouped, Do
    <2> QED  BY <1>1, <2>1, GroupsStep DEF Faithful
  <1>2. CASE Execute \/ SendPlan
    BY <1>2 DEF Execute, SendPlan
  <1>3. CASE FindChains
    BY <1>3 DEF FindChains
  <1>4. CASE UNCHANGED vars
    BY <1>4 DEF Faithful, vars
  <1> QED  BY <1>1, <1>2, <1>3, <1>4 DEF Next

\* What ReadsUserKeys says of reader c of a grouping that is used once.
KeysKept(e, c) ==
    LET p     == e.infos[c].parent
        root  == e.infos[p].group
        keys  == e.infos[e.infos[root].parent].operator[2]
        sorts == ToSet(e.infos[root].sorts)
        given == {s \in sorts : e.infos[s].finals # 0}
    IN  p # 0 /\ e.infos[p].cls = "grouping" /\ e.infos[root].finals = 1 =>
          /\ [i \in DOMAIN e.infos[root].keys |-> keys[e.infos[root].keys[i] + 1]]
                = e.infos[root].asked
          /\ \A s \in given : keys[e.infos[s].field + 1] = e.infos[s].asked[1]
          /\ \A s \in {p} \cup {e.infos[r].parent : r \in given} : s \in sorts => s \in given
          /\ e.infos[e.infos[root].parent].types = KeyValueType(Len(keys))

LEMMA GroupsKeepKeys ==
    ASSUME NEW e, Typed(e), Building(e), Groups(e), NEW c \in Class(e, {"op", "agg", "set"})
    PROVE  KeysKept(e, c)
  <1>1. Typed(e) /\ Shaped(e) /\ Building(e) /\ Groups(e) /\ Known(e) = 1 .. New(e)
    BY KnownLen, TypedShaped
  <1>2. PICK p : p = e.infos[c].parent
    OBVIOUS
  <1>3. PICK root : root = e.infos[p].group
    OBVIOUS
  <1>4. PICK sorts : sorts = ToSet(e.infos[root].sorts)
    OBVIOUS
  <1>5. PICK given : given = {s \in sorts : e.infos[s].finals # 0}
    OBVIOUS
  <1>6. ASSUME p # 0, e.infos[p].cls = "grouping", e.infos[root].finals = 1
        PROVE  /\ KeysTrue(e, root)
               /\ \A s \in given : Lifted(e, root)[e.infos[s].field + 1] = e.infos[s].asked[1]
               /\ \A s \in {p} \cup {e.infos[r].parent : r \in given} : s \in sorts => s \in given
    <2>1. c \in 1 .. New(e) /\ ~Grouping(e, c)
      BY <1>1 DEF Class, Grouping
    <2>2. Usable(e, p)
      BY <1>1, <1>2, <2>1 DEF Groups
    <2>3. Grouping(e, p)
      <3>1. New(e) \in Nat
        BY <1>1, ShapedLen
      <3> QED  BY <1>6, <2>2, <3>1 DEF Usable, Grouping
    <2>4. Root(e, p) \/ Sorting(e, p)
      BY <1>1, <2>3 DEF Typed, InfoOK, ClassOK, Grouping, Root, Sorting
    <2>5. \A s : Sorting(e, s) => SortOK(e, s)
      BY <1>1 DEF Groups, Sorting, Grouping
    <2>6. \A g : Root(e, g) => RootOK(e, g)
      BY <1>1 DEF Groups, Root, Grouping
    <2>7. Root(e, root)
      <3>1. CASE Root(e, p)
        BY <1>1, <1>3, <3>1 DEF Building, GroupFit, Grouping, Root
      <3>2. CASE Sorting(e, p)
        BY <1>3, <2>5, <3>2 DEF SortOK
      <3> QED  BY <2>4, <3>1, <3>2
    <2>8. RootOK(e, root)
      BY <2>6, <2>7
    <2>9. \A s \in sorts : Sorting(e, s) /\ e.infos[s].group = root
      <3>1. e.infos[root].sorts \in Seq(1 .. New(e))
        BY <1>1, <2>7 DEF Typed, InfoOK, Root, Grouping
      <3>2. \A s \in sorts : Contains(e.infos[root].sorts, s)
        BY <1>4, <3>1 DEF ToSet, Contains
      <3> QED  BY <2>8, <3>2 DEF RootOK
    <2>10. KeysTrue(e, root)
      BY <1>6, <2>8 DEF RootOK
    <2>11. ASSUME NEW s \in given
           PROVE  Lifted(e, root)[e.infos[s].field + 1] = e.infos[s].asked[1]
      <3>1. s \in sorts /\ e.infos[s].finals # 0
        BY <1>5
      <3>2. FieldTrue(e, s, root)
        BY <2>5, <2>9, <3>1 DEF SortOK
      <3> QED  BY <1>6, <3>1, <3>2 DEF FieldTrue
    <2>12. p \in sorts => p \in given
      BY <1>5, <2>2, <2>9 DEF Usable
    <2>13. ASSUME NEW r \in given, e.infos[r].parent \in sorts
           PROVE  e.infos[r].parent \in given
      <3>1. r \in sorts /\ e.infos[r].finals # 0
        BY <1>5
      <3>2. SortOK(e, r) /\ Sorting(e, e.infos[r].parent)
        BY <2>5, <2>9, <2>13, <3>1
      <3>3. e.infos[e.infos[r].parent].finals # 0
        BY <3>1, <3>2 DEF SortOK
      <3> QED  BY <1>5, <2>13, <3>3
    <2> QED  BY <2>10, <2>11, <2>12, <2>13
  <1>7. PICK keys : keys = e.infos[e.infos[root].parent].operator[2]
    OBVIOUS
  <1>8. ASSUME p # 0, e.infos[p].cls = "grouping", e.infos[root].finals = 1
        PROVE  /\ [i \in DOMAIN e.infos[root].keys |-> keys[e.infos[root].keys[i] + 1]]
                     = e.infos[root].asked
               /\ \A s \in given : keys[e.infos[s].field + 1] = e.infos[s].asked[1]
               /\ \A s \in {p} \cup {e.infos[r].parent : r \in given} : s \in sorts => s \in given
               /\ e.infos[e.infos[root].parent].types = KeyValueType(Len(keys))
    <2>1. keys = Lifted(e, root)
      BY <1>7 DEF Lifted
    <2> QED  BY <1>6, <1>8, <2>1, Zenon DEF KeysTrue
  <1> QED  BY <1>2, <1>3, <1>4, <1>5, <1>7, <1>8, Zenon DEF KeysKept

LEMMA FaithfulKeys == Inv /\ Faithful => GroupsOnUserKeys
  <1> SUFFICES ASSUME Inv, Faithful, phase = "build", NEW c \in GroupReaders,
                      env.infos[RootOf(c)].finals = 1
               PROVE  ReadsUserKeys(c)
    BY DEF GroupsOnUserKeys
  <1>1. Typed(env) /\ Building(env) /\ Groups(env)
    BY DEF Inv, Whole, Scripting, Faithful
  <1>2. /\ c \in Class(env, {"op", "agg", "set"})
        /\ env.infos[c].parent # 0 /\ env.infos[env.infos[c].parent].cls = "grouping"
    BY Zenon DEF GroupReaders
  <1>3. KeysKept(env, c)
    BY <1>1, <1>2, GroupsKeepKeys
  <1> QED  BY <1>2, <1>3, ZenonT(40) DEF ReadsUserKeys, RootOf, KeysKept

\* Whatever a script groups by, sorts by and puts below its groupings, and in which
\* order, what _finalize tells Java to group and sort by is what the script named
\* (DataSet.py, UnsortedGrouping and SortedGrouping), as long as a grouping is used once.
THEOREM GroupingsKeepKeys == Spec => []GroupsOnUserKeys
  <1>1. Faithful /\ []Inv /\ [][Next]_vars => []Faithful
    <2>1. Faithful /\ Inv /\ [Next]_vars => Faithful'
      BY FaithfulNext
    <2> QED  BY <2>1, PTL
  <1> QED  BY <1>1, FaithfulInit, FaithfulKeys, PlanInvariant, PTL DEF Spec

=============================================================================
