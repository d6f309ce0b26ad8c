------------------------- MODULE RankReportsProofs -------------------------
(***************************************************************************)
(* A report that is read page by page beside a job that goes on inserting  *)
(* is sound for any lines, questions, pages, failures and either engine:   *)
(* it is made of every row of its range that was there when the question   *)
(* was taken, of no other row, and of none twice.  A later report of the   *)
(* same question is no smaller, apart from the visitors.                   *)
(*                                                                         *)
(* Of the handlers themselves, for any table: ranges that meet add up, the *)
(* entry of a period says what its range says, finer periods refine        *)
(* coarser ones, and both engines answer alike.  Page views are numbers of *)
(* rows and times and costs sums over them; what is needed of such sums    *)
(* (Summed) is proved by induction over the subsets of a finite set, which *)
(* SubsetInduction states for a set of subsets in place of a predicate.    *)
(***************************************************************************)
EXTENDS RankReports, FiniteSetTheorems, TLAPS

-----------------------------------------------------------------------------
(* Keys and their order.                                                   *)

LEMMA KeyFields == \A k \in Keys : k.at \in Int /\ k.upd \in Int
  <1> TAKE k \in Keys
  <1>1. PICK l \in Lines, u \in Instants : k = Key(l, u)
    BY DEF Keys
  <1>2. Logged[l] \in Int /\ u \in Int
    BY LineAssumption
  <1>3. StoredAt(Logged[l]) \in Int
    BY <1>2 DEF StoredAt, Seconds
  <1> QED BY <1>1, <1>2, <1>3 DEF Key

LEMMA Irreflexive == \A k \in Keys : ~Precedes(k, k)
  BY KeyFields DEF Precedes

\* What does not come after k comes before whatever does.
LEMMA OrderCut ==
  \A i, j, k \in Keys : ~Precedes(k, i) /\ Precedes(k, j) => Precedes(i, j)
  BY KeyFields DEF Precedes

LEMMA KeyIn == \A l \in Lines, u \in Instants : Key(l, u) \in Keys
  BY DEF Keys

\* The query's where clause selects what the question asks for.
LEMMA Selects ==
  ASSUME NEW q \in Questions, NEW k \in Keys
  PROVE  InRange(k, q) <=> (k.owner = q.owner /\ k.at \in (q.from + 1) .. q.to)
  <1>1. q.from \in Int /\ q.to \in Int
    BY QuestionAssumption DEF Question
  <1> QED BY <1>1, KeyFields DEF InRange

-----------------------------------------------------------------------------
(* Types.                                                                  *)

LEMMA InitType == Init => TypeOK
  <1> SUFFICES ASSUME Init PROVE TypeOK
    OBVIOUS
  <1>1. DOMAIN table = {} /\ table \in [DOMAIN table -> Lines]
    BY DEF Init
  <1>2. mail \in Seq(Questions) /\ answers \in Seq(Answer)
    BY DEF Init
  <1> QED BY <1>1, <1>2, EngineAssumption DEF Init, TypeOK

LEMMA UnreadKeys == \A q : Unread(q) \subseteq DOMAIN table
  BY DEF Unread

LEMMA RowsType == ASSUME TypeOK, NEW ks \in SUBSET DOMAIN table PROVE RowsOf(ks) \subseteq Row
  BY DEF TypeOK, RowsOf, Row

LEMMA DoneType ==
  ASSUME TypeOK, mail # <<>>, NEW o \in {"report", "threw", "not_found", "ignored"}, Done(o)
  PROVE  /\ mail' \in Seq(Questions) /\ answers' \in Seq(Answer)
         /\ phase' = "idle" /\ counted' \subseteq Row /\ before' \subseteq Keys
  <1>1. mail \in Seq(Questions) /\ counted \subseteq Row /\ before \subseteq Keys
    BY DEF TypeOK
  <1>2. Head(mail) \in Questions /\ Tail(mail) \in Seq(Questions)
    BY <1>1
  <1>3. [q |-> Head(mail), outcome |-> o, rows |-> counted, before |-> before] \in Answer
    BY <1>1, <1>2 DEF Answer
  <1>4. answers' \in Seq(Answer)
    BY <1>3 DEF Done, TypeOK
  <1> QED BY <1>2, <1>4 DEF Done

LEMMA NextType == TypeOK /\ [Next]_vars => TypeOK'
  <1> SUFFICES ASSUME TypeOK, [Next]_vars PROVE TypeOK'
    OBVIOUS
  <1>1. ASSUME NEW l \in Lines, NEW u \in Instants, Write(l, u) PROVE TypeOK'
    <2>1. /\ DOMAIN table' = DOMAIN table \cup {Key(l, u)}
          /\ table' \in [DOMAIN table' -> Lines]
      BY <1>1 DEF Write, TypeOK
    <2>2. writes' \in 0 .. MaxWrites
      BY <1>1, EngineAssumption DEF Write, TypeOK
    <2> QED BY <1>1, <2>1, <2>2, KeyIn DEF Write, TypeOK, read_vars
  <1>2. ASSUME NEW q \in Questions, Ask(q) PROVE TypeOK'
    <2>1. mail' \in Seq(Questions) /\ (mail # <<>> => mail' # <<>> /\ Head(mail') = Head(mail))
      BY <1>2 DEF Ask, TypeOK
    <2>2. asks' \in 0 .. MaxAsks
      BY <1>2, EngineAssumption DEF Ask, TypeOK
    <2> QED BY <1>2, <2>1, <2>2 DEF Ask, TypeOK, read_vars
  <1>3. ASSUME NEW k \in DOMAIN table, ReadPage(k) PROVE TypeOK'
    <2>1. counted' \subseteq Row
      BY <1>3, RowsType, UnreadKeys DEF ReadPage, TypeOK
    <2> QED BY <1>3, <2>1 DEF ReadPage, TypeOK
  <1>4. ASSUME Reject PROVE TypeOK'
    BY <1>4, DoneType DEF Reject, TypeOK
  <1>5. ASSUME Take PROVE TypeOK'
    BY <1>5 DEF Take, TypeOK
  <1>6. ASSUME ReadLast PROVE TypeOK'
    <2>1. counted' \subseteq Row
      BY <1>6, RowsType, UnreadKeys DEF ReadLast, TypeOK
    <2> QED BY <1>6, <2>1 DEF ReadLast, TypeOK
  <1>7. ASSUME Retry PROVE TypeOK'
    BY <1>7, EngineAssumption DEF Retry, TypeOK
  <1>8. ASSUME JobFails PROVE TypeOK'
    <2>1. mail # <<>> /\ faults' \in 0 .. MaxFaults
      BY <1>8, EngineAssumption DEF JobFails, TypeOK
    <2> QED BY <1>8, <2>1, DoneType DEF JobFails, TypeOK
  <1>9. ASSUME Reply PROVE TypeOK'
    <2>1. mail # <<>>
      BY <1>9 DEF Reply, TypeOK
    <2> QED BY <1>9, <2>1, DoneType DEF Reply, TypeOK
  <1>10. ASSUME UNCHANGED vars PROVE TypeOK'
    BY <1>10 DEF vars, read_vars, TypeOK
  <1> QED BY <1>1, <1>2, <1>3, <1>4, <1>5, <1>6, <1>7, <1>8, <1>9, <1>10 DEF Next

\* Every variable of the RpcActor and of its table stays in its type.
THEOREM TypeCorrect == Spec => []TypeOK
  BY InitType, NextType, PTL DEF Spec

-----------------------------------------------------------------------------
(* The strengthening: what is known of the rows of a report under way.     *)

OncePerKey(rows) == \A r, s \in rows : r.key = s.key => r = s

\* A row of the range that was there at the start is read already or, while pages are
\* to come, still in front of the cursor.
NoneMissed ==
    \A k \in Asked(before, Head(mail)) :
      k \in KeysOf(counted) \/ (phase = "reading" /\ k \in Unread(Head(mail)))

UnderWay ==
    /\ phase = "idle" => counted = {}
    /\ phase # "idle" => /\ before \subseteq DOMAIN table
                         /\ KeysOf(counted) \subseteq Asked(DOMAIN table, Head(mail))
                         /\ OncePerKey(counted)
                         /\ NoneMissed

SoundInv == TypeOK /\ UnderWay /\ SoundReports

LEMMA InitSound == Init => SoundInv
  <1> SUFFICES ASSUME Init PROVE SoundInv
    OBVIOUS
  <1>1. UnderWay /\ SoundReports
    BY DEF Init, UnderWay, SoundReports
  <1> QED BY <1>1, InitType DEF SoundInv

\* Rows are never deleted, so a report that was sound stays so.
LEMMA ReportsStay ==
  ASSUME SoundReports, UNCHANGED answers, DOMAIN table \subseteq DOMAIN table'
  PROVE  SoundReports'
  BY DEF SoundReports, Asked

\* A report that is sound, or no report, may be added.
LEMMA DoneSound ==
  ASSUME SoundInv, UNCHANGED table, mail # <<>>,
         NEW o \in {"report", "threw", "not_found", "ignored"}, Done(o),
         o = "report" => phase = "read"
  PROVE  SoundReports' /\ UnderWay'
  <1> DEFINE a == [q |-> Head(mail), outcome |-> o, rows |-> counted, before |-> before]
  <1>1. answers' = Append(answers, a) /\ answers \in Seq(Answer)
    BY DEF Done, SoundInv, TypeOK
  <1>2. ASSUME o = "report"
        PROVE  /\ Asked(before, Head(mail)) \subseteq KeysOf(counted)
               /\ KeysOf(counted) \subseteq Asked(DOMAIN table, Head(mail))
               /\ OncePerKey(counted)
    BY <1>2 DEF SoundInv, UnderWay, NoneMissed
  <1>3. ASSUME NEW i \in DOMAIN answers', answers'[i].outcome = "report"
        PROVE  /\ Asked(answers'[i].before, answers'[i].q) \subseteq KeysOf(answers'[i].rows)
               /\ KeysOf(answers'[i].rows) \subseteq Asked(DOMAIN table, answers'[i].q)
               /\ OncePerKey(answers'[i].rows)
    <2>1. CASE i \in DOMAIN answers
      <3>1. answers'[i] = answers[i]
        BY <1>1, <2>1
      <3> QED BY <1>3, <2>1, <3>1 DEF SoundInv, SoundReports, OncePerKey
    <2>2. CASE i \notin DOMAIN answers
      <3>1. answers'[i] = a
        BY <1>1, <2>2
      <3> QED BY <1>2, <1>3, <3>1
    <2> QED BY <2>1, <2>2
  <1>4. SoundReports'
    BY <1>3 DEF SoundReports, OncePerKey, Asked
  <1> QED BY <1>4 DEF Done, UnderWay

-----------------------------------------------------------------------------
(* The steps.                                                              *)

LEMMA WriteSound ==
  ASSUME SoundInv, NEW l \in Lines, NEW u \in Instants, Write(l, u)
  PROVE  UnderWay' /\ SoundReports'
  <1>1. DOMAIN table \subseteq DOMAIN table' /\ UNCHANGED <<mail, phase, counted, before, answers>>
    BY DEF Write, read_vars
  <1>2. Unread(Head(mail)) \subseteq Unread(Head(mail))'
    BY <1>1 DEF Unread, InRange
  <1>3. ASSUME phase # "idle" PROVE NoneMissed'
    BY <1>1, <1>2, <1>3 DEF SoundInv, UnderWay, NoneMissed, Asked, KeysOf
  <1>4. UnderWay'
    BY <1>1, <1>3 DEF SoundInv, UnderWay, Asked, KeysOf, OncePerKey
  <1> QED BY <1>1, <1>4, ReportsStay DEF SoundInv

LEMMA AskSound ==
  ASSUME SoundInv, NEW q \in Questions, Ask(q)
  PROVE  UnderWay' /\ SoundReports'
  <1>1. UNCHANGED <<table, phase, counted, before, answers>>
    BY DEF Ask, read_vars
  <1>2. phase # "idle" => Head(mail') = Head(mail)
    BY DEF Ask, SoundInv, TypeOK
  <1>3. ASSUME phase # "idle" PROVE UnderWay'
    BY <1>1, <1>2, <1>3
       DEF SoundInv, UnderWay, NoneMissed, Unread, Asked, KeysOf, OncePerKey
  <1>4. UnderWay'
    BY <1>1, <1>3 DEF SoundInv, UnderWay
  <1> QED BY <1>1, <1>4, ReportsStay DEF SoundInv

\* Adding the unread rows up to some point keeps what is known, and what they were
\* not is still unread.
LEMMA PageSound ==
  ASSUME SoundInv, phase = "reading", NEW page \in SUBSET Unread(Head(mail)),
         \A i \in page, j \in Unread(Head(mail)) \ page : Precedes(i, j),
         counted' = counted \cup RowsOf(page),
         UNCHANGED <<table, mail, before>>
  PROVE  /\ KeysOf(counted') \subseteq Asked(DOMAIN table, Head(mail))
         /\ OncePerKey(counted')
         /\ \A k \in Asked(before, Head(mail)) :
              k \in KeysOf(counted') \/ (k \in Unread(Head(mail)) \ page /\ k \in Unread(Head(mail))')
  <1> DEFINE q == Head(mail)
  <1>1. /\ q \in Questions /\ DOMAIN table \subseteq Keys
        /\ KeysOf(counted) \subseteq Asked(DOMAIN table, q) /\ OncePerKey(counted) /\ NoneMissed
    BY DEF SoundInv, TypeOK, UnderWay
  <1>2. page \subseteq DOMAIN table /\ page \subseteq Asked(DOMAIN table, q)
    BY <1>1, Selects DEF Unread, Asked
  <1>3. KeysOf(RowsOf(page)) = page
    <2>1. \A x : x \in KeysOf(RowsOf(page)) => x \in page
      BY DEF KeysOf, RowsOf
    <2>2. ASSUME NEW x \in page PROVE x \in KeysOf(RowsOf(page))
      <3>1. [key |-> x, line |-> table[x]] \in RowsOf(page)
        BY DEF RowsOf
      <3> QED BY <3>1 DEF KeysOf
    <2> QED BY <2>1, <2>2
  <1>4. KeysOf(counted') = KeysOf(counted) \cup page
    BY <1>3 DEF KeysOf
  <1>5. \A r \in counted : r.key \notin page
    BY <1>1, <1>2, Irreflexive DEF Unread, KeysOf, Asked
  <1>6. OncePerKey(counted')
    <2> SUFFICES ASSUME NEW r \in counted', NEW s \in counted', r.key = s.key PROVE r = s
      BY DEF OncePerKey
    <2>1. CASE r \in counted /\ s \in counted
      BY <1>1, <2>1 DEF OncePerKey
    <2>2. CASE r \in RowsOf(page) /\ s \in RowsOf(page)
      BY <2>2 DEF RowsOf
    <2>3. \A x \in RowsOf(page) : x.key \in page
      BY DEF RowsOf
    <2> QED BY <1>5, <2>1, <2>2, <2>3
  <1>7. ASSUME NEW k \in Asked(before, q), k \notin KeysOf(counted')
        PROVE  k \in Unread(q) \ page /\ k \in Unread(q)'
    <2>1. k \in Unread(q) \ page
      BY <1>1, <1>4, <1>7 DEF NoneMissed
    <2>2. ASSUME NEW r \in counted' PROVE Precedes(r.key, k)
      <3>1. CASE r \in counted
        BY <2>1, <3>1 DEF Unread
      <3>2. CASE r \in RowsOf(page)
        BY <2>1, <3>2 DEF RowsOf
      <3> QED BY <2>2, <3>1, <3>2
    <2> QED BY <2>1, <2>2 DEF Unread, InRange
  <1> QED BY <1>1, <1>2, <1>4, <1>6, <1>7

LEMMA ReadPageSound ==
  ASSUME SoundInv, NEW k \in DOMAIN table, ReadPage(k)
  PROVE  UnderWay' /\ SoundReports'
  <1> DEFINE U == Unread(Head(mail))
             page == {j \in U : ~Precedes(k, j)}
  <1>1. /\ phase = "reading" /\ counted' = counted \cup RowsOf(page)
        /\ UNCHANGED <<table, mail, phase, before, answers>>
    BY DEF ReadPage
  <1>2. U \subseteq Keys /\ k \in Keys
    BY UnreadKeys DEF SoundInv, TypeOK
  <1>3. \A i \in page, j \in U \ page : Precedes(i, j)
    BY <1>2, OrderCut
  <1>4. /\ KeysOf(counted') \subseteq Asked(DOMAIN table, Head(mail))
        /\ OncePerKey(counted')
        /\ \A x \in Asked(before, Head(mail)) :
             x \in KeysOf(counted') \/ (x \in U \ page /\ x \in Unread(Head(mail))')
    BY <1>1, <1>3, PageSound
  <1>5. UnderWay'
    BY <1>1, <1>4 DEF SoundInv, UnderWay, NoneMissed, Asked, KeysOf, OncePerKey
  <1> QED BY <1>1, <1>5, ReportsStay DEF SoundInv

LEMMA ReadLastSound ==
  ASSUME SoundInv, ReadLast
  PROVE  UnderWay' /\ SoundReports'
  <1> DEFINE U == Unread(Head(mail))
  <1>1. /\ phase = "reading" /\ phase' = "read" /\ counted' = counted \cup RowsOf(U)
        /\ UNCHANGED <<table, mail, before, answers>>
    BY DEF ReadLast
  <1>2. /\ KeysOf(counted') \subseteq Asked(DOMAIN table, Head(mail))
        /\ OncePerKey(counted')
        /\ \A x \in Asked(before, Head(mail)) :
             x \in KeysOf(counted') \/ (x \in U \ U /\ x \in Unread(Head(mail))')
    BY <1>1, PageSound
  <1>3. UnderWay'
    BY <1>1, <1>2 DEF SoundInv, UnderWay, NoneMissed, Asked, KeysOf, OncePerKey
  <1> QED BY <1>1, <1>3, ReportsStay DEF SoundInv

\* With nothing read, every row of the range is in front of the cursor.
LEMMA FreshStart ==
  ASSUME SoundInv, mail # <<>>, counted' = {}, phase' = "reading",
         before' \subseteq DOMAIN table, UNCHANGED <<table, mail, answers>>
  PROVE  UnderWay' /\ SoundReports'
  <1>1. Head(mail) \in Questions /\ before' \subseteq Keys
    BY DEF SoundInv, TypeOK
  <1>2. NoneMissed'
    <2> SUFFICES ASSUME NEW k \in Asked(before', Head(mail)) PROVE k \in Unread(Head(mail))'
      BY DEF NoneMissed, Asked
    <2>1. k \in before' /\ InRange(k, Head(mail))
      BY <1>1, Selects DEF Asked
    <2> QED BY <2>1 DEF Unread, InRange
  <1>3. UnderWay'
    BY <1>2 DEF UnderWay, KeysOf, Asked, OncePerKey
  <1> QED BY <1>3, ReportsStay DEF SoundInv

LEMMA NextSound == SoundInv /\ [Next]_vars => SoundInv'
  <1> SUFFICES ASSUME SoundInv, [Next]_vars PROVE SoundInv'
    OBVIOUS
  <1>1. TypeOK'
    BY NextType DEF SoundInv
  <1>2. ASSUME NEW l \in Lines, NEW u \in Instants, Write(l, u) PROVE UnderWay' /\ SoundReports'
    BY <1>2, WriteSound
  <1>3. ASSUME NEW q \in Questions, Ask(q) PROVE UnderWay' /\ SoundReports'
    BY <1>3, AskSound
  <1>4. ASSUME NEW k \in DOMAIN table, ReadPage(k) PROVE UnderWay' /\ SoundReports'
    BY <1>4, ReadPageSound
  <1>5. ASSUME Reject PROVE UnderWay' /\ SoundReports'
    BY <1>5, DoneSound DEF Reject
  <1>6. ASSUME Take PROVE UnderWay' /\ SoundReports'
    BY <1>6, FreshStart DEF Take, SoundInv, UnderWay
  <1>7. ASSUME ReadLast PROVE UnderWay' /\ SoundReports'
    BY <1>7, ReadLastSound
  <1>8. ASSUME Retry PROVE UnderWay' /\ SoundReports'
    BY <1>8, FreshStart DEF Retry, SoundInv, UnderWay, TypeOK
  <1>9. ASSUME JobFails PROVE UnderWay' /\ SoundReports'
    BY <1>9, DoneSound DEF JobFails, SoundInv, TypeOK
  <1>10. ASSUME Reply PROVE UnderWay' /\ SoundReports'
    BY <1>10, DoneSound DEF Reply, SoundInv, TypeOK
  <1>11. ASSUME UNCHANGED vars PROVE UnderWay' /\ SoundReports'
    BY <1>11 DEF vars, read_vars, SoundInv, UnderWay, NoneMissed, Unread, InRange, Asked,
                 KeysOf, OncePerKey, SoundReports
  <1> QED BY <1>1, <1>2, <1>3, <1>4, <1>5, <1>6, <1>7, <1>8, <1>9, <1>10, <1>11
          DEF Next, SoundInv

\* A report counts every row of its range that was stored when its question was taken,
\* nothing outside the range, and nothing twice, whatever is inserted meanwhile.
THEOREM ReportsSound == Spec => []SoundReports
  <1>1. Init => SoundInv
    BY InitSound
  <1>2. SoundInv => SoundReports
    BY DEF SoundInv
  <1> QED BY <1>1, <1>2, NextSound, PTL DEF Spec

-----------------------------------------------------------------------------
(* Counting rows.  A set of rows none of which is there twice has as many   *)
(* rows as keys, and the keys are those of a finite table.                  *)

LEMMA KeyCount ==
  ASSUME NEW R, OncePerKey(R), IsFiniteSet(KeysOf(R))
  PROVE  IsFiniteSet(R) /\ Cardinality(R) = Cardinality(KeysOf(R))
  <1> DEFINE f == [r \in R |-> r.key]
  <1>1. f \in Injection(R, KeysOf(R))
    BY DEF OncePerKey, KeysOf, Injection, IsInjective
  <1>2. f \in Surjection(R, KeysOf(R))
    BY DEF KeysOf, Surjection
  <1> HIDE DEF f
  <1> QED BY <1>1, <1>2, FS_Injection

LEMMA CountGrows ==
  ASSUME NEW R, NEW S, OncePerKey(R), OncePerKey(S), KeysOf(R) \subseteq KeysOf(S),
         IsFiniteSet(KeysOf(S))
  PROVE  Cardinality(R) \in Nat /\ Cardinality(R) <= Cardinality(S)
  <1>1. /\ IsFiniteSet(KeysOf(R))
        /\ Cardinality(KeysOf(R)) <= Cardinality(KeysOf(S))
    BY FS_Subset
  <1>2. /\ IsFiniteSet(R) /\ Cardinality(R) = Cardinality(KeysOf(R))
        /\ Cardinality(S) = Cardinality(KeysOf(S))
    BY <1>1, KeyCount
  <1> QED BY <1>1, <1>2, FS_CardinalityType

\* The values of a function on a finite set are finitely many.
LEMMA ImageFinite ==
  ASSUME NEW S, IsFiniteSet(S), NEW f, f = [x \in S |-> f[x]]
  PROVE  IsFiniteSet({f[x] : x \in S})
  <1> DEFINE T == {f[x] : x \in S}
  <1>1. f \in Surjection(S, T)
    BY DEF Surjection
  <1> HIDE DEF T
  <1>2. IsFiniteSet(T)
    BY <1>1, FS_Surjection
  <1> QED BY <1>2 DEF T

-----------------------------------------------------------------------------
(* What the entries of a report are, for either engine.                     *)

InPeriod(form, rows, p) == {r \in rows : Period(form, r.key.at) = p}

\* Page views and response times count the rows of each group.
LEMMA GroupedCounts ==
  ASSUME NEW form, NEW rows, NEW E,
         E = CountEach(Groups(form, rows)) \/ E = TimesEach(Groups(form, rows))
  PROVE  /\ DOMAIN E = {Period(form, r.key.at) : r \in rows}
         /\ \A p \in DOMAIN E :
              E[p].totalnum = Cardinality(InPeriod(form, rows, p))
  <1>1. CASE E = CountEach(Groups(form, rows))
    BY <1>1 DEF CountEach, Count, Groups, InPeriod
  <1>2. CASE E = TimesEach(Groups(form, rows))
    BY <1>2 DEF TimesEach, Times, Groups, InPeriod
  <1> QED BY <1>1, <1>2

LEMMA VisitorsDomain ==
  ASSUME NEW form, NEW rows
  PROVE  DOMAIN Visitors(form, rows) = {Period(form, r.key.at) : r \in rows}
  <1> DEFINE groups == {<<Period(form, r.key.at), Addr[r.line]>> : r \in rows}
  <1>1. DOMAIN Visitors(form, rows) = {g[1] : g \in groups}
    BY DEF Visitors
  <1>2. \A r \in rows : <<Period(form, r.key.at), Addr[r.line]>> \in groups
    OBVIOUS
  <1>3. \A g \in groups : \E r \in rows : g[1] = Period(form, r.key.at)
    OBVIOUS
  <1>4. \A x : x \in {g[1] : g \in groups} <=> \E g \in groups : x = g[1]
    OBVIOUS
  <1> HIDE DEF groups
  <1>5. ASSUME NEW r \in rows PROVE Period(form, r.key.at) \in {g[1] : g \in groups}
    <2>1. <<Period(form, r.key.at), Addr[r.line]>>[1] = Period(form, r.key.at)
      OBVIOUS
    <2> QED BY <1>2, <1>4, <2>1
  <1> QED BY <1>1, <1>3, <1>5

\* Per period: the entries are the periods of the rows, page views and response
\* times count the rows of each.
LEMMA PeriodEntries ==
  ASSUME NEW q, NEW rows, q.cmd \in Commands, q.form \in Forms
  PROVE  /\ ~ReportOf(q, rows).threw
         /\ DOMAIN ReportOf(q, rows).entries = {Period(q.form, r.key.at) : r \in rows}
         /\ q.cmd # "uv" => \A p \in DOMAIN ReportOf(q, rows).entries :
              ReportOf(q, rows).entries[p].totalnum = Cardinality(InPeriod(q.form, rows, p))
  <1>1. q.form # "none" /\ Engine \in {"flink", "spark"}
    BY EngineAssumption DEF Forms
  <1>0. PICK form : form = q.form
    OBVIOUS
  <1>2. CASE q.cmd = "pv"
    <2>1. ReportOf(q, rows) = Report(CountEach(Groups(form, rows)))
      BY <1>0, <1>1, <1>2 DEF ReportOf, FlinkReport, SparkReport, FlinkPv, SparkPv
    <2>2. ~ReportOf(q, rows).threw
      BY <2>1 DEF Report
    <2>3. PICK E : E = ReportOf(q, rows).entries /\ E = CountEach(Groups(form, rows))
      BY <2>1 DEF Report
    <2>4. /\ DOMAIN E = {Period(form, r.key.at) : r \in rows}
          /\ \A p \in DOMAIN E : E[p].totalnum = Cardinality(InPeriod(form, rows, p))
      BY <2>3, GroupedCounts
    <2> QED BY <1>0, <2>2, <2>3, <2>4, Zenon
  <1>3. CASE q.cmd = "avgtime"
    <2>1. ReportOf(q, rows) = Report(TimesEach(Groups(form, rows)))
      BY <1>0, <1>1, <1>3 DEF ReportOf, FlinkReport, SparkReport, FlinkAvgTime, SparkAvgTime
    <2>2. ~ReportOf(q, rows).threw
      BY <2>1 DEF Report
    <2>3. PICK E : E = ReportOf(q, rows).entries /\ E = TimesEach(Groups(form, rows))
      BY <2>1 DEF Report
    <2>4. /\ DOMAIN E = {Period(form, r.key.at) : r \in rows}
          /\ \A p \in DOMAIN E : E[p].totalnum = Cardinality(InPeriod(form, rows, p))
      BY <2>3, GroupedCounts
    <2> QED BY <1>0, <2>2, <2>3, <2>4, Zenon
  <1>4. CASE q.cmd = "uv"
    <2>1. ReportOf(q, rows) = Report(Visitors(q.form, rows))
      BY <1>1, <1>4 DEF ReportOf, FlinkReport, SparkReport, FlinkUv, SparkUv
    <2>2. ~ReportOf(q, rows).threw /\ ReportOf(q, rows).entries = Visitors(q.form, rows)
      BY <2>1 DEF Report
    <2> QED BY <1>4, <2>2, VisitorsDomain, Zenon
  <1> QED BY <1>2, <1>3, <1>4 DEF Commands

\* For the whole range: one entry, of all rows; or none, when Spark counts no page
\* views of no rows for a format it does not know.
LEMMA WholeEntries ==
  ASSUME NEW q, NEW rows, q.cmd \in Commands, q.form \notin Forms,
         q.form = "none" => Engine = "flink", ~ReportOf(q, rows).threw
  PROVE  IF Engine = "spark" /\ q.cmd = "pv" THEN ReportOf(q, rows).entries = <<>>
         ELSE /\ DOMAIN ReportOf(q, rows).entries = {<<"data", 0>>}
              /\ q.cmd # "uv" =>
                   ReportOf(q, rows).entries[<<"data", 0>>].totalnum = Cardinality(rows)
  <1>1. CASE Engine = "flink"
    <2>1. ReportOf(q, rows) = FlinkReport(q, rows)
      BY <1>1 DEF ReportOf
    <2>2. CASE q.cmd = "pv"
      <3>1. FlinkReport(q, rows) = Report(Whole(Count(rows)))
        BY <2>2 DEF FlinkReport, ServicePv, FlinkPv
      <3> QED BY <1>1, <2>1, <2>2, <3>1 DEF Report, Whole, Count
    <2>3. CASE q.cmd = "uv"
      <3>1. FlinkReport(q, rows) = Report(Whole(Count({Addr[r.line] : r \in rows})))
        BY <2>3 DEF FlinkReport, ServiceUv, FlinkUv
      <3> QED BY <1>1, <2>1, <2>3, <3>1 DEF Report, Whole, Count
    <2>4. CASE q.cmd = "avgtime"
      <3>1. FlinkReport(q, rows) = IF q.form = "none" THEN ServiceAvgTime(rows)
                                                      ELSE FlinkAvgTime(q.form, rows)
        BY <2>4 DEF FlinkReport
      <3>2. rows # {}
        BY <2>1, <3>1 DEF ServiceAvgTime, FlinkAvgTime, Threw
      <3>3. \/ FlinkReport(q, rows) = Report(Whole(Times(rows)))
            \/ FlinkReport(q, rows)
                 = Report(Whole([totalnum |-> Cardinality(rows), totaltime |-> TotalTime(rows)]))
        BY <3>1, <3>2 DEF ServiceAvgTime, FlinkAvgTime
      <3> QED BY <1>1, <2>1, <2>4, <3>3 DEF Report, Whole, Times
    <2> QED BY <2>2, <2>3, <2>4 DEF Commands
  <1>2. CASE Engine = "spark"
    <2>1. ReportOf(q, rows) = SparkReport(q, rows)
      BY <1>2 DEF ReportOf
    <2>2. CASE q.cmd = "pv"
      <3>1. SparkReport(q, rows) \in {Report(<<>>), Threw}
        BY <2>2 DEF SparkReport, SparkPv
      <3>2. SparkReport(q, rows) # Threw
        BY <2>1 DEF Threw
      <3> QED BY <1>2, <2>1, <2>2, <3>1, <3>2 DEF Report
    <2>3. CASE q.cmd = "uv"
      <3>1. SparkReport(q, rows) \in {Report(Whole(Count({}))), Threw}
        BY <2>3 DEF SparkReport, SparkUv
      <3>2. SparkReport(q, rows) # Threw
        BY <2>1 DEF Threw
      <3> QED BY <1>2, <2>1, <2>3, <3>1, <3>2 DEF Report, Whole
    <2>4. CASE q.cmd = "avgtime"
      <3>1. SparkReport(q, rows) = Threw
        BY <2>4 DEF SparkReport, SparkAvgTime
      <3> QED BY <2>1, <3>1 DEF Threw
    <2> QED BY <2>2, <2>3, <2>4 DEF Commands
  <1> QED BY <1>1, <1>2, EngineAssumption

\* On more rows, each still there once, a report has the same periods and more, and
\* counts no less in each.
LEMMA EntriesGrow ==
  ASSUME NEW q, NEW R, NEW S, q.cmd \in Commands, q.form = "none" => Engine = "flink",
         OncePerKey(R), OncePerKey(S), KeysOf(R) \subseteq KeysOf(S), IsFiniteSet(KeysOf(S)),
         ~ReportOf(q, R).threw, ~ReportOf(q, S).threw,
         NEW p \in DOMAIN ReportOf(q, R).entries
  PROVE  /\ p \in DOMAIN ReportOf(q, S).entries
         /\ q.cmd # "uv" => ReportOf(q, R).entries[p].totalnum
                              <= ReportOf(q, S).entries[p].totalnum
  <1>1. CASE q.form \in Forms
    <2> DEFINE A == InPeriod(q.form, R, p)
               B == InPeriod(q.form, S, p)
    <2>1. \A r \in R : \E s \in S : r.key = s.key
      BY DEF KeysOf
    <2>2. p \in DOMAIN ReportOf(q, S).entries
      BY <1>1, <2>1, PeriodEntries
    <2>3. OncePerKey(A) /\ OncePerKey(B)
      BY DEF OncePerKey, InPeriod
    <2>4. KeysOf(A) \subseteq KeysOf(B) /\ KeysOf(B) \subseteq KeysOf(S)
      BY <2>1 DEF KeysOf, InPeriod
    <2>5. IsFiniteSet(KeysOf(B))
      BY <2>4, FS_Subset
    <2> HIDE DEF A, B
    <2>6. Cardinality(A) <= Cardinality(B)
      BY <2>3, <2>4, <2>5, CountGrows
    <2> QED BY <1>1, <2>2, <2>6, PeriodEntries DEF A, B
  <1>2. CASE q.form \notin Forms
    <2>1. Cardinality(R) <= Cardinality(S)
      BY CountGrows
    <2>2. ~(Engine = "spark" /\ q.cmd = "pv")
      BY <1>2, WholeEntries
    <2> QED BY <1>2, <2>1, <2>2, WholeEntries
  <1> QED BY <1>1, <1>2

-----------------------------------------------------------------------------
(* One report after another.  The actor takes a question only when it is    *)
(* done with the one before, so what an earlier report counted was stored   *)
(* when a later question was taken, and the later report counts it again.   *)

OfAReport(a) == a.outcome = "report"

\* A report comes from a known command, which no report of the spark engine without
\* a format does, and did not throw.
Genuine(a) == /\ a.q.cmd \in Commands /\ ~ReportOf(a.q, a.rows).threw
              /\ a.q.form = "none" => Engine = "flink"

Ascending ==
    /\ IsFiniteSet(DOMAIN table)
    /\ phase # "idle" => ~Ignores(Head(mail))
    /\ \A i \in DOMAIN answers : OfAReport(answers[i]) =>
         /\ Genuine(answers[i])
         /\ phase # "idle" => KeysOf(answers[i].rows) \subseteq before
         /\ \A j \in DOMAIN answers : i < j /\ OfAReport(answers[j]) =>
              KeysOf(answers[i].rows) \subseteq answers[j].before

LEMMA InitAscending == Init => Ascending
  BY FS_EmptySet DEF Init, Ascending

\* Nothing said of answers, question or what was there is touched by other steps.
LEMMA AscendingStays ==
  ASSUME Ascending, IsFiniteSet(DOMAIN table'), UNCHANGED <<phase, before, answers>>,
         phase # "idle" => Head(mail') = Head(mail)
  PROVE  Ascending'
  BY DEF Ascending, OfAReport, Genuine, Ignores

LEMMA DoneAscending ==
  ASSUME SoundInv, Ascending, UNCHANGED table, mail # <<>>, NEW o, Done(o),
         o = "report" => /\ phase = "read"
                         /\ ~ReportOf(Head(mail), counted).threw
  PROVE  Ascending'
  <1> DEFINE a == [q |-> Head(mail), outcome |-> o, rows |-> counted, before |-> before]
             n == Len(answers) + 1
  <1>1. /\ answers' = Append(answers, a) /\ phase' = "idle" /\ answers \in Seq(Answer)
    BY DEF Done, SoundInv, TypeOK
  <1>2. a.outcome = o /\ a.q = Head(mail) /\ a.rows = counted /\ a.before = before
    OBVIOUS
  <1>3. /\ DOMAIN answers = 1 .. Len(answers) /\ Len(answers) \in Nat
        /\ DOMAIN answers' = 1 .. n /\ answers'[n] = a
        /\ \A i \in DOMAIN answers : answers'[i] = answers[i]
    BY <1>1
  <1>4. o = "report" => Genuine(a)
    <2> SUFFICES ASSUME o = "report" PROVE Genuine(a)
      OBVIOUS
    <2>1. Head(mail).cmd \in Commands
      BY DEF SoundInv, TypeOK
    <2>2. Head(mail).form = "none" => Engine = "flink"
      BY EngineAssumption DEF Ascending, Ignores
    <2> QED BY <1>2, <2>1, <2>2 DEF Genuine
  <1> HIDE DEF a, n
  <1>5. ASSUME NEW i \in DOMAIN answers', OfAReport(answers'[i])
        PROVE  /\ Genuine(answers'[i])
               /\ \A j \in DOMAIN answers' : i < j /\ OfAReport(answers'[j]) =>
                    KeysOf(answers'[i].rows) \subseteq answers'[j].before
    <2>1. CASE i = n
      BY <1>2, <1>3, <1>4, <1>5, <2>1 DEF n, OfAReport
    <2>2. CASE i \in DOMAIN answers
      <3>1. OfAReport(answers[i]) /\ answers'[i] = answers[i]
        BY <1>3, <1>5, <2>2
      <3>2. ASSUME NEW j \in DOMAIN answers', i < j, OfAReport(answers'[j])
            PROVE  KeysOf(answers'[i].rows) \subseteq answers'[j].before
        <4>1. CASE j = n
          BY <1>2, <1>3, <2>2, <3>1, <3>2, <4>1 DEF Ascending, OfAReport
        <4>2. CASE j \in DOMAIN answers
          BY <1>3, <2>2, <3>1, <3>2, <4>2 DEF Ascending
        <4>3. j = n \/ j \in DOMAIN answers
          BY <1>3 DEF n
        <4> QED BY <4>1, <4>2, <4>3
      <3> QED BY <2>2, <3>1, <3>2 DEF Ascending
    <2>3. i = n \/ i \in DOMAIN answers
      BY <1>3 DEF n
    <2> QED BY <2>1, <2>2, <2>3
  <1>6. IsFiniteSet(DOMAIN table')
    BY DEF Ascending
  <1>7. Ascending' <=> /\ IsFiniteSet(DOMAIN table')
                       /\ phase' # "idle" => ~Ignores(Head(mail'))
                       /\ \A i \in DOMAIN answers' : OfAReport(answers'[i]) =>
                            /\ Genuine(answers'[i])
                            /\ phase' # "idle" => KeysOf(answers'[i].rows) \subseteq before'
                            /\ \A j \in DOMAIN answers' : i < j /\ OfAReport(answers'[j]) =>
                                 KeysOf(answers'[i].rows) \subseteq answers'[j].before
    BY DEF Ascending, OfAReport, Genuine, Ignores
  <1> QED BY <1>1, <1>5, <1>6, <1>7

LEMMA NextAscending == SoundInv /\ Ascending /\ [Next]_vars => Ascending'
  <1> SUFFICES ASSUME SoundInv, Ascending, [Next]_vars PROVE Ascending'
    OBVIOUS
  <1>1. ASSUME NEW l \in Lines, NEW u \in Instants, Write(l, u) PROVE Ascending'
    <2>1. DOMAIN table' = DOMAIN table \cup {Key(l, u)}
      BY <1>1 DEF Write
    <2>2. IsFiniteSet(DOMAIN table')
      BY <2>1, FS_AddElement DEF Ascending
    <2> QED BY <1>1, <2>2, AscendingStays DEF Write, read_vars
  <1>2. ASSUME NEW q \in Questions, Ask(q) PROVE Ascending'
    <2>1. phase # "idle" => Head(mail') = Head(mail)
      BY <1>2 DEF Ask, SoundInv, TypeOK
    <2> QED BY <1>2, <2>1, AscendingStays DEF Ask, read_vars, Ascending
  <1>3. ASSUME NEW k, ReadPage(k) PROVE Ascending'
    BY <1>3, AscendingStays DEF ReadPage, Ascending
  <1>4. ASSUME Reject PROVE Ascending'
    BY <1>4, DoneAscending DEF Reject
  <1>5. ASSUME Take PROVE Ascending'
    <2>1. \A i \in DOMAIN answers : OfAReport(answers[i]) =>
            KeysOf(answers[i].rows) \subseteq DOMAIN table
      BY DEF SoundInv, SoundReports, OfAReport, Asked
    <2>2. /\ before' = DOMAIN table /\ ~Ignores(Head(mail))
          /\ UNCHANGED <<table, mail, answers>>
      BY <1>5 DEF Take
    <2> QED BY <2>1, <2>2 DEF Ascending, OfAReport, Genuine, Ignores
  <1>6. ASSUME ReadLast PROVE Ascending'
    BY <1>6 DEF ReadLast, Ascending, OfAReport, Genuine, Ignores
  <1>7. ASSUME Retry PROVE Ascending'
    BY <1>7, AscendingStays DEF Retry, Ascending
  <1>8. ASSUME JobFails PROVE Ascending'
    BY <1>8, DoneAscending DEF JobFails, SoundInv, TypeOK
  <1>9. ASSUME Reply PROVE Ascending'
    BY <1>9, DoneAscending DEF Reply, SoundInv, TypeOK
  <1>10. ASSUME UNCHANGED vars PROVE Ascending'
    BY <1>10, AscendingStays DEF vars, read_vars, Ascending
  <1> QED BY <1>1, <1>2, <1>3, <1>4, <1>5, <1>6, <1>7, <1>8, <1>9, <1>10 DEF Next

\* The same question asked again later never counts less, whatever is inserted or
\* fails in between: no period disappears, and no total but the number of visitors
\* shrinks.
THEOREM ReportsGrow == Spec => []NeverShrinks
  <1>1. SoundInv /\ Ascending => NeverShrinks
    <2> SUFFICES ASSUME SoundInv, Ascending, NEW i \in DOMAIN answers, NEW j \in DOMAIN answers,
                        i < j, answers[i].q = answers[j].q,
                        answers[i].outcome = "report", answers[j].outcome = "report",
                        NEW p \in DOMAIN EntriesOf(answers[i])
                 PROVE  /\ p \in DOMAIN EntriesOf(answers[j])
                        /\ answers[i].q.cmd # "uv" => EntriesOf(answers[i])[p].totalnum
                                                        <= EntriesOf(answers[j])[p].totalnum
      BY DEF NeverShrinks
    <2> DEFINE a == answers[i]
               b == answers[j]
    <2>1. Genuine(a) /\ Genuine(b) /\ KeysOf(a.rows) \subseteq b.before
      BY DEF Ascending, OfAReport
    <2>2. /\ KeysOf(a.rows) \subseteq Asked(DOMAIN table, a.q) /\ OncePerKey(a.rows)
          /\ Asked(b.before, b.q) \subseteq KeysOf(b.rows)
          /\ KeysOf(b.rows) \subseteq Asked(DOMAIN table, b.q) /\ OncePerKey(b.rows)
      BY DEF SoundInv, SoundReports, OncePerKey
    <2>3. KeysOf(a.rows) \subseteq KeysOf(b.rows) /\ KeysOf(b.rows) \subseteq DOMAIN table
      BY <2>1, <2>2 DEF Asked
    <2>4. IsFiniteSet(KeysOf(b.rows))
      BY <2>3, FS_Subset DEF Ascending
    <2>5. EntriesOf(a) = ReportOf(a.q, a.rows).entries /\ EntriesOf(b) = ReportOf(a.q, b.rows).entries
      BY DEF EntriesOf
    <2>6. a.q.cmd \in Commands /\ (a.q.form = "none" => Engine = "flink")
          /\ ~ReportOf(a.q, a.rows).threw /\ ~ReportOf(a.q, b.rows).threw
      BY <2>1 DEF Genuine
    <2> QED BY <2>2, <2>3, <2>4, <2>5, <2>6, EntriesGrow
  <1> QED BY <1>1, InitSound, NextSound, InitAscending, NextAscending, PTL DEF Spec

-----------------------------------------------------------------------------
(* The clock of the half day.  A row's key holds what the job parsed: the   *)
(* logged second, or twelve hours less when the hour was 12.                *)

KeptAt(rows) == \A r \in rows : r.line \in Lines /\ r.key.at = StoredAt(Logged[r.line])

ParsedKeys ==
    /\ \A k \in DOMAIN table : k.at = StoredAt(Logged[table[k]])
    /\ KeptAt(counted)
    /\ \A i \in DOMAIN answers : KeptAt(answers[i].rows)

LEMMA InitParsed == Init => ParsedKeys
  BY DEF Init, ParsedKeys, KeptAt

LEMMA RowsParsed ==
  ASSUME TypeOK, ParsedKeys, NEW ks \in SUBSET DOMAIN table
  PROVE  KeptAt(RowsOf(ks))
  BY DEF TypeOK, ParsedKeys, KeptAt, RowsOf

LEMMA DoneParsed ==
  ASSUME TypeOK, ParsedKeys, UNCHANGED table, NEW o, Done(o)
  PROVE  ParsedKeys'
  <1> DEFINE a == [q |-> Head(mail), outcome |-> o, rows |-> counted, before |-> before]
  <1>1. answers' = Append(answers, a) /\ answers \in Seq(Answer) /\ counted' = {}
    BY DEF Done, TypeOK
  <1>2. a.rows = counted
    OBVIOUS
  <1> HIDE DEF a
  <1>3. \A i \in DOMAIN answers' : answers'[i] = a \/ (i \in DOMAIN answers /\ answers'[i] = answers[i])
    BY <1>1
  <1> QED BY <1>1, <1>2, <1>3 DEF ParsedKeys, KeptAt

LEMMA NextParsed == TypeOK /\ ParsedKeys /\ [Next]_vars => ParsedKeys'
  <1> SUFFICES ASSUME TypeOK, ParsedKeys, [Next]_vars PROVE ParsedKeys'
    OBVIOUS
  <1>1. ASSUME NEW l \in Lines, NEW u \in Instants, Write(l, u) PROVE ParsedKeys'
    <2>1. /\ table' = [k \in DOMAIN table \cup {Key(l, u)} |->
                         IF k = Key(l, u) THEN l ELSE table[k]]
          /\ UNCHANGED <<counted, answers>>
      BY <1>1 DEF Write, read_vars
    <2>2. Key(l, u).at = StoredAt(Logged[l])
      BY DEF Key
    <2>3. \A k \in DOMAIN table' : k.at = StoredAt(Logged[table'[k]])
      BY <2>1, <2>2 DEF ParsedKeys
    <2> QED BY <2>1, <2>3 DEF ParsedKeys, KeptAt
  <1>2. ASSUME NEW k, ReadPage(k) PROVE ParsedKeys'
    <2>1. {j \in Unread(Head(mail)) : ~Precedes(k, j)} \in SUBSET DOMAIN table
      BY UnreadKeys
    <2>2. KeptAt(RowsOf({j \in Unread(Head(mail)) : ~Precedes(k, j)}))
      BY <2>1, RowsParsed
    <2> QED BY <1>2, <2>2 DEF ReadPage, ParsedKeys, KeptAt
  <1>3. ASSUME ReadLast PROVE ParsedKeys'
    <2>1. KeptAt(RowsOf(Unread(Head(mail))))
      BY UnreadKeys, RowsParsed
    <2> QED BY <1>3, <2>1 DEF ReadLast, ParsedKeys, KeptAt
  <1>4. ASSUME Reject \/ JobFails \/ Reply PROVE ParsedKeys'
    BY <1>4, DoneParsed DEF Reject, JobFails, Reply
  <1>5. ASSUME Retry PROVE ParsedKeys'
    BY <1>5 DEF Retry, ParsedKeys, KeptAt
  <1>6. CASE UNCHANGED <<table, counted, answers>>
    BY <1>6 DEF ParsedKeys, KeptAt
  <1>7. ASSUME NEW q, Ask(q) PROVE ParsedKeys'
    BY <1>6, <1>7 DEF Ask, read_vars
  <1>8. CASE Take \/ UNCHANGED vars
    BY <1>6, <1>8 DEF Take, vars, read_vars
  <1> QED BY <1>1, <1>2, <1>3, <1>4, <1>5, <1>7, <1>8 DEF Next

\* The hour of a second within its day is the hour since the epoch within its day.
LEMMA HourName ==
  ASSUME NEW t \in Nat
  PROVE  (t % 86400) \div 3600 = (t \div 3600) % 24
  <1> DEFINE h == t \div 3600
             x == t % 3600
             d == h \div 24
             m == h % 24
  <1>1. h \in Nat /\ x \in 0 .. 3599 /\ t = 3600 * h + x
    BY SMT
  <1>2. d \in Nat /\ m \in 0 .. 23 /\ h = 24 * d + m
    <2> HIDE DEF h
    <2> QED BY <1>1, SMT DEF d, m
  <1> HIDE DEF h, x, d, m
  <1>3. t = 86400 * d + (3600 * m + x)
    BY <1>1, <1>2, SMT
  <1>4. t % 86400 = 3600 * m + x
    <2>1. (86400 * d + (3600 * m + x)) % 86400 = 3600 * m + x
      BY <1>1, <1>2, SMT
    <2> QED BY <2>1, <1>3
  <1>5. (3600 * m + x) \div 3600 = m
    BY <1>1, <1>2, SMT
  <1> QED BY <1>4, <1>5 DEF h, m

\* The calendar, for every second: the day is kept; the hour is kept but for the hour
\* from noon, which becomes the hour from midnight of its day; no stored hour is 12.
LEMMA HalfDay ==
  ASSUME NEW t \in Nat
  PROVE  /\ StoredAt(t) \div 86400 = t \div 86400
         /\ (t \div 3600) % 24 # 12 => StoredAt(t) \div 3600 = t \div 3600
         /\ (t \div 3600) % 24 = 12 => StoredAt(t) \div 3600 = t \div 3600 - 12
         /\ (StoredAt(t) \div 3600) % 24 # 12
         /\ t \div 3600 \in Nat
  <1>1. StoredAt(t) = IF (t % 86400) \div 3600 = 12 THEN t - 43200 ELSE t
    BY DEF StoredAt, HourOfDay, Seconds
  <1>2. (t % 86400) \div 3600 = (t \div 3600) % 24
    BY HourName
  <1>3. CASE (t % 86400) \div 3600 = 12
    <2>1. StoredAt(t) = t - 43200
      BY <1>1, <1>3
    <2>2. (t - 43200) \div 86400 = t \div 86400
      BY <1>3
    <2>3. (t - 43200) \div 3600 = t \div 3600 - 12
      OBVIOUS
    <2>4. ((t - 43200) \div 3600) % 24 # 12
      BY <1>2, <1>3, <2>3
    <2> QED BY <1>2, <1>3, <2>1, <2>2, <2>3, <2>4
  <1>4. CASE (t % 86400) \div 3600 # 12
    <2>1. StoredAt(t) = t
      BY <1>1, <1>4
    <2> QED BY <1>2, <1>4, <2>1
  <1> QED BY <1>3, <1>4

\* The rows of a day are those logged on that day.
LEMMA DayRows ==
  ASSUME NEW rows, KeptAt(rows), NEW p
  PROVE  InPeriod("day", rows, p) = Logs(rows, "day", p)
  <1>1. \A r \in rows : Period("day", r.key.at) = Period("day", Logged[r.line])
    <2> TAKE r \in rows
    <2>1. Logged[r.line] \in Nat /\ r.key.at = StoredAt(Logged[r.line])
      BY LineAssumption DEF KeptAt
    <2>2. Seconds["day"] = 86400
      BY DEF Seconds
    <2> QED BY <2>1, <2>2, HalfDay DEF Period
  <1> QED BY <1>1 DEF InPeriod, Logs

\* An hour that has an entry is not noon; its rows are those logged in it and, when it
\* is midnight's, those logged twelve hours later.
LEMMA HourRows ==
  ASSUME NEW rows, KeptAt(rows), NEW s \in rows
  PROVE  LET p == Period("hour", s.key.at) IN
         /\ ~Noon(p)
         /\ InPeriod("hour", rows, p)
              = Logs(rows, "hour", p)
                  \cup (IF Midnight(p) THEN Logs(rows, "hour", <<"hour", p[2] + 12>>) ELSE {})
         /\ Logs(rows, "hour", p) \cap Logs(rows, "hour", <<"hour", p[2] + 12>>) = {}
  <1> DEFINE h == s.key.at \div 3600
             late == IF h % 24 = 0 THEN {r \in rows : Logged[r.line] \div 3600 = h + 12} ELSE {}
  <1>1. Seconds["hour"] = 3600
    BY DEF Seconds
  <1>2. \A r \in rows : Logged[r.line] \in Nat /\ r.key.at = StoredAt(Logged[r.line])
    BY LineAssumption DEF KeptAt
  <1>3. /\ \A t : Period("hour", t) = <<"hour", t \div 3600>>
        /\ Period("hour", s.key.at) = <<"hour", h>> /\ <<"hour", h>>[2] = h
    BY <1>1 DEF Period
  <1>4. /\ \A n : Logs(rows, "hour", <<"hour", n>>) = {r \in rows : Logged[r.line] \div 3600 = n}
        /\ InPeriod("hour", rows, <<"hour", h>>) = {r \in rows : r.key.at \div 3600 = h}
    BY <1>3 DEF Logs, InPeriod
  <1>5. h \in Int /\ h % 24 # 12
    <2>1. PICK t \in Nat : s.key.at = StoredAt(t)
      BY <1>2
    <2>2. h = t \div 3600 \/ h = t \div 3600 - 12
      BY <2>1, HalfDay
    <2> QED BY <2>1, <2>2, HalfDay
  <1>6. ASSUME NEW r \in rows
        PROVE  r.key.at \div 3600 = h <=> r \in late \/ Logged[r.line] \div 3600 = h
    <2>1. PICK t \in Nat : t = Logged[r.line] /\ r.key.at = StoredAt(t)
      BY <1>2
    <2>2. PICK n \in Nat : n = t \div 3600
      BY <2>1, HalfDay
    <2>3. /\ n % 24 # 12 => r.key.at \div 3600 = n
          /\ n % 24 = 12 => r.key.at \div 3600 = n - 12
      BY <2>1, <2>2, HalfDay
    <2>4. r \in late <=> h % 24 = 0 /\ n = h + 12
      BY <2>1, <2>2
    <2> HIDE DEF h, late
    <2>5. n % 24 = 12 /\ n - 12 = h => h % 24 = 0 /\ n = h + 12
      BY <1>5
    <2>6. h % 24 = 0 /\ n = h + 12 => n % 24 = 12 /\ n - 12 = h
      BY <1>5
    <2>7. n = h => n % 24 # 12
      BY <1>5
    <2> QED BY <2>1, <2>2, <2>3, <2>4, <2>5, <2>6, <2>7, <1>5
  <1>7. late \subseteq rows
    OBVIOUS
  <1>8. /\ InPeriod("hour", rows, <<"hour", h>>) = Logs(rows, "hour", <<"hour", h>>) \cup late
        /\ Logs(rows, "hour", <<"hour", h>>) \cap Logs(rows, "hour", <<"hour", h + 12>>) = {}
    <2>1. h # h + 12
      BY <1>5
    <2> HIDE DEF h, late
    <2> QED BY <1>4, <1>6, <1>7, <2>1
  <1>9. late = IF h % 24 = 0 THEN Logs(rows, "hour", <<"hour", h + 12>>) ELSE {}
    <2>1. PICK n : n = h + 12
      OBVIOUS
    <2>2. Logs(rows, "hour", <<"hour", n>>) = {r \in rows : Logged[r.line] \div 3600 = n}
      BY <1>4
    <2>3. late = IF h % 24 = 0 THEN {r \in rows : Logged[r.line] \div 3600 = n} ELSE {}
      BY <2>1
    <2> HIDE DEF h, late
    <2> QED BY <2>1, <2>2, <2>3, Zenon
  <1> HIDE DEF h, late
  <1> QED BY <1>3, <1>5, <1>8, <1>9 DEF Noon, Midnight

LEMMA DisjointCount ==
  ASSUME NEW R, IsFiniteSet(R), NEW S, IsFiniteSet(S), R \cap S = {}
  PROVE  IsFiniteSet(R \cup S) /\ Cardinality(R \cup S) = Cardinality(R) + Cardinality(S)
  <1>1. Cardinality(R) \in Nat /\ Cardinality(S) \in Nat
    BY FS_CardinalityType
  <1> QED BY <1>1, FS_Union, FS_EmptySet

\* Reports file page views under the day and the hour in which they were logged, for
\* any seconds: all but those of the hour from noon, which are counted with the hour
\* from midnight of their day.
THEOREM HoursKept == Spec => []HoursButNoon
  <1>1. SoundInv /\ Ascending /\ ParsedKeys => HoursButNoon
    <2> SUFFICES ASSUME SoundInv, Ascending, ParsedKeys, NEW i \in DOMAIN answers,
                        answers[i].outcome = "report", answers[i].q.cmd = "pv"
                 PROVE  LET a == answers[i]  n(p) == EntriesOf(a)[p].totalnum IN
                        /\ a.q.form = "day" => \A p \in DOMAIN EntriesOf(a) :
                             n(p) = Cardinality(Logs(a.rows, "day", p))
                        /\ a.q.form = "hour" => \A p \in DOMAIN EntriesOf(a) :
                             /\ ~Noon(p)
                             /\ n(p) = Cardinality(Logs(a.rows, "hour", p))
                                  + IF Midnight(p)
                                    THEN Cardinality(Logs(a.rows, "hour", <<"hour", p[2] + 12>>))
                                    ELSE 0
      BY DEF HoursButNoon
    <2> DEFINE q == answers[i].q
               rows == answers[i].rows
               E == EntriesOf(answers[i])
    <2>1. E = ReportOf(q, rows).entries /\ KeptAt(rows)
      BY DEF EntriesOf, ParsedKeys
    <2>2. q.form \in Forms => /\ DOMAIN E = {Period(q.form, r.key.at) : r \in rows}
                              /\ \A p \in DOMAIN E :
                                   E[p].totalnum = Cardinality(InPeriod(q.form, rows, p))
      BY <2>1, PeriodEntries DEF Commands
    <2>3. IsFiniteSet(rows)
      <3>1. OncePerKey(rows) /\ KeysOf(rows) \subseteq DOMAIN table
        BY DEF SoundInv, SoundReports, OncePerKey, Asked
      <3>2. IsFiniteSet(KeysOf(rows))
        BY <3>1, FS_Subset DEF Ascending
      <3> QED BY <3>1, <3>2, KeyCount
    <2> HIDE DEF q, rows, E
    <2>4. ASSUME q.form = "day", NEW p \in DOMAIN E
          PROVE  E[p].totalnum = Cardinality(Logs(rows, "day", p))
      BY <2>1, <2>2, <2>4, DayRows DEF Forms
    <2>5. ASSUME q.form = "hour", NEW p \in DOMAIN E
          PROVE  /\ ~Noon(p)
                 /\ E[p].totalnum = Cardinality(Logs(rows, "hour", p))
                      + IF Midnight(p)
                        THEN Cardinality(Logs(rows, "hour", <<"hour", p[2] + 12>>)) ELSE 0
      <3>1. PICK s \in rows : p = Period("hour", s.key.at)
        BY <2>2, <2>5 DEF Forms
      <3> DEFINE R == Logs(rows, "hour", p)
                 S == Logs(rows, "hour", <<"hour", p[2] + 12>>)
      <3>2. /\ ~Noon(p) /\ R \cap S = {}
            /\ InPeriod("hour", rows, p) = R \cup (IF Midnight(p) THEN S ELSE {})
        BY <2>1, <3>1, HourRows
      <3>3. E[p].totalnum = Cardinality(InPeriod("hour", rows, p))
        BY <2>2, <2>5 DEF Forms
      <3>4. R \in SUBSET rows /\ S \in SUBSET rows
        BY DEF Logs
      <3> HIDE DEF R, S
      <3>5. IsFiniteSet(R) /\ IsFiniteSet(S)
        BY <2>3, <3>4, FS_Subset
      <3>6. Cardinality(R) \in Nat /\ Cardinality(R \cup S) = Cardinality(R) + Cardinality(S)
        BY <3>2, <3>5, DisjointCount, FS_CardinalityType
      <3>7. R \cup {} = R /\ Cardinality(R) = Cardinality(R) + 0
        BY <3>6
      <3>8. E[p].totalnum = Cardinality(R) + IF Midnight(p) THEN Cardinality(S) ELSE 0
        <4>1. CASE Midnight(p)
          BY <3>2, <3>3, <3>6, <4>1
        <4>2. CASE ~Midnight(p)
          BY <3>2, <3>3, <3>7, <4>2
        <4> QED BY <4>1, <4>2
      <3> QED BY <3>2, <3>8 DEF R, S
    <2> QED BY <2>4, <2>5 DEF q, rows, E
  <1>2. SoundInv => TypeOK
    BY DEF SoundInv
  <1> QED BY <1>1, <1>2, InitSound, NextSound, InitAscending, NextAscending,
             InitParsed, NextParsed, PTL DEF Spec

-----------------------------------------------------------------------------
(* What the table holds of a range.  These facts are about every state of   *)
(* the table, whoever reads it.                                             *)

AddrOf(rows) == {Addr[r.line] : r \in rows}

LEMMA StoredRows ==
  ASSUME NEW q
  PROVE  /\ \A r : r \in Stored(q) <=>
              \E k \in DOMAIN table : InRange(k, q) /\ r = [key |-> k, line |-> table[k]]
         /\ \A r \in Stored(q) : r.key \in DOMAIN table /\ r.line = table[r.key]
  BY DEF Stored, RowsOf

LEMMA StoredFinite ==
  ASSUME IsFiniteSet(DOMAIN table), NEW q
  PROVE  IsFiniteSet(Stored(q)) /\ IsFiniteSet(AddrOf(Stored(q)))
  <1>1. OncePerKey(Stored(q))
    BY DEF OncePerKey, Stored, RowsOf
  <1>2. KeysOf(Stored(q)) \subseteq DOMAIN table
    BY StoredRows DEF KeysOf
  <1>3. IsFiniteSet(Stored(q))
    BY <1>1, <1>2, FS_Subset, KeyCount
  <1> DEFINE S == Stored(q)
             f == [r \in S |-> Addr[r.line]]
  <1>4. {f[r] : r \in S} = AddrOf(S)
    BY DEF AddrOf
  <1> HIDE DEF S
  <1>5. IsFiniteSet({f[r] : r \in S})
    BY <1>3, ImageFinite DEF S
  <1> QED BY <1>3, <1>4, <1>5 DEF S

\* The total of a range, without periods.
LEMMA RangeTotal ==
  ASSUME NEW q, q.form = "none"
  PROVE  /\ q.cmd = "pv" => Total(q) = Cardinality(Stored(q))
         /\ q.cmd = "uv" => Total(q) = Cardinality(AddrOf(Stored(q)))
         /\ q.cmd = "avgtime" /\ Stored(q) # {} => Total(q) = Cardinality(Stored(q))
  <1> DEFINE rows == Stored(q)
  <1>1. Total(q) = FlinkReport(q, rows).entries[<<"data", 0>>].totalnum
    BY DEF Total
  <1> HIDE DEF rows
  <1>2. ASSUME q.cmd = "pv" PROVE Total(q) = Cardinality(rows)
    <2>1. FlinkReport(q, rows) = Report(Whole(Count(rows)))
      BY <1>2 DEF FlinkReport, ServicePv
    <2> QED BY <1>1, <2>1 DEF Report, Whole, Count
  <1>3. ASSUME q.cmd = "uv" PROVE Total(q) = Cardinality(AddrOf(rows))
    <2>1. FlinkReport(q, rows) = Report(Whole(Count(AddrOf(rows))))
      BY <1>3 DEF FlinkReport, ServiceUv, AddrOf
    <2> QED BY <1>1, <2>1 DEF Report, Whole, Count
  <1>4. ASSUME q.cmd = "avgtime", rows # {} PROVE Total(q) = Cardinality(rows)
    <2>1. FlinkReport(q, rows)
            = Report(Whole([totalnum |-> Cardinality(rows), totaltime |-> TotalTime(rows)]))
      BY <1>4 DEF FlinkReport, ServiceAvgTime
    <2> QED BY <1>1, <2>1 DEF Report, Whole
  <1> QED BY <1>2, <1>3, <1>4 DEF rows

\* A range cut in two: no row is in both parts, and every row in one.
LEMMA RangeCut ==
  ASSUME TypeOK, NEW q \in Question, NEW mid \in Int, q.from <= mid, mid <= q.to
  PROVE  /\ Stored([q EXCEPT !.to = mid]) \cap Stored([q EXCEPT !.from = mid]) = {}
         /\ Stored([q EXCEPT !.to = mid]) \cup Stored([q EXCEPT !.from = mid]) = Stored(q)
  <1> DEFINE left  == [q EXCEPT !.to = mid]
             right == [q EXCEPT !.from = mid]
  <1>1. /\ left.owner = q.owner /\ left.from = q.from /\ left.to = mid
        /\ right.owner = q.owner /\ right.from = mid /\ right.to = q.to
        /\ q.from \in Int /\ q.to \in Int
    BY DEF Question
  <1> HIDE DEF left, right
  <1>2. \A k \in DOMAIN table : k.at \in Int
    BY KeyFields DEF TypeOK
  <1>3. \A k \in DOMAIN table : /\ ~(InRange(k, left) /\ InRange(k, right))
                                /\ InRange(k, q) <=> InRange(k, left) \/ InRange(k, right)
    BY <1>1, <1>2 DEF InRange
  <1>4. Stored(left) \cap Stored(right) = {}
    BY <1>3 DEF Stored, RowsOf
  <1>5. Stored(left) \cup Stored(right) = Stored(q)
    BY <1>3, StoredRows
  <1> QED BY <1>4, <1>5 DEF left, right

\* Two adjacent ranges miss no row and count none twice, whatever the table holds and
\* whatever lies on their common bound: page views add up, visitors to no less.
THEOREM RangesSum == Spec => []RangesAddUp
  <1>1. TypeOK /\ IsFiniteSet(DOMAIN table) => RangesAddUp
    <2> SUFFICES ASSUME TypeOK, IsFiniteSet(DOMAIN table), NEW q \in Questions, NEW mid \in Bounds,
                        q.form = "none", q.cmd \in {"pv", "uv"}, q.from <= mid, mid <= q.to
                 PROVE  /\ q.cmd = "pv" => Total([q EXCEPT !.to = mid])
                                             + Total([q EXCEPT !.from = mid]) = Total(q)
                        /\ q.cmd = "uv" => Total([q EXCEPT !.to = mid])
                                             + Total([q EXCEPT !.from = mid]) >= Total(q)
      BY DEF RangesAddUp
    <2> DEFINE left  == [q EXCEPT !.to = mid]
               right == [q EXCEPT !.from = mid]
    <2>1. q \in Question /\ mid \in Int
      BY QuestionAssumption DEF Bounds, Question
    <2>2. /\ left.form = "none" /\ left.cmd = q.cmd
          /\ right.form = "none" /\ right.cmd = q.cmd
      BY <2>1 DEF Question
    <2>3. Stored(left) \cap Stored(right) = {} /\ Stored(left) \cup Stored(right) = Stored(q)
      BY <2>1, RangeCut
    <2> HIDE DEF left, right
    <2>4. ASSUME q.cmd = "pv" PROVE Total(left) + Total(right) = Total(q)
      <3>1. /\ Total(left) = Cardinality(Stored(left)) /\ Total(right) = Cardinality(Stored(right))
            /\ Total(q) = Cardinality(Stored(q))
        BY <2>2, <2>4, RangeTotal
      <3>2. IsFiniteSet(Stored(left)) /\ IsFiniteSet(Stored(right))
        BY StoredFinite
      <3> QED BY <2>3, <3>1, <3>2, DisjointCount
    <2>5. ASSUME q.cmd = "uv" PROVE Total(left) + Total(right) >= Total(q)
      <3> DEFINE A == AddrOf(Stored(left))
                 B == AddrOf(Stored(right))
      <3>1. Total(left) = Cardinality(A) /\ Total(right) = Cardinality(B)
        BY <2>2, <2>5, RangeTotal
      <3>2. Total(q) = Cardinality(AddrOf(Stored(q)))
        BY <2>5, RangeTotal
      <3>3. AddrOf(Stored(q)) = A \cup B
        BY <2>3 DEF AddrOf
      <3>4. IsFiniteSet(A) /\ IsFiniteSet(B)
        BY StoredFinite
      <3> HIDE DEF A, B
      <3>5. /\ Cardinality(A) \in Nat /\ Cardinality(B) \in Nat
            /\ IsFiniteSet(A \cap B) /\ Cardinality(A \cap B) \in Nat
            /\ Cardinality(A \cup B) = Cardinality(A) + Cardinality(B) - Cardinality(A \cap B)
        BY <3>4, FS_Union, FS_Intersection, FS_CardinalityType
      <3> QED BY <3>1, <3>2, <3>3, <3>5
    <2> QED BY <2>4, <2>5 DEF left, right
  <1>2. SoundInv /\ Ascending => TypeOK /\ IsFiniteSet(DOMAIN table)
    BY DEF SoundInv, Ascending
  <1> QED BY <1>1, <1>2, InitSound, NextSound, InitAscending, NextAscending, PTL DEF Spec

-----------------------------------------------------------------------------
(* Grouping against selecting.                                              *)

LEMMA MaxOfTwo ==
  ASSUME NEW a \in Int, NEW b \in Int
  PROVE  Max({a, b}) = IF a >= b THEN a ELSE b
  <1> DEFINE m == IF a >= b THEN a ELSE b
  <1>1. m \in {a, b} /\ \A y \in {a, b} : m >= y
    OBVIOUS
  <1>2. \A x \in {a, b} : (\A y \in {a, b} : x >= y) => x = m
    OBVIOUS
  <1> HIDE DEF m
  <1>3. Max({a, b}) = m
    BY <1>1, <1>2 DEF Max
  <1> QED BY <1>3 DEF m

LEMMA MinOfTwo ==
  ASSUME NEW a \in Int, NEW b \in Int
  PROVE  Min({a, b}) = IF a <= b THEN a ELSE b
  <1> DEFINE m == IF a <= b THEN a ELSE b
  <1>1. m \in {a, b} /\ \A y \in {a, b} : m <= y
    OBVIOUS
  <1>2. \A x \in {a, b} : (\A y \in {a, b} : x <= y) => x = m
    OBVIOUS
  <1> HIDE DEF m
  <1>3. Min({a, b}) = m
    BY <1>1, <1>2 DEF Min
  <1> QED BY <1>3 DEF m

\* A second lies in a period when it is between the period's first and last second.
LEMMA PeriodBounds ==
  ASSUME NEW form \in Forms, NEW t \in Int, NEW n \in Int
  PROVE  /\ Seconds[form] \in Int
         /\ Period(form, t) = <<form, n>> <=>
              n * Seconds[form] - 1 < t /\ t <= n * Seconds[form] + Seconds[form] - 1
         /\ t \div Seconds[form] \in Int
  <1>1. Seconds["day"] = 86400 /\ Seconds["hour"] = 3600 /\ Seconds["minute"] = 60
    BY DEF Seconds
  <1>2. CASE form = "day"
    <2>1. t \div 86400 = n <=> n * 86400 - 1 < t /\ t <= n * 86400 + 86400 - 1
      OBVIOUS
    <2> QED BY <1>1, <1>2, <2>1 DEF Period
  <1>3. CASE form = "hour"
    <2>1. t \div 3600 = n <=> n * 3600 - 1 < t /\ t <= n * 3600 + 3600 - 1
      OBVIOUS
    <2> QED BY <1>1, <1>3, <2>1 DEF Period
  <1>4. CASE form = "minute"
    <2>1. t \div 60 = n <=> n * 60 - 1 < t /\ t <= n * 60 + 60 - 1
      OBVIOUS
    <2> QED BY <1>1, <1>4, <2>1 DEF Period
  <1> QED BY <1>2, <1>3, <1>4 DEF Forms

\* The question about one period only, as EntriesAreRanges puts it.
OnlyPeriod(q, form, p) ==
    [q EXCEPT !.form = "none",
              !.from = Max({q.from, p[2] * Seconds[form] - 1}),
              !.to = Min({q.to, p[2] * Seconds[form] + Seconds[form] - 1})]

LEMMA OnlyPeriodRows ==
  ASSUME TypeOK, NEW q \in Question, NEW form \in Forms,
         NEW p \in {Period(form, r.key.at) : r \in Stored(q)}
  PROVE  Stored(OnlyPeriod(q, form, p)) = InPeriod(form, Stored(q), p)
  <1>1. PICK s \in Stored(q) : p = Period(form, s.key.at)
    OBVIOUS
  <1>2. \A k \in DOMAIN table : k.at \in Int
    BY KeyFields DEF TypeOK
  <1>3. s.key.at \in Int
    BY <1>2, StoredRows
  <1>4. PICK n \in Int : p = <<form, n>> /\ p[2] = n
    BY <1>1, <1>3, PeriodBounds DEF Period
  <1> DEFINE first == n * Seconds[form] - 1
             last  == n * Seconds[form] + Seconds[form] - 1
             o     == OnlyPeriod(q, form, p)
  <1>5. Seconds[form] \in Int /\ n * Seconds[form] \in Int
    BY PeriodBounds, <1>1, <1>3 DEF Forms, Seconds
  <1>6. first \in Int /\ last \in Int /\ q.from \in Int /\ q.to \in Int
    BY <1>5 DEF Question
  <1>7. o.owner = q.owner /\ o.from = Max({q.from, first}) /\ o.to = Min({q.to, last})
    BY <1>4 DEF OnlyPeriod, Question
  <1>8. \A k \in DOMAIN table :
          Period(form, k.at) = p <=> first < k.at /\ k.at <= last
    BY <1>2, <1>4, PeriodBounds
  <1> HIDE DEF first, last, o
  <1>9. \A k \in DOMAIN table :
          InRange(k, o) <=> InRange(k, q) /\ first < k.at /\ k.at <= last
    BY <1>2, <1>6, <1>7, MaxOfTwo, MinOfTwo DEF InRange
  <1>10. \A r : r \in Stored(o) <=> r \in Stored(q) /\ Period(form, r.key.at) = p
    BY <1>8, <1>9, StoredRows
  <1>11. Stored(o) = InPeriod(form, Stored(q), p)
    BY <1>10 DEF InPeriod
  <1> QED BY <1>11 DEF o

\* The visitors of a period are the addresses of its rows, each once.
LEMMA VisitorsCount ==
  ASSUME NEW form, NEW rows, IsFiniteSet(AddrOf(rows)),
         NEW p \in {Period(form, r.key.at) : r \in rows}
  PROVE  Visitors(form, rows)[p].totalnum = Cardinality(AddrOf(InPeriod(form, rows, p)))
  <1> DEFINE groups == {<<Period(form, r.key.at), Addr[r.line]>> : r \in rows}
             G == {g \in groups : g[1] = p}
             A == AddrOf(InPeriod(form, rows, p))
             f == [a \in A |-> <<p, a>>]
  <1>1. p \in DOMAIN Visitors(form, rows)
    BY VisitorsDomain
  <1>2. Visitors(form, rows)[p] = Count(G)
    BY <1>1 DEF Visitors
  <1>3. A \subseteq AddrOf(rows)
    BY DEF AddrOf, InPeriod
  <1>4. IsFiniteSet(A)
    BY <1>3, FS_Subset
  <1>5. \A a \in A : <<p, a>> \in G
    <2> TAKE a \in A
    <2>1. PICK r \in rows : Period(form, r.key.at) = p /\ a = Addr[r.line]
      BY DEF AddrOf, InPeriod
    <2>2. <<p, a>> \in groups /\ <<p, a>>[1] = p
      BY <2>1
    <2> QED BY <2>2
  <1>6. \A g \in G : \E a \in A : g = <<p, a>>
    <2> TAKE g \in G
    <2>1. PICK r \in rows : g = <<Period(form, r.key.at), Addr[r.line]>>
      OBVIOUS
    <2>2. Period(form, r.key.at) = p
      BY <2>1
    <2>3. Addr[r.line] \in A
      BY <2>2 DEF AddrOf, InPeriod
    <2> QED BY <2>1, <2>2, <2>3
  <1> HIDE DEF groups, G, A
  <1>7. f \in [A -> G]
    BY <1>5
  <1>8. \A a, b \in A : f[a] = f[b] => a = b
    <2> TAKE a, b \in A
    <2>1. <<p, a>> = <<p, b>> => a = b
      OBVIOUS
    <2> QED BY <2>1
  <1>9. \A g \in G : \E a \in A : f[a] = g
    BY <1>6
  <1>10. f \in Bijection(A, G)
    BY <1>7, <1>8, <1>9 DEF Bijection, Injection, Surjection, IsInjective
  <1> HIDE DEF f
  <1>11. Cardinality(G) = Cardinality(A)
    BY <1>4, <1>10, FS_Bijection DEF ExistsBijection
  <1> QED BY <1>2, <1>11 DEF Count, A

\* An entry of a report per period says what the same question without a format says
\* of that period alone, for any table: grouping and selecting agree.
THEOREM EntriesMatch == Spec => []EntriesAreRanges
  <1>1. TypeOK /\ IsFiniteSet(DOMAIN table) => EntriesAreRanges
    <2> SUFFICES ASSUME TypeOK, IsFiniteSet(DOMAIN table), NEW q \in Questions, NEW form \in Forms,
                        q.cmd \in Commands,
                        NEW p \in DOMAIN FlinkReport([q EXCEPT !.form = form], Stored(q)).entries
                 PROVE  FlinkReport([q EXCEPT !.form = form], Stored(q)).entries[p].totalnum
                          = Total(OnlyPeriod(q, form, p))
      BY DEF EntriesAreRanges, OnlyPeriod
    <2> DEFINE rows == Stored(q)
               qf   == [q EXCEPT !.form = form]
               E    == FlinkReport(qf, rows).entries
               o    == OnlyPeriod(q, form, p)
    <2>1. q \in Question /\ qf.form = form /\ qf.cmd = q.cmd /\ form # "none"
      BY QuestionAssumption DEF Question, Forms
    <2>2. o.form = "none" /\ o.cmd = q.cmd
      BY <2>1 DEF OnlyPeriod, Question
    <2>3. IsFiniteSet(rows) /\ IsFiniteSet(AddrOf(rows))
      BY StoredFinite
    <2> HIDE DEF rows, qf
    <2>4. /\ q.cmd = "pv" => E = CountEach(Groups(form, rows))
          /\ q.cmd = "avgtime" => E = TimesEach(Groups(form, rows))
          /\ q.cmd = "uv" => E = Visitors(form, rows)
      BY <2>1 DEF FlinkReport, FlinkPv, FlinkUv, FlinkAvgTime, Report
    <2>5. p \in {Period(form, r.key.at) : r \in rows} /\ p \in DOMAIN E
      <3> p \in DOMAIN E
        BY DEF rows, qf
      <3> HIDE DEF E
      <3>1. DOMAIN E = {Period(form, r.key.at) : r \in rows}
        <4>1. CASE q.cmd = "uv"
          BY <2>4, <4>1, VisitorsDomain
        <4>2. CASE q.cmd # "uv"
          BY <2>4, <4>2, GroupedCounts DEF Commands
        <4> QED BY <4>1, <4>2
      <3> QED BY <3>1
    <2>6. Stored(o) = InPeriod(form, rows, p)
      BY <2>1, <2>5, OnlyPeriodRows DEF rows
    <2> HIDE DEF E, o
    <2>7. q.cmd # "uv" => E[p].totalnum = Cardinality(InPeriod(form, rows, p))
      BY <2>4, <2>5, GroupedCounts DEF Commands
    <2>8. q.cmd = "uv" => E[p].totalnum = Cardinality(AddrOf(InPeriod(form, rows, p)))
      BY <2>3, <2>4, <2>5, VisitorsCount
    <2>9. InPeriod(form, rows, p) # {}
      BY <2>5 DEF InPeriod
    <2>10. E[p].totalnum = Total(o)
      BY <2>2, <2>6, <2>7, <2>8, <2>9, RangeTotal DEF Commands
    <2> QED BY <2>10 DEF E, o, rows, qf
  <1>2. SoundInv /\ Ascending => TypeOK /\ IsFiniteSet(DOMAIN table)
    BY DEF SoundInv, Ascending
  <1> QED BY <1>1, <1>2, InitSound, NextSound, InitAscending, NextAscending, PTL DEF Spec

-----------------------------------------------------------------------------
(* Two engines.                                                             *)

\* Whatever is stored, both engines answer questions by day, hour and minute alike, and
\* for any other format Spark fails or counts nothing, never something else than Flink.
THEOREM EnginesSame == Spec => []EnginesAgree
  <1>1. EnginesAgree
    <2> SUFFICES ASSUME NEW q \in Questions, q.cmd \in Commands, q.form # "none"
                 PROVE  LET S == SparkReport(q, Stored(q))  F == FlinkReport(q, Stored(q))
                        IN  /\ q.form \in Forms => S = F
                            /\ q.form \notin Forms /\ ~S.threw =>
                                 \A p \in DOMAIN S.entries : S.entries[p] = F.entries[p]
      BY DEF EnginesAgree
    <2> DEFINE rows == Stored(q)
    <2> HIDE DEF rows
    <2>1. CASE q.cmd = "pv"
      <3>1. SparkReport(q, rows) = SparkPv(q.form, rows) /\ FlinkReport(q, rows) = FlinkPv(q.form, rows)
        BY <2>1 DEF SparkReport, FlinkReport
      <3>2. q.form \in Forms => SparkPv(q.form, rows) = FlinkPv(q.form, rows)
        BY DEF SparkPv, FlinkPv
      <3>3. q.form \notin Forms => SparkPv(q.form, rows) \in {Report(<<>>), Threw}
        BY DEF SparkPv
      <3> QED BY <3>1, <3>2, <3>3 DEF Report, Threw, rows
    <2>2. CASE q.cmd = "uv"
      <3>1. SparkReport(q, rows) = SparkUv(q.form, rows) /\ FlinkReport(q, rows) = FlinkUv(q.form, rows)
        BY <2>2 DEF SparkReport, FlinkReport
      <3>2. q.form \in Forms => SparkUv(q.form, rows) = FlinkUv(q.form, rows)
        BY DEF SparkUv, FlinkUv
      <3>3. q.form \notin Forms /\ rows # {} => SparkUv(q.form, rows) = Threw
        BY DEF SparkUv
      <3>4. q.form \notin Forms /\ rows = {} => SparkUv(q.form, rows) = FlinkUv(q.form, rows)
        <4> SUFFICES ASSUME q.form \notin Forms, rows = {}
                     PROVE  SparkUv(q.form, rows) = FlinkUv(q.form, rows)
          OBVIOUS
        <4>1. {Addr[r.line] : r \in rows} = {}
          OBVIOUS
        <4>2. FlinkUv(q.form, rows) = Report(Whole(Count({Addr[r.line] : r \in rows})))
          BY DEF FlinkUv
        <4>3. SparkUv(q.form, rows) = Report(Whole(Count({})))
          BY DEF SparkUv
        <4> QED BY <4>1, <4>2, <4>3
      <3> QED BY <3>1, <3>2, <3>3, <3>4 DEF Threw, rows
    <2>3. CASE q.cmd = "avgtime"
      <3>1. /\ SparkReport(q, rows) = SparkAvgTime(q.form, rows)
            /\ FlinkReport(q, rows) = FlinkAvgTime(q.form, rows)
        BY <2>3 DEF SparkReport, FlinkReport
      <3>2. q.form \in Forms => SparkAvgTime(q.form, rows) = FlinkAvgTime(q.form, rows)
        BY DEF SparkAvgTime, FlinkAvgTime
      <3>3. q.form \notin Forms => SparkAvgTime(q.form, rows) = Threw
        BY DEF SparkAvgTime
      <3> QED BY <3>1, <3>2, <3>3 DEF Threw, rows
    <2> QED BY <2>1, <2>2, <2>3 DEF Commands
  <1> QED BY <1>1, PTL

-----------------------------------------------------------------------------
(* Sums.  The library's sum over a set is a recursive function over the    *)
(* subsets; what is proved of it goes by induction over them, which is     *)
(* stated for a set of subsets, Good, since no prover takes a predicate.   *)

LEMMA SubsetInduction ==
    ASSUME NEW S, IsFiniteSet(S), NEW Good,
           \A s \in SUBSET S : (\A t \in SUBSET s : t # s => t \in Good) => s \in Good
    PROVE  \A s \in SUBSET S : s \in Good
  <1> DEFINE Bad == {s \in SUBSET S : s \notin Good}
  <1>1. SUFFICES ASSUME Bad # {} PROVE FALSE
    OBVIOUS
  <1>2. IsWellFoundedOn(StrictSubsetOrdering(S), SUBSET S)
    BY FS_StrictSubsetOrderingWellFounded, FS_FiniteSubsetsOfFinite
  <1>3. Bad \subseteq SUBSET S
    OBVIOUS
  <1> HIDE DEF Bad
  <1>4. PICK s \in Bad : \A t \in Bad : ~(<<t, s>> \in StrictSubsetOrdering(S))
    BY <1>1, <1>2, <1>3, WFMin
  <1>5. \A t \in SUBSET s : t # s => t \in Good
    BY <1>3, <1>4 DEF StrictSubsetOrdering, Bad
  <1> QED  BY <1>3, <1>4, <1>5 DEF Bad

\* One of a set, as the library chooses it.
Chosen(s) == CHOOSE x \in s : TRUE

\* h is the library's sum of f over each subset of S.
Adds(h, f, S) ==
    h = [s \in SUBSET S |-> IF s = {} THEN 0 ELSE f[Chosen(s)] + h[s \ {Chosen(s)}]]

LEMMA ChosenIn == \A s : s # {} => Chosen(s) \in s
  BY DEF Chosen

LEMMA AddsValue ==
    ASSUME NEW S, NEW f, NEW h, Adds(h, f, S), NEW s \in SUBSET S
    PROVE  /\ s = {} => h[s] = 0
           /\ s # {} => h[s] = f[Chosen(s)] + h[s \ {Chosen(s)}]
  <1> DEFINE g == [t \in SUBSET S |-> IF t = {} THEN 0 ELSE f[Chosen(t)] + h[t \ {Chosen(t)}]]
  <1>1. h = g
    BY DEF Adds
  <1>2. g[s] = IF s = {} THEN 0 ELSE f[Chosen(s)] + h[s \ {Chosen(s)}]
    OBVIOUS
  <1> HIDE DEF g
  <1> QED  BY <1>1, <1>2

LEMMA AddsInt ==
    ASSUME NEW S, IsFiniteSet(S), NEW f, \A x \in S : f[x] \in Int, NEW h, Adds(h, f, S)
    PROVE  \A s \in SUBSET S : h[s] \in Int
  <1> DEFINE Good == {s \in SUBSET S : h[s] \in Int}
  <1>1. ASSUME NEW s \in SUBSET S, \A t \in SUBSET s : t # s => t \in Good
        PROVE  s \in Good
    <2>1. CASE s = {}
      <3>1. h[s] = 0
        BY <2>1, AddsValue
      <3> QED  BY <3>1
    <2>2. CASE s # {}
      <3>1. Chosen(s) \in s
        BY <2>2, ChosenIn
      <3>2. s \ {Chosen(s)} \in Good
        BY <1>1, <3>1
      <3>3. h[s] = f[Chosen(s)] + h[s \ {Chosen(s)}]
        BY <2>2, AddsValue
      <3> QED  BY <3>1, <3>2, <3>3
    <2> QED  BY <2>1, <2>2
  <1> HIDE DEF Good
  <1>2. \A s \in SUBSET S : s \in Good
    BY <1>1, SubsetInduction
  <1> QED  BY <1>2 DEF Good

\* It does not matter of which set a set is taken for a subset, nor what f is elsewhere.
LEMMA AddsUnique ==
    ASSUME NEW A, NEW B, NEW f, NEW g, NEW h, NEW k, Adds(h, f, A), Adds(k, g, B),
           NEW S, IsFiniteSet(S), S \subseteq A, S \subseteq B, \A x \in S : f[x] = g[x]
    PROVE  \A s \in SUBSET S : h[s] = k[s]
  <1> DEFINE Good == {s \in SUBSET S : h[s] = k[s]}
  <1>1. ASSUME NEW s \in SUBSET S, \A t \in SUBSET s : t # s => t \in Good
        PROVE  s \in Good
    <2>0. s \in SUBSET A /\ s \in SUBSET B
      OBVIOUS
    <2>1. CASE s = {}
      BY <2>0, <2>1, AddsValue
    <2>2. CASE s # {}
      <3>1. Chosen(s) \in s
        BY <2>2, ChosenIn
      <3>2. h[s \ {Chosen(s)}] = k[s \ {Chosen(s)}]
        BY <1>1, <3>1
      <3>3. h[s] = f[Chosen(s)] + h[s \ {Chosen(s)}]
        BY <2>0, <2>2, AddsValue
      <3>4. k[s] = g[Chosen(s)] + k[s \ {Chosen(s)}]
        BY <2>0, <2>2, AddsValue
      <3>5. f[Chosen(s)] = g[Chosen(s)]
        BY <3>1
      <3> QED  BY <3>2, <3>3, <3>4, <3>5
    <2> QED  BY <2>1, <2>2
  <1> HIDE DEF Good
  <1>2. \A s \in SUBSET S : s \in Good
    BY <1>1, SubsetInduction
  <1> QED  BY <1>2 DEF Good

\* The sum of f over S.
Summed(f, S) == (CHOOSE h : Adds(h, f, S))[S]

LEMMA AddsExists ==
    ASSUME NEW S, IsFiniteSet(S), NEW f
    PROVE  \E h : Adds(h, f, S)
  <1> DEFINE Good == {s \in SUBSET S : \E h : Adds(h, f, s)}
  <1>1. ASSUME NEW s \in SUBSET S, \A t \in SUBSET s : t # s => t \in Good
        PROVE  s \in Good
    <2> DEFINE h == [t \in SUBSET s |->
                       IF t = {} THEN 0 ELSE f[Chosen(t)] + Summed(f, t \ {Chosen(t)})]
    <2>1. ASSUME NEW t \in SUBSET s, t # {}
          PROVE  Summed(f, t \ {Chosen(t)}) = h[t \ {Chosen(t)}]
      <3>1. PICK u : u = t \ {Chosen(t)}
        OBVIOUS
      <3>2. u \in SUBSET s /\ u # s
        BY <2>1, <3>1, ChosenIn
      <3>3. \E k : Adds(k, f, u)
        BY <1>1, <3>2
      <3>4. PICK k : k = CHOOSE i : Adds(i, f, u)
        OBVIOUS
      <3>5. Adds(k, f, u) /\ Summed(f, u) = k[u]
        BY <3>3, <3>4 DEF Summed
      <3>6. CASE u = {}
        <4>1. k[u] = 0
          BY <3>5, <3>6, AddsValue
        <4>2. h[u] = 0
          BY <3>2, <3>6
        <4> QED  BY <3>1, <3>5, <4>1, <4>2
      <3>7. CASE u # {}
        <4>1. Chosen(u) \in u
          BY <3>7, ChosenIn
        <4>2. PICK v : v = u \ {Chosen(u)}
          OBVIOUS
        <4>3. k[u] = f[Chosen(u)] + k[v]
          BY <3>5, <3>7, <4>2, AddsValue
        <4>4. h[u] = f[Chosen(u)] + Summed(f, v)
          BY <3>2, <3>7, <4>2
        <4>5. v \in SUBSET s /\ v # s /\ v \subseteq u
          BY <3>2, <4>1, <4>2
        <4>6. \E j : Adds(j, f, v)
          BY <1>1, <4>5
        <4>7. PICK j : j = CHOOSE i : Adds(i, f, v)
          OBVIOUS
        <4>8. Adds(j, f, v) /\ Summed(f, v) = j[v]
          BY <4>6, <4>7 DEF Summed
        <4>9. IsFiniteSet(v) /\ v \subseteq v /\ v \in SUBSET v
          BY <4>5, FS_Subset
        <4>10. \A w \in SUBSET v : k[w] = j[w]
          BY <3>5, <4>5, <4>8, <4>9, AddsUnique
        <4> QED  BY <3>1, <3>5, <4>3, <4>4, <4>8, <4>9, <4>10
      <3> QED  BY <3>6, <3>7
    <2>2. h = [t \in SUBSET s |-> IF t = {} THEN 0 ELSE f[Chosen(t)] + h[t \ {Chosen(t)}]]
      BY <2>1
    <2>3. Adds(h, f, s)
      BY <2>2 DEF Adds
    <2> QED  BY <2>3
  <1> HIDE DEF Good
  <1>2. \A s \in SUBSET S : s \in Good
    BY <1>1, SubsetInduction
  <1> QED  BY <1>2 DEF Good

LEMMA SummedAdds ==
    ASSUME NEW S, IsFiniteSet(S), NEW f
    PROVE  \E h : Adds(h, f, S) /\ Summed(f, S) = h[S]
  <1>1. PICK h : h = CHOOSE k : Adds(k, f, S)
    OBVIOUS
  <1>2. \E k : Adds(k, f, S)
    BY AddsExists
  <1> QED  BY <1>1, <1>2 DEF Summed

LEMMA SummedInt ==
    ASSUME NEW S, IsFiniteSet(S), NEW f, \A x \in S : f[x] \in Int
    PROVE  Summed(f, S) \in Int
  <1>1. PICK h : Adds(h, f, S) /\ Summed(f, S) = h[S]
    BY SummedAdds
  <1>2. \A s \in SUBSET S : h[s] \in Int
    BY <1>1, AddsInt
  <1> QED  BY <1>1, <1>2

LEMMA SummedPart ==
    ASSUME NEW S, IsFiniteSet(S), NEW f, NEW h, Adds(h, f, S), NEW s \in SUBSET S
    PROVE  Summed(f, s) = h[s]
  <1>1. IsFiniteSet(s)
    BY FS_Subset
  <1>2. PICK k : Adds(k, f, s) /\ Summed(f, s) = k[s]
    BY <1>1, SummedAdds
  <1>3. \A t \in SUBSET s : h[t] = k[t]
    BY <1>1, <1>2, AddsUnique
  <1> QED  BY <1>2, <1>3

LEMMA SummedNone == \A f : Summed(f, {}) = 0
  <1> TAKE f
  <1>1. IsFiniteSet({})
    BY FS_EmptySet
  <1>2. PICK h : Adds(h, f, {}) /\ Summed(f, {}) = h[{}]
    BY <1>1, SummedAdds
  <1>3. h[{}] = 0
    BY <1>2, AddsValue
  <1> QED  BY <1>2, <1>3

LEMMA SummedChosen ==
    ASSUME NEW S, IsFiniteSet(S), S # {}, NEW f
    PROVE  Summed(f, S) = f[Chosen(S)] + Summed(f, S \ {Chosen(S)})
  <1>1. PICK h : Adds(h, f, S) /\ Summed(f, S) = h[S]
    BY SummedAdds
  <1>2. h[S] = f[Chosen(S)] + h[S \ {Chosen(S)}]
    BY <1>1, AddsValue
  <1>3. PICK s : s = S \ {Chosen(S)}
    OBVIOUS
  <1>4. Summed(f, s) = h[s]
    BY <1>1, <1>3, SummedPart
  <1> QED  BY <1>1, <1>2, <1>3, <1>4

LEMMA SummedSame ==
    ASSUME NEW S, IsFiniteSet(S), NEW f, NEW g, \A x \in S : f[x] = g[x]
    PROVE  Summed(f, S) = Summed(g, S)
  <1>1. PICK h : Adds(h, f, S) /\ Summed(f, S) = h[S]
    BY SummedAdds
  <1>2. PICK k : Adds(k, g, S) /\ Summed(g, S) = k[S]
    BY SummedAdds
  <1>3. \A s \in SUBSET S : h[s] = k[s]
    BY <1>1, <1>2, AddsUnique
  <1> QED  BY <1>1, <1>2, <1>3

\* Any element may be taken out first.
LEMMA SummedWithout ==
    ASSUME NEW S, IsFiniteSet(S), NEW f, \A x \in S : f[x] \in Int
    PROVE  \A x \in S : Summed(f, S) = f[x] + Summed(f, S \ {x})
  <1> DEFINE Good == {s \in SUBSET S : \A x \in s : Summed(f, s) = f[x] + Summed(f, s \ {x})}
  <1>1. ASSUME NEW s \in SUBSET S, \A t \in SUBSET s : t # s => t \in Good
        PROVE  s \in Good
    <2> SUFFICES ASSUME NEW x \in s PROVE Summed(f, s) = f[x] + Summed(f, s \ {x})
      OBVIOUS
    <2>0. IsFiniteSet(s) /\ s # {}
      BY FS_Subset
    <2>1. PICK y \in s : y = Chosen(s)
      BY <2>0, ChosenIn
    <2>2. Summed(f, s) = f[y] + Summed(f, s \ {y})
      BY <2>0, <2>1, SummedChosen
    <2>3. CASE x = y
      BY <2>2, <2>3
    <2>4. CASE x # y
      <3>1. PICK u : u = s \ {y}
        OBVIOUS
      <3>2. PICK v : v = s \ {x}
        OBVIOUS
      <3>3. PICK w : w = (s \ {x}) \ {y}
        OBVIOUS
      <3>4. w = u \ {x} /\ w = v \ {y} /\ x \in u /\ y \in v
        BY <2>4, <3>1, <3>2, <3>3
      <3>5. u \in Good /\ v \in Good
        BY <1>1, <3>1, <3>2
      <3>6. Summed(f, u) = f[x] + Summed(f, w)
        BY <3>4, <3>5
      <3>7. Summed(f, v) = f[y] + Summed(f, w)
        BY <3>4, <3>5
      <3>8. IsFiniteSet(w) /\ \A z \in w : f[z] \in Int
        BY <2>0, <3>3, FS_Subset
      <3>9. Summed(f, w) \in Int /\ f[x] \in Int /\ f[y] \in Int
        BY <3>8, SummedInt
      <3>10. Summed(f, s) = f[y] + Summed(f, u) /\ Summed(f, s \ {x}) = Summed(f, v)
        BY <2>2, <3>1, <3>2
      <3> HIDE DEF Good
      <3> QED  BY <3>6, <3>7, <3>9, <3>10
    <2> QED  BY <2>3, <2>4
  <1> HIDE DEF Good
  <1>2. \A s \in SUBSET S : s \in Good
    BY <1>1, SubsetInduction
  <1>3. S \in Good
    BY <1>2
  <1> QED  BY <1>3 DEF Good

\* Two sets that have nothing in common.
LEMMA SummedUnion ==
    ASSUME NEW A, IsFiniteSet(A), NEW B, IsFiniteSet(B), A \cap B = {},
           NEW f, \A x \in A \cup B : f[x] \in Int
    PROVE  Summed(f, A \cup B) = Summed(f, A) + Summed(f, B)
  <1> DEFINE Good == {s \in SUBSET B : Summed(f, A \cup s) = Summed(f, A) + Summed(f, s)}
  <1>0. Summed(f, A) \in Int
    BY SummedInt
  <1>1. ASSUME NEW s \in SUBSET B, \A t \in SUBSET s : t # s => t \in Good
        PROVE  s \in Good
    <2>0. IsFiniteSet(s)
      BY FS_Subset
    <2>1. CASE s = {}
      <3>1. PICK u : u = A \cup s /\ u = A
        BY <2>1
      <3>2. Summed(f, s) = 0
        BY <2>1, SummedNone
      <3>3. Summed(f, A \cup s) = Summed(f, A) + Summed(f, s)
        BY <1>0, <3>1, <3>2
      <3> QED  BY <3>3
    <2>2. CASE s # {}
      <3>1. PICK x : x \in s
        BY <2>2
      <3>2. PICK t : t = s \ {x}
        OBVIOUS
      <3>3. t \in SUBSET s /\ t # s /\ x \in B
        BY <3>1, <3>2
      <3>4. t \in Good
        BY <1>1, <3>3
      <3>5. Summed(f, A \cup t) = Summed(f, A) + Summed(f, t)
        BY <3>4
      <3>6. PICK u : u = A \cup s
        OBVIOUS
      <3>7. IsFiniteSet(u) /\ x \in u /\ u \ {x} = A \cup t
        BY <2>0, <3>1, <3>2, <3>3, <3>6, FS_Union
      <3>8. \A z \in u : f[z] \in Int
        BY <3>6
      <3> HIDE DEF Good
      <3>9. Summed(f, u) = f[x] + Summed(f, A \cup t)
        BY <3>7, <3>8, SummedWithout
      <3>10. \A z \in s : f[z] \in Int
        OBVIOUS
      <3>11. Summed(f, s) = f[x] + Summed(f, t)
        BY <2>0, <3>1, <3>2, <3>10, SummedWithout
      <3>12. IsFiniteSet(t) /\ \A z \in t : f[z] \in Int
        BY <2>0, <3>2, <3>10, FS_Subset
      <3>13. Summed(f, t) \in Int /\ f[x] \in Int
        BY <3>1, <3>10, <3>12, SummedInt
      <3>14. Summed(f, A \cup s) = Summed(f, A) + Summed(f, s)
        BY <1>0, <3>5, <3>6, <3>9, <3>11, <3>13
      <3> QED  BY <3>14 DEF Good
    <2> QED  BY <2>1, <2>2
  <1> HIDE DEF Good
  <1>2. \A s \in SUBSET B : s \in Good
    BY <1>1, SubsetInduction
  <1>3. B \in Good
    BY <1>2
  <1> QED  BY <1>3 DEF Good

\* What the sets R[p] have together.
Together(R, P) == UNION {R[p] : p \in P}

LEMMA TogetherFinite ==
    ASSUME NEW P, IsFiniteSet(P), NEW R, \A p \in P : IsFiniteSet(R[p])
    PROVE  IsFiniteSet(Together(R, P))
  <1> DEFINE T == {R[p] : p \in P}
             f == [p \in P |-> R[p]]
  <1>1. f \in Surjection(P, T)
    BY DEF Surjection
  <1> HIDE DEF f, T
  <1>2. IsFiniteSet(T)
    BY <1>1, FS_Surjection
  <1>3. \A t \in T : IsFiniteSet(t)
    BY DEF T
  <1> QED  BY <1>2, <1>3, FS_UNION DEF Together, T

LEMMA TogetherWithout ==
    ASSUME NEW P, NEW R, NEW p \in P
    PROVE  Together(R, P) = R[p] \cup Together(R, P \ {p})
  BY DEF Together

\* Sets that have nothing in common are summed one after the other.
LEMMA SummedParts ==
    ASSUME NEW P, IsFiniteSet(P), NEW R, \A p \in P : IsFiniteSet(R[p]),
           \A p, q \in P : p # q => R[p] \cap R[q] = {},
           NEW f, \A p \in P : \A r \in R[p] : f[r] \in Int,
           NEW g, \A p \in P : g[p] = Summed(f, R[p])
    PROVE  Summed(g, P) = Summed(f, Together(R, P))
  <1> DEFINE Good == {s \in SUBSET P : Summed(g, s) = Summed(f, Together(R, s))}
  <1>1. ASSUME NEW s \in SUBSET P, \A t \in SUBSET s : t # s => t \in Good
        PROVE  s \in Good
    <2>0. IsFiniteSet(s)
      BY FS_Subset
    <2>1. CASE s = {}
      <3>1. Together(R, s) = {}
        BY <2>1 DEF Together
      <3>2. Summed(g, s) = 0 /\ Summed(f, Together(R, s)) = 0
        BY <2>1, <3>1, SummedNone
      <3> QED  BY <3>2
    <2>2. CASE s # {}
      <3>1. PICK p : p \in s
        BY <2>2
      <3>2. PICK t : t = s \ {p}
        OBVIOUS
      <3>3. t \in Good
        BY <1>1, <3>1, <3>2
      <3>4. Summed(g, t) = Summed(f, Together(R, t))
        BY <3>3
      <3> HIDE DEF Good
      <3>5. \A q \in s : g[q] \in Int
        <4> TAKE q \in s
        <4>1. IsFiniteSet(R[q]) /\ \A r \in R[q] : f[r] \in Int
          OBVIOUS
        <4>2. Summed(f, R[q]) \in Int
          BY <4>1, SummedInt
        <4> QED  BY <4>2
      <3>6. Summed(g, s) = g[p] + Summed(g, t)
        BY <2>0, <3>1, <3>2, <3>5, SummedWithout
      <3>7. Together(R, s) = R[p] \cup Together(R, t)
        BY <3>1, <3>2, TogetherWithout
      <3>8. PICK u : u = Together(R, t)
        OBVIOUS
      <3>9. IsFiniteSet(t) /\ t \subseteq P
        BY <2>0, <3>2, FS_Subset
      <3>10. IsFiniteSet(u)
        BY <3>8, <3>9, TogetherFinite
      <3>11. R[p] \cap u = {}
        BY <3>1, <3>2, <3>8 DEF Together
      <3>12. \A r \in R[p] \cup u : f[r] \in Int
        BY <3>1, <3>8, <3>9 DEF Together
      <3>13. IsFiniteSet(R[p])
        BY <3>1
      <3>14. PICK a : a = R[p]
        OBVIOUS
      <3>15. Summed(f, a \cup u) = Summed(f, a) + Summed(f, u)
        BY <3>10, <3>11, <3>12, <3>13, <3>14, SummedUnion
      <3>16. g[p] = Summed(f, a)
        BY <3>1, <3>14
      <3>17. Summed(g, s) = Summed(f, Together(R, s))
        BY <3>4, <3>6, <3>7, <3>8, <3>14, <3>15, <3>16
      <3> QED  BY <3>17 DEF Good
    <2> QED  BY <2>1, <2>2
  <1> HIDE DEF Good
  <1>2. \A s \in SUBSET P : s \in Good
    BY <1>1, SubsetInduction
  <1>3. P \in Good
    BY <1>2
  <1> QED  BY <1>3 DEF Good

\* A count is a sum of ones.
LEMMA SummedOnes ==
    ASSUME NEW S, IsFiniteSet(S), NEW f, \A x \in S : f[x] = 1
    PROVE  Summed(f, S) = Cardinality(S)
  <1> DEFINE Good == {s \in SUBSET S : Summed(f, s) = Cardinality(s)}
  <1>1. ASSUME NEW s \in SUBSET S, \A t \in SUBSET s : t # s => t \in Good
        PROVE  s \in Good
    <2>0. IsFiniteSet(s)
      BY FS_Subset
    <2>1. CASE s = {}
      <3>1. Summed(f, s) = 0 /\ Cardinality(s) = 0
        BY <2>1, SummedNone, FS_EmptySet
      <3> QED  BY <3>1
    <2>2. CASE s # {}
      <3>1. PICK x : x \in s
        BY <2>2
      <3>2. PICK t : t = s \ {x}
        OBVIOUS
      <3>3. t \in Good
        BY <1>1, <3>1, <3>2
      <3>4. Summed(f, t) = Cardinality(t)
        BY <3>3
      <3> HIDE DEF Good
      <3>5. \A z \in s : f[z] \in Int
        OBVIOUS
      <3>6. Summed(f, s) = f[x] + Summed(f, t)
        BY <2>0, <3>1, <3>2, <3>5, SummedWithout
      <3>7. Cardinality(t) = Cardinality(s) - 1
        BY <2>0, <3>1, <3>2, FS_RemoveElement
      <3>8. Cardinality(s) \in Nat /\ f[x] = 1
        BY <2>0, <3>1, FS_CardinalityType
      <3>9. Summed(f, s) = Cardinality(s)
        BY <3>4, <3>6, <3>7, <3>8
      <3> QED  BY <3>9 DEF Good
    <2> QED  BY <2>1, <2>2
  <1> HIDE DEF Good
  <1>2. \A s \in SUBSET S : s \in Good
    BY <1>1, SubsetInduction
  <1>3. S \in Good
    BY <1>2
  <1> QED  BY <1>3 DEF Good

\* Sets count together at most what they count one by one.
LEMMA TogetherCount ==
    ASSUME NEW P, IsFiniteSet(P), NEW R, \A p \in P : IsFiniteSet(R[p]),
           NEW g, \A p \in P : g[p] = Cardinality(R[p])
    PROVE  Cardinality(Together(R, P)) <= Summed(g, P)
  <1> DEFINE Good == {s \in SUBSET P : Cardinality(Together(R, s)) <= Summed(g, s)}
  <1>0. \A p \in P : g[p] \in Int
    BY FS_CardinalityType
  <1>1. ASSUME NEW s \in SUBSET P, \A t \in SUBSET s : t # s => t \in Good
        PROVE  s \in Good
    <2>0. IsFiniteSet(s)
      BY FS_Subset
    <2>1. CASE s = {}
      <3>1. Together(R, s) = {}
        BY <2>1 DEF Together
      <3>2. Summed(g, s) = 0 /\ Cardinality(Together(R, s)) = 0
        BY <2>1, <3>1, SummedNone, FS_EmptySet
      <3> QED  BY <3>2
    <2>2. CASE s # {}
      <3>1. PICK p : p \in s
        BY <2>2
      <3>2. PICK t : t = s \ {p}
        OBVIOUS
      <3>3. t \in Good
        BY <1>1, <3>1, <3>2
      <3>4. Cardinality(Together(R, t)) <= Summed(g, t)
        BY <3>3
      <3> HIDE DEF Good
      <3>5. Summed(g, s) = g[p] + Summed(g, t)
        BY <1>0, <2>0, <3>1, <3>2, SummedWithout
      <3>6. PICK u : u = Together(R, t)
        OBVIOUS
      <3>7. PICK a : a = R[p]
        OBVIOUS
      <3>8. Together(R, s) = a \cup u
        BY <3>1, <3>2, <3>6, <3>7, TogetherWithout
      <3>9. IsFiniteSet(t) /\ t \subseteq P
        BY <2>0, <3>2, FS_Subset
      <3>10. IsFiniteSet(u) /\ IsFiniteSet(a)
        BY <3>1, <3>6, <3>7, <3>9, TogetherFinite
      <3>11. Cardinality(a \cup u) = Cardinality(a) + Cardinality(u) - Cardinality(a \cap u)
        BY <3>10, FS_Union
      <3>12. IsFiniteSet(a \cap u)
        BY <3>10, FS_Intersection
      <3>13. Cardinality(a) \in Nat /\ Cardinality(u) \in Nat /\ Cardinality(a \cap u) \in Nat
        BY <3>10, <3>12, FS_CardinalityType
      <3>14. g[p] = Cardinality(a) /\ Summed(g, t) \in Int
        BY <1>0, <3>1, <3>7, <3>9, SummedInt
      <3>15. Cardinality(Together(R, s)) <= Summed(g, s)
        BY <3>4, <3>5, <3>6, <3>8, <3>11, <3>13, <3>14
      <3> QED  BY <3>15 DEF Good
    <2> QED  BY <2>1, <2>2
  <1> HIDE DEF Good
  <1>2. \A s \in SUBSET P : s \in Good
    BY <1>1, SubsetInduction
  <1>3. P \in Good
    BY <1>2
  <1> QED  BY <1>3 DEF Good

-----------------------------------------------------------------------------
(* Extremes.                                                               *)

LEMMA MaxIs ==
    ASSUME NEW S, S \subseteq Int, NEW m \in S, \A y \in S : m >= y
    PROVE  Max(S) = m
  <1>1. \A x \in S : (\A y \in S : x >= y) => x = m
    OBVIOUS
  <1> QED  BY <1>1 DEF Max

LEMMA MinIs ==
    ASSUME NEW S, S \subseteq Int, NEW m \in S, \A y \in S : m <= y
    PROVE  Min(S) = m
  <1>1. \A x \in S : (\A y \in S : x <= y) => x = m
    OBVIOUS
  <1> QED  BY <1>1 DEF Min

\* A finite set of numbers has a largest and a smallest one.
LEMMA Extremes ==
    ASSUME NEW S, IsFiniteSet(S), S \subseteq Int, S # {}
    PROVE  (\E m \in S : \A y \in S : m >= y) /\ (\E m \in S : \A y \in S : m <= y)
  <1> DEFINE Good == {s \in SUBSET S : s # {} =>
                        /\ \E m \in s : \A y \in s : m >= y
                        /\ \E m \in s : \A y \in s : m <= y}
  <1>1. ASSUME NEW s \in SUBSET S, \A t \in SUBSET s : t # s => t \in Good
        PROVE  s \in Good
    <2> SUFFICES ASSUME s # {}
                 PROVE  /\ \E m \in s : \A y \in s : m >= y
                        /\ \E m \in s : \A y \in s : m <= y
      OBVIOUS
    <2>1. PICK x : x \in s
      OBVIOUS
    <2>2. CASE s \ {x} = {}
      <3>1. s = {x} /\ x \in Int
        BY <2>1, <2>2
      <3> QED  BY <3>1
    <2>3. CASE s \ {x} # {}
      <3>1. s \ {x} \in Good
        BY <1>1, <2>1
      <3>2. PICK m \in s \ {x} : \A y \in s \ {x} : m >= y
        BY <2>3, <3>1
      <3>3. PICK n \in s \ {x} : \A y \in s \ {x} : n <= y
        BY <2>3, <3>1
      <3>4. \A y \in s : y \in Int
        OBVIOUS
      <3> HIDE DEF Good
      <3>5. \E k \in s : \A y \in s : k >= y
        <4>1. CASE m >= x
          BY <3>2, <3>4, <4>1
        <4>2. CASE ~(m >= x)
          BY <2>1, <3>2, <3>4, <4>2
        <4> QED  BY <4>1, <4>2
      <3>6. \E k \in s : \A y \in s : k <= y
        <4>1. CASE n <= x
          BY <3>3, <3>4, <4>1
        <4>2. CASE ~(n <= x)
          BY <2>1, <3>3, <3>4, <4>2
        <4> QED  BY <4>1, <4>2
      <3> QED  BY <3>5, <3>6
    <2> QED  BY <2>2, <2>3
  <1> HIDE DEF Good
  <1>2. \A s \in SUBSET S : s \in Good
    BY <1>1, SubsetInduction
  <1>3. S \in Good
    BY <1>2
  <1> QED  BY <1>3 DEF Good

\* The extremes of sets together are those of the sets' own.
LEMMA ExtremesTogether ==
    ASSUME NEW P, IsFiniteSet(P), P # {}, NEW V,
           \A p \in P : IsFiniteSet(V[p]) /\ V[p] # {} /\ V[p] \subseteq Int
    PROVE  /\ Max(Together(V, P)) = Max({Max(V[p]) : p \in P})
           /\ Min(Together(V, P)) = Min({Min(V[p]) : p \in P})
  <1> DEFINE T == Together(V, P)
             tops == {Max(V[p]) : p \in P}
             lows == {Min(V[p]) : p \in P}
  <1>1. IsFiniteSet(T)
    BY TogetherFinite
  <1>2. \A y : y \in T <=> \E p \in P : y \in V[p]
    BY DEF Together
  <1>3. T # {} /\ T \subseteq Int
    BY <1>2
  <1> HIDE DEF T
  <1>4. ASSUME NEW p \in P
        PROVE  /\ Max(V[p]) \in V[p] /\ \A y \in V[p] : Max(V[p]) >= y
               /\ Min(V[p]) \in V[p] /\ \A y \in V[p] : Min(V[p]) <= y
    <2>1. PICK v : v = V[p]
      OBVIOUS
    <2>2. IsFiniteSet(v) /\ v # {} /\ v \subseteq Int
      BY <2>1
    <2>3. PICK m \in v : \A y \in v : m >= y
      BY <2>2, Extremes
    <2>4. PICK n \in v : \A y \in v : n <= y
      BY <2>2, Extremes
    <2>5. Max(v) = m
      BY <2>2, <2>3, MaxIs
    <2>6. Min(v) = n
      BY <2>2, <2>4, MinIs
    <2> QED  BY <2>1, <2>3, <2>4, <2>5, <2>6
  <1>5. Max(T) = Max(tops)
    <2>1. PICK m \in T : \A y \in T : m >= y
      BY <1>1, <1>3, Extremes
    <2>2. Max(T) = m
      BY <1>3, <2>1, MaxIs
    <2>3. PICK p \in P : m \in V[p]
      BY <1>2, <2>1
    <2>4. Max(V[p]) \in T
      BY <1>2, <1>4
    <2>5. m \in Int /\ Max(V[p]) \in Int /\ m >= Max(V[p]) /\ Max(V[p]) >= m
      BY <1>3, <1>4, <2>1, <2>3, <2>4
    <2>6. m = Max(V[p])
      BY <2>5
    <2>7. m \in tops
      BY <2>6
    <2>8. \A q \in P : Max(V[q]) \in T
      BY <1>2, <1>4
    <2>9. tops \subseteq Int /\ \A y \in tops : m >= y
      BY <1>3, <2>1, <2>8
    <2> HIDE DEF tops
    <2>10. Max(tops) = m
      BY <2>7, <2>9, MaxIs
    <2> QED  BY <2>2, <2>10
  <1>6. Min(T) = Min(lows)
    <2>1. PICK m \in T : \A y \in T : m <= y
      BY <1>1, <1>3, Extremes
    <2>2. Min(T) = m
      BY <1>3, <2>1, MinIs
    <2>3. PICK p \in P : m \in V[p]
      BY <1>2, <2>1
    <2>4. Min(V[p]) \in T
      BY <1>2, <1>4
    <2>5. m \in Int /\ Min(V[p]) \in Int /\ m <= Min(V[p]) /\ Min(V[p]) <= m
      BY <1>3, <1>4, <2>1, <2>3, <2>4
    <2>6. m = Min(V[p])
      BY <2>5
    <2>7. m \in lows
      BY <2>6
    <2>8. \A q \in P : Min(V[q]) \in T
      BY <1>2, <1>4
    <2>9. lows \subseteq Int /\ \A y \in lows : m <= y
      BY <1>3, <2>1, <2>8
    <2> HIDE DEF lows
    <2>10. Min(lows) = m
      BY <2>7, <2>9, MinIs
    <2> QED  BY <2>2, <2>10
  <1> QED  BY <1>5, <1>6 DEF T

-----------------------------------------------------------------------------
(* Periods within periods.                                                 *)

LEMMA SumOfCounts ==
    ASSUME NEW S, IsFiniteSet(S), NEW F
    PROVE  SumCounts(F, S) = Summed([p \in S |-> F[p].totalnum], S)
  <1> DEFINE g == [p \in S |-> F[p].totalnum]
             B(h) == [s \in SUBSET S |->
                        IF s = {} THEN 0
                        ELSE LET y == CHOOSE y \in s : TRUE IN F[y].totalnum + h[s \ {y}]]
  <1>1. ASSUME NEW h PROVE h = B(h) <=> Adds(h, g, S)
    <2>1. ASSUME NEW s \in SUBSET S, s # {}
          PROVE  (LET y == CHOOSE y \in s : TRUE IN F[y].totalnum + h[s \ {y}])
                   = g[Chosen(s)] + h[s \ {Chosen(s)}]
      <3>1. Chosen(s) \in S
        BY <2>1, ChosenIn
      <3>2. g[Chosen(s)] = F[Chosen(s)].totalnum
        BY <3>1
      <3> QED  BY <3>2 DEF Chosen
    <2>2. B(h) = [s \in SUBSET S |-> IF s = {} THEN 0 ELSE g[Chosen(s)] + h[s \ {Chosen(s)}]]
      BY <2>1
    <2> QED  BY <2>2 DEF Adds
  <1>2. \E h : Adds(h, g, S)
    BY AddsExists
  <1>3. PICK it : it = CHOOSE h : h = B(h)
    OBVIOUS
  <1>4. SumCounts(F, S) = it[S]
    BY <1>3 DEF SumCounts, MapThenSumSet, MapThenFoldSet
  <1> HIDE DEF B, g
  <1>5. it = B(it)
    BY <1>1, <1>2, <1>3
  <1>6. Adds(it, g, S)
    BY <1>1, <1>5
  <1>7. S \in SUBSET S
    OBVIOUS
  <1>8. Summed(g, S) = it[S]
    BY <1>6, <1>7, SummedPart
  <1> QED  BY <1>4, <1>8 DEF g

LEMMA SumOfTimes ==
    ASSUME NEW S, IsFiniteSet(S), NEW F
    PROVE  SumTimes(F, S) = Summed([p \in S |-> F[p].totaltime], S)
  <1> DEFINE g == [p \in S |-> F[p].totaltime]
             B(h) == [s \in SUBSET S |->
                        IF s = {} THEN 0
                        ELSE LET y == CHOOSE y \in s : TRUE IN F[y].totaltime + h[s \ {y}]]
  <1>1. ASSUME NEW h PROVE h = B(h) <=> Adds(h, g, S)
    <2>1. ASSUME NEW s \in SUBSET S, s # {}
          PROVE  (LET y == CHOOSE y \in s : TRUE IN F[y].totaltime + h[s \ {y}])
                   = g[Chosen(s)] + h[s \ {Chosen(s)}]
      <3>1. Chosen(s) \in S
        BY <2>1, ChosenIn
      <3>2. g[Chosen(s)] = F[Chosen(s)].totaltime
        BY <3>1
      <3> QED  BY <3>2 DEF Chosen
    <2>2. B(h) = [s \in SUBSET S |-> IF s = {} THEN 0 ELSE g[Chosen(s)] + h[s \ {Chosen(s)}]]
      BY <2>1
    <2> QED  BY <2>2 DEF Adds
  <1>2. \E h : Adds(h, g, S)
    BY AddsExists
  <1>3. PICK it : it = CHOOSE h : h = B(h)
    OBVIOUS
  <1>4. SumTimes(F, S) = it[S]
    BY <1>3 DEF SumTimes, MapThenSumSet, MapThenFoldSet
  <1> HIDE DEF B, g
  <1>5. it = B(it)
    BY <1>1, <1>2, <1>3
  <1>6. Adds(it, g, S)
    BY <1>1, <1>5
  <1>7. S \in SUBSET S
    OBVIOUS
  <1>8. Summed(g, S) = it[S]
    BY <1>6, <1>7, SummedPart
  <1> QED  BY <1>4, <1>8 DEF g

CostIn(rows) == [r \in rows |-> Cost[r.line]]

LEMMA SumOfCosts ==
    ASSUME NEW S, IsFiniteSet(S)
    PROVE  TotalTime(S) = Summed(CostIn(S), S)
  <1> DEFINE g == CostIn(S)
             B(h) == [s \in SUBSET S |->
                        IF s = {} THEN 0
                        ELSE LET y == CHOOSE y \in s : TRUE IN Cost[y.line] + h[s \ {y}]]
  <1>1. ASSUME NEW h PROVE h = B(h) <=> Adds(h, g, S)
    <2>1. ASSUME NEW s \in SUBSET S, s # {}
          PROVE  (LET y == CHOOSE y \in s : TRUE IN Cost[y.line] + h[s \ {y}])
                   = g[Chosen(s)] + h[s \ {Chosen(s)}]
      <3>1. Chosen(s) \in S
        BY <2>1, ChosenIn
      <3>2. g[Chosen(s)] = Cost[Chosen(s).line]
        BY <3>1 DEF CostIn
      <3> HIDE DEF g
      <3> QED  BY <3>2 DEF Chosen
    <2>2. B(h) = [s \in SUBSET S |-> IF s = {} THEN 0 ELSE g[Chosen(s)] + h[s \ {Chosen(s)}]]
      BY <2>1
    <2> QED  BY <2>2 DEF Adds
  <1>2. \E h : Adds(h, g, S)
    BY AddsExists
  <1>3. PICK it : it = CHOOSE h : h = B(h)
    OBVIOUS
  <1>4. TotalTime(S) = it[S]
    BY <1>3 DEF TotalTime, MapThenSumSet, MapThenFoldSet
  <1> HIDE DEF B, g
  <1>5. it = B(it)
    BY <1>1, <1>2, <1>3
  <1>6. Adds(it, g, S)
    BY <1>1, <1>5
  <1>7. S \in SUBSET S
    OBVIOUS
  <1>8. Summed(g, S) = it[S]
    BY <1>6, <1>7, SummedPart
  <1> QED  BY <1>4, <1>8 DEF g

\* A minute lies within one hour, an hour within one day.
LEMMA Nests ==
    ASSUME NEW fine \in Forms, NEW coarse \in Forms, Seconds[fine] < Seconds[coarse],
           NEW t \in Int
    PROVE  ((t \div Seconds[fine]) * Seconds[fine]) \div Seconds[coarse] = t \div Seconds[coarse]
  <1>1. Seconds["day"] = 86400 /\ Seconds["hour"] = 3600 /\ Seconds["minute"] = 60
    BY DEF Seconds
  <1>2. ((t \div 60) * 60) \div 3600 = t \div 3600
    OBVIOUS
  <1>3. ((t \div 60) * 60) \div 86400 = t \div 86400
    OBVIOUS
  <1>4. ((t \div 3600) * 3600) \div 86400 = t \div 86400
    OBVIOUS
  <1>5. \/ fine = "minute" /\ coarse \in {"hour", "day"}
        \/ fine = "hour" /\ coarse = "day"
    BY <1>1 DEF Forms
  <1> QED  BY <1>1, <1>2, <1>3, <1>4, <1>5

\* The names of the periods that have rows.
PeriodsIn(form, rows) == {Period(form, r.key.at) : r \in rows}
Inside(fine, coarse, rows, c) == {p \in PeriodsIn(fine, rows) : Within(fine, coarse, p, c)}
Parts(fine, rows) == [p \in PeriodsIn(fine, rows) |-> InPeriod(fine, rows, p)]

LEMMA InsidePeriod ==
    ASSUME NEW fine \in Forms, NEW coarse \in Forms, Seconds[fine] < Seconds[coarse],
           NEW rows, \A r \in rows : r.key.at \in Int,
           NEW c \in PeriodsIn(coarse, rows), NEW r \in rows
    PROVE  Within(fine, coarse, Period(fine, r.key.at), c) <=> Period(coarse, r.key.at) = c
  <1>1. PICK s \in rows : c = Period(coarse, s.key.at)
    BY DEF PeriodsIn
  <1>2. PICK t \in Int : t = r.key.at
    OBVIOUS
  <1>3. PICK n : c = <<coarse, n>> /\ c[2] = n
    BY <1>1 DEF Period
  <1>4. Period(fine, t)[2] = t \div Seconds[fine]
    BY DEF Period
  <1>5. ((t \div Seconds[fine]) * Seconds[fine]) \div Seconds[coarse] = t \div Seconds[coarse]
    BY Nests
  <1>6. Within(fine, coarse, Period(fine, t), c) <=> t \div Seconds[coarse] = n
    BY <1>3, <1>4, <1>5 DEF Within
  <1>7. Period(coarse, t) = c <=> t \div Seconds[coarse] = n
    BY <1>3 DEF Period
  <1> QED  BY <1>2, <1>6, <1>7

\* The finer periods within a coarser one share its rows out among themselves.
LEMMA SharedOut ==
    ASSUME NEW fine \in Forms, NEW coarse \in Forms, Seconds[fine] < Seconds[coarse],
           NEW rows, IsFiniteSet(rows), \A r \in rows : r.key.at \in Int,
           NEW c \in PeriodsIn(coarse, rows),
           NEW I, I = Inside(fine, coarse, rows, c), NEW R, R = Parts(fine, rows)
    PROVE  /\ IsFiniteSet(I) /\ I # {}
           /\ \A p \in I : IsFiniteSet(R[p]) /\ R[p] # {} /\ R[p] = InPeriod(fine, rows, p)
           /\ \A p, q \in I : p # q => R[p] \cap R[q] = {}
           /\ Together(R, I) = InPeriod(coarse, rows, c)
  <1>1. IsFiniteSet(I)
    <2> DEFINE f == [r \in rows |-> Period(fine, r.key.at)]
    <2>1. {f[r] : r \in rows} = PeriodsIn(fine, rows)
      BY DEF PeriodsIn
    <2>2. IsFiniteSet({f[r] : r \in rows})
      BY ImageFinite
    <2> HIDE DEF f
    <2>3. IsFiniteSet(PeriodsIn(fine, rows)) /\ I \subseteq PeriodsIn(fine, rows)
      BY <2>1, <2>2 DEF Inside
    <2> QED  BY <2>3, FS_Subset
  <1>2. \A p \in I : p \in PeriodsIn(fine, rows) /\ R[p] = InPeriod(fine, rows, p)
    BY DEF Inside, Parts
  <1>3. \A r \in rows : Period(coarse, r.key.at) = c <=> Period(fine, r.key.at) \in I
    BY InsidePeriod DEF Inside, PeriodsIn
  <1>4. I # {}
    <2>1. PICK s \in rows : c = Period(coarse, s.key.at)
      BY DEF PeriodsIn
    <2> QED  BY <1>3, <2>1
  <1>5. \A p \in I : R[p] # {} /\ R[p] \subseteq rows
    BY <1>2 DEF PeriodsIn, InPeriod
  <1>6. \A p \in I : IsFiniteSet(R[p])
    BY <1>5, FS_Subset
  <1>7. \A p, q \in I : p # q => R[p] \cap R[q] = {}
    BY <1>2 DEF InPeriod
  <1>8. \A r : r \in Together(R, I) <=> \E p \in I : r \in rows /\ Period(fine, r.key.at) = p
    BY <1>2 DEF Together, InPeriod
  <1>9. \A r : r \in Together(R, I) <=> r \in InPeriod(coarse, rows, c)
    BY <1>3, <1>8 DEF InPeriod
  <1> QED  BY <1>1, <1>2, <1>4, <1>5, <1>6, <1>7, <1>9

\* So the counts of the finer periods add up to the coarser one's,
LEMMA CountsAddUp ==
    ASSUME NEW I, IsFiniteSet(I), NEW R, \A p \in I : IsFiniteSet(R[p]),
           \A p, q \in I : p # q => R[p] \cap R[q] = {},
           NEW F, \A p \in I : F[p].totalnum = Cardinality(R[p])
    PROVE  SumCounts(F, I) = Cardinality(Together(R, I))
  <1>1. PICK g : g = [p \in I |-> F[p].totalnum]
    OBVIOUS
  <1>2. PICK T : T = Together(R, I)
    OBVIOUS
  <1>3. PICK f : f = [r \in T |-> 1]
    OBVIOUS
  <1>4. IsFiniteSet(T) /\ \A r \in T : f[r] = 1
    BY <1>2, <1>3, TogetherFinite
  <1>5. \A p \in I : \A r \in R[p] : f[r] = 1
    BY <1>2, <1>4 DEF Together
  <1>6. ASSUME NEW p \in I PROVE g[p] = Summed(f, R[p])
    <2>1. PICK a : a = R[p]
      OBVIOUS
    <2>2. Summed(f, a) = Cardinality(a)
      BY <1>5, <2>1, SummedOnes
    <2> QED  BY <1>1, <2>1, <2>2
  <1>7. \A p \in I : \A r \in R[p] : f[r] \in Int
    BY <1>5
  <1>8. Summed(g, I) = Summed(f, Together(R, I))
    BY <1>6, <1>7, SummedParts
  <1>9. Summed(f, T) = Cardinality(T)
    BY <1>4, SummedOnes
  <1>10. SumCounts(F, I) = Summed(g, I)
    BY <1>1, SumOfCounts
  <1> QED  BY <1>2, <1>8, <1>9, <1>10

\* and so do their times;
LEMMA TimesAddUp ==
    ASSUME NEW I, IsFiniteSet(I), NEW R, \A p \in I : IsFiniteSet(R[p]),
           \A p, q \in I : p # q => R[p] \cap R[q] = {},
           \A p \in I : \A r \in R[p] : Cost[r.line] \in Int,
           NEW F, \A p \in I : F[p].totaltime = TotalTime(R[p])
    PROVE  SumTimes(F, I) = TotalTime(Together(R, I))
  <1>1. PICK g : g = [p \in I |-> F[p].totaltime]
    OBVIOUS
  <1>2. PICK T : T = Together(R, I)
    OBVIOUS
  <1>3. PICK f : f = CostIn(T)
    OBVIOUS
  <1>4. IsFiniteSet(T) /\ \A r \in T : f[r] = Cost[r.line]
    BY <1>2, <1>3, TogetherFinite DEF CostIn
  <1>5. \A p \in I : \A r \in R[p] : f[r] = Cost[r.line] /\ f[r] \in Int
    BY <1>2, <1>4 DEF Together
  <1>6. ASSUME NEW p \in I PROVE g[p] = Summed(f, R[p])
    <2>1. PICK a : a = R[p]
      OBVIOUS
    <2>2. PICK k : k = CostIn(a)
      OBVIOUS
    <2>3. IsFiniteSet(a) /\ \A r \in a : k[r] = f[r]
      BY <1>5, <2>1, <2>2 DEF CostIn
    <2>4. TotalTime(a) = Summed(k, a)
      BY <2>2, <2>3, SumOfCosts
    <2>5. Summed(k, a) = Summed(f, a)
      BY <2>3, SummedSame
    <2> QED  BY <1>1, <2>1, <2>4, <2>5
  <1>7. Summed(g, I) = Summed(f, Together(R, I))
    BY <1>5, <1>6, SummedParts
  <1>8. TotalTime(T) = Summed(f, T)
    BY <1>3, <1>4, SumOfCosts
  <1>9. SumTimes(F, I) = Summed(g, I)
    BY <1>1, SumOfTimes
  <1> QED  BY <1>2, <1>7, <1>8, <1>9

\* the slowest of all is the slowest of a finer period, the fastest likewise;
LEMMA ExtremesMeet ==
    ASSUME NEW I, IsFiniteSet(I), I # {}, NEW R, \A p \in I : IsFiniteSet(R[p]) /\ R[p] # {},
           \A p \in I : \A r \in R[p] : Cost[r.line] \in Int
    PROVE  /\ Max(Costs(Together(R, I))) = Max({Max(Costs(R[p])) : p \in I})
           /\ Min(Costs(Together(R, I))) = Min({Min(Costs(R[p])) : p \in I})
  <1>1. PICK V : V = [p \in I |-> Costs(R[p])]
    OBVIOUS
  <1>2. ASSUME NEW p \in I
        PROVE  IsFiniteSet(V[p]) /\ V[p] # {} /\ V[p] \subseteq Int
    <2>1. PICK a : a = R[p]
      OBVIOUS
    <2>2. V[p] = Costs(a)
      BY <1>1, <2>1
    <2> DEFINE f == CostIn(a)
    <2>3. {f[r] : r \in a} = Costs(a) /\ f = [r \in a |-> f[r]]
      BY DEF CostIn, Costs
    <2> HIDE DEF f
    <2>4. IsFiniteSet({f[r] : r \in a})
      BY <2>1, <2>3, ImageFinite
    <2>5. Costs(a) # {} /\ Costs(a) \subseteq Int
      BY <2>1 DEF Costs
    <2> QED  BY <2>2, <2>3, <2>4, <2>5
  <1>3. Together(V, I) = Costs(Together(R, I))
    <2>1. \A y : y \in Together(V, I) <=> \E p \in I : \E r \in R[p] : y = Cost[r.line]
      BY <1>1 DEF Together, Costs
    <2>2. \A y : y \in Costs(Together(R, I)) <=> \E p \in I : \E r \in R[p] : y = Cost[r.line]
      BY DEF Together, Costs
    <2> QED  BY <2>1, <2>2
  <1>4. /\ Max(Together(V, I)) = Max({Max(V[p]) : p \in I})
        /\ Min(Together(V, I)) = Min({Min(V[p]) : p \in I})
    BY <1>2, ExtremesTogether
  <1>5. /\ {Max(V[p]) : p \in I} = {Max(Costs(R[p])) : p \in I}
        /\ {Min(V[p]) : p \in I} = {Min(Costs(R[p])) : p \in I}
    BY <1>1
  <1> QED  BY <1>3, <1>4, <1>5

\* and the visitors are those of the finer periods, who may come again.
LEMMA VisitorsMeet ==
    ASSUME NEW I, IsFiniteSet(I), NEW R, \A p \in I : IsFiniteSet(AddrOf(R[p])),
           NEW F, \A p \in I : F[p].totalnum = Cardinality(AddrOf(R[p]))
    PROVE  /\ Cardinality(AddrOf(Together(R, I))) <= SumCounts(F, I)
           /\ \A p \in I : F[p].totalnum <= Cardinality(AddrOf(Together(R, I)))
  <1>1. PICK V : V = [p \in I |-> AddrOf(R[p])]
    OBVIOUS
  <1>2. PICK g : g = [p \in I |-> F[p].totalnum]
    OBVIOUS
  <1>3. \A p \in I : IsFiniteSet(V[p]) /\ g[p] = Cardinality(V[p])
    BY <1>1, <1>2
  <1>4. PICK T : T = Together(V, I)
    OBVIOUS
  <1>5. T = AddrOf(Together(R, I))
    <2>1. \A y : y \in T <=> \E p \in I : \E r \in R[p] : y = Addr[r.line]
      BY <1>1, <1>4 DEF Together, AddrOf
    <2>2. \A y : y \in AddrOf(Together(R, I)) <=> \E p \in I : \E r \in R[p] : y = Addr[r.line]
      BY DEF Together, AddrOf
    <2> QED  BY <2>1, <2>2
  <1>6. Cardinality(T) <= Summed(g, I)
    BY <1>3, <1>4, TogetherCount
  <1>7. SumCounts(F, I) = Summed(g, I)
    BY <1>2, SumOfCounts
  <1>8. IsFiniteSet(T)
    BY <1>3, <1>4, TogetherFinite
  <1>9. ASSUME NEW p \in I PROVE F[p].totalnum <= Cardinality(T)
    <2>1. PICK v : v = V[p]
      OBVIOUS
    <2>2. v \in SUBSET T
      BY <1>4, <2>1 DEF Together
    <2>3. Cardinality(v) <= Cardinality(T)
      BY <1>8, <2>2, FS_Subset
    <2> QED  BY <1>2, <1>3, <2>1, <2>3
  <1> QED  BY <1>5, <1>6, <1>7, <1>9

\* The entries of a report per period, for a command.
EntriesBy(cmd, form, rows) ==
    CASE cmd = "pv" -> CountEach(Groups(form, rows))
      [] cmd = "avgtime" -> TimesEach(Groups(form, rows))
      [] cmd = "uv" -> Visitors(form, rows)

\* What they say, by kind.
LEMMA EntriesSay ==
    ASSUME NEW cmd \in Commands, NEW form, NEW rows, IsFiniteSet(AddrOf(rows)),
           NEW E, E = EntriesBy(cmd, form, rows)
    PROVE  /\ DOMAIN E = PeriodsIn(form, rows)
           /\ cmd # "uv" => \A p \in DOMAIN E : E[p].totalnum = Cardinality(InPeriod(form, rows, p))
           /\ cmd = "uv" => \A p \in DOMAIN E :
                              E[p].totalnum = Cardinality(AddrOf(InPeriod(form, rows, p)))
           /\ cmd = "avgtime" => \A p \in DOMAIN E :
                /\ E[p].totaltime = TotalTime(InPeriod(form, rows, p))
                /\ E[p].maxtime = Max(Costs(InPeriod(form, rows, p)))
                /\ E[p].mintime = Min(Costs(InPeriod(form, rows, p)))
  <1>2. CASE cmd = "pv"
    <2>1. E = CountEach(Groups(form, rows))
      BY <1>2 DEF EntriesBy
    <2>2. /\ DOMAIN E = {Period(form, r.key.at) : r \in rows}
          /\ \A p \in DOMAIN E : E[p].totalnum = Cardinality(InPeriod(form, rows, p))
      BY <2>1, GroupedCounts
    <2> QED  BY <1>2, <2>2 DEF PeriodsIn
  <1>3. CASE cmd = "avgtime"
    <2>1. E = TimesEach(Groups(form, rows))
      BY <1>3 DEF EntriesBy
    <2>2. \A p \in DOMAIN E : E[p] = Times(InPeriod(form, rows, p))
      BY <2>1 DEF TimesEach, Groups, InPeriod
    <2>3. \A p \in DOMAIN E : /\ E[p].totaltime = TotalTime(InPeriod(form, rows, p))
                              /\ E[p].maxtime = Max(Costs(InPeriod(form, rows, p)))
                              /\ E[p].mintime = Min(Costs(InPeriod(form, rows, p)))
      <3> TAKE p \in DOMAIN E
      <3>1. PICK s : s = InPeriod(form, rows, p)
        OBVIOUS
      <3>2. E[p] = Times(s)
        BY <2>2, <3>1
      <3>3. E[p].totaltime = TotalTime(s) /\ E[p].maxtime = Max(Costs(s)) /\ E[p].mintime = Min(Costs(s))
        BY <3>2 DEF Times
      <3> QED  BY <3>1, <3>3
    <2>4. /\ DOMAIN E = {Period(form, r.key.at) : r \in rows}
          /\ \A p \in DOMAIN E : E[p].totalnum = Cardinality(InPeriod(form, rows, p))
      BY <2>1, GroupedCounts
    <2> QED  BY <1>3, <2>3, <2>4 DEF PeriodsIn
  <1>4. CASE cmd = "uv"
    <2>1. E = Visitors(form, rows)
      BY <1>4 DEF EntriesBy
    <2>0. DOMAIN Visitors(form, rows) = {Period(form, r.key.at) : r \in rows}
      BY VisitorsDomain
    <2>2. DOMAIN E = PeriodsIn(form, rows)
      BY <2>0, <2>1 DEF PeriodsIn
    <2>3. \A p \in DOMAIN E : E[p].totalnum = Cardinality(AddrOf(InPeriod(form, rows, p)))
      BY <2>1, <2>2, VisitorsCount DEF PeriodsIn
    <2> QED  BY <1>4, <2>2, <2>3
  <1> QED  BY <1>2, <1>3, <1>4 DEF Commands

\* Reports of different formats on one set of rows agree with each other.
LEMMA FormatsMeet ==
    ASSUME NEW cmd \in Commands, NEW fine \in Forms, NEW coarse \in Forms,
           Seconds[fine] < Seconds[coarse],
           NEW rows, IsFiniteSet(rows), \A r \in rows : r.key.at \in Int /\ r.line \in Lines,
           NEW F, F = EntriesBy(cmd, fine, rows), NEW C, C = EntriesBy(cmd, coarse, rows)
    PROVE  Refines(cmd, fine, coarse, F, C)
  <1>1. ASSUME NEW s, s \subseteq rows PROVE IsFiniteSet(s) /\ IsFiniteSet(AddrOf(s))
    <2>1. IsFiniteSet(s)
      BY <1>1, FS_Subset
    <2> DEFINE f == [r \in s |-> Addr[r.line]]
    <2>2. {f[r] : r \in s} = AddrOf(s) /\ f = [r \in s |-> f[r]]
      BY DEF AddrOf
    <2> HIDE DEF f
    <2> QED  BY <2>1, <2>2, ImageFinite
  <1>2. IsFiniteSet(AddrOf(rows))
    BY <1>1
  <1>3. /\ DOMAIN F = PeriodsIn(fine, rows)
        /\ cmd # "uv" => \A p \in DOMAIN F : F[p].totalnum = Cardinality(InPeriod(fine, rows, p))
        /\ cmd = "uv" => \A p \in DOMAIN F :
             F[p].totalnum = Cardinality(AddrOf(InPeriod(fine, rows, p)))
        /\ cmd = "avgtime" => \A p \in DOMAIN F :
             /\ F[p].totaltime = TotalTime(InPeriod(fine, rows, p))
             /\ F[p].maxtime = Max(Costs(InPeriod(fine, rows, p)))
             /\ F[p].mintime = Min(Costs(InPeriod(fine, rows, p)))
    BY <1>2, EntriesSay
  <1>4. /\ DOMAIN C = PeriodsIn(coarse, rows)
        /\ cmd # "uv" => \A p \in DOMAIN C : C[p].totalnum = Cardinality(InPeriod(coarse, rows, p))
        /\ cmd = "uv" => \A p \in DOMAIN C :
             C[p].totalnum = Cardinality(AddrOf(InPeriod(coarse, rows, p)))
        /\ cmd = "avgtime" => \A p \in DOMAIN C :
             /\ C[p].totaltime = TotalTime(InPeriod(coarse, rows, p))
             /\ C[p].maxtime = Max(Costs(InPeriod(coarse, rows, p)))
             /\ C[p].mintime = Min(Costs(InPeriod(coarse, rows, p)))
    BY <1>2, EntriesSay
  <1>5. ASSUME NEW p \in DOMAIN F PROVE \E c \in DOMAIN C : Within(fine, coarse, p, c)
    <2>1. PICK r \in rows : p = Period(fine, r.key.at)
      BY <1>3 DEF PeriodsIn
    <2>2. PICK c : c = Period(coarse, r.key.at)
      OBVIOUS
    <2>3. c \in PeriodsIn(coarse, rows)
      BY <2>2 DEF PeriodsIn
    <2>4. Within(fine, coarse, p, c)
      BY <2>1, <2>2, <2>3, InsidePeriod
    <2> QED  BY <1>4, <2>3, <2>4
  <1>6. ASSUME NEW c \in DOMAIN C, NEW I, I = {p \in DOMAIN F : Within(fine, coarse, p, c)}
        PROVE  /\ I # {}
               /\ cmd # "uv" => C[c].totalnum = SumCounts(F, I)
               /\ cmd = "uv" => /\ C[c].totalnum <= SumCounts(F, I)
                                /\ \A p \in I : F[p].totalnum <= C[c].totalnum
               /\ cmd = "avgtime" =>
                    /\ C[c].totaltime = SumTimes(F, I)
                    /\ C[c].maxtime = Max({F[p].maxtime : p \in I})
                    /\ C[c].mintime = Min({F[p].mintime : p \in I})
    <2>1. c \in PeriodsIn(coarse, rows) /\ I = Inside(fine, coarse, rows, c)
      BY <1>3, <1>4, <1>6 DEF Inside
    <2>2. PICK R : R = Parts(fine, rows)
      OBVIOUS
    <2>3. /\ IsFiniteSet(I) /\ I # {}
          /\ \A p \in I : IsFiniteSet(R[p]) /\ R[p] # {} /\ R[p] = InPeriod(fine, rows, p)
          /\ \A p, q \in I : p # q => R[p] \cap R[q] = {}
          /\ Together(R, I) = InPeriod(coarse, rows, c)
      BY <2>1, <2>2, SharedOut
    <2>4. \A p \in I : p \in DOMAIN F
      BY <1>6
    <2>5. \A p \in I : IsFiniteSet(AddrOf(R[p])) /\ \A r \in R[p] : Cost[r.line] \in Int
      <3> TAKE p \in I
      <3>1. R[p] \subseteq rows
        BY <2>3 DEF InPeriod
      <3>2. IsFiniteSet(AddrOf(R[p]))
        BY <1>1, <3>1
      <3>3. \A r \in R[p] : Cost[r.line] \in Int
        BY <3>1, LineAssumption
      <3> QED  BY <3>2, <3>3
    <2>6. ASSUME cmd # "uv" PROVE C[c].totalnum = SumCounts(F, I)
      <3>1. \A p \in I : F[p].totalnum = Cardinality(R[p])
        BY <1>3, <2>3, <2>4, <2>6
      <3>2. SumCounts(F, I) = Cardinality(Together(R, I))
        BY <2>3, <3>1, CountsAddUp
      <3> QED  BY <1>4, <2>3, <2>6, <3>2
    <2>7. ASSUME cmd = "uv"
          PROVE  /\ C[c].totalnum <= SumCounts(F, I)
                 /\ \A p \in I : F[p].totalnum <= C[c].totalnum
      <3>1. \A p \in I : F[p].totalnum = Cardinality(AddrOf(R[p]))
        BY <1>3, <2>3, <2>4, <2>7
      <3>2. /\ Cardinality(AddrOf(Together(R, I))) <= SumCounts(F, I)
            /\ \A p \in I : F[p].totalnum <= Cardinality(AddrOf(Together(R, I)))
        BY <2>3, <2>5, <3>1, VisitorsMeet
      <3> QED  BY <1>4, <2>3, <2>7, <3>2
    <2>8. ASSUME cmd = "avgtime"
          PROVE  /\ C[c].totaltime = SumTimes(F, I)
                 /\ C[c].maxtime = Max({F[p].maxtime : p \in I})
                 /\ C[c].mintime = Min({F[p].mintime : p \in I})
      <3>1. \A p \in I : /\ F[p].totaltime = TotalTime(R[p])
                         /\ F[p].maxtime = Max(Costs(R[p]))
                         /\ F[p].mintime = Min(Costs(R[p]))
        BY <1>3, <2>3, <2>4, <2>8
      <3>2. SumTimes(F, I) = TotalTime(Together(R, I))
        BY <2>3, <2>5, <3>1, TimesAddUp
      <3>3. /\ Max(Costs(Together(R, I))) = Max({Max(Costs(R[p])) : p \in I})
            /\ Min(Costs(Together(R, I))) = Min({Min(Costs(R[p])) : p \in I})
        BY <2>3, <2>5, ExtremesMeet
      <3>4. /\ {Max(Costs(R[p])) : p \in I} = {F[p].maxtime : p \in I}
            /\ {Min(Costs(R[p])) : p \in I} = {F[p].mintime : p \in I}
        BY <3>1
      <3> QED  BY <1>4, <2>3, <2>8, <3>2, <3>3, <3>4
    <2> QED  BY <2>3, <2>6, <2>7, <2>8
  <1> DEFINE In(c) == {p \in DOMAIN F : Within(fine, coarse, p, c)}
  <1>7. \A p \in DOMAIN F : \E c \in DOMAIN C : p \in In(c)
    BY <1>5
  <1>8. \A c \in DOMAIN C :
          /\ In(c) # {}
          /\ cmd # "uv" => C[c].totalnum = SumCounts(F, In(c))
          /\ cmd = "uv" => /\ C[c].totalnum <= SumCounts(F, In(c))
                           /\ \A p \in In(c) : F[p].totalnum <= C[c].totalnum
          /\ cmd = "avgtime" =>
               /\ C[c].totaltime = SumTimes(F, In(c))
               /\ C[c].maxtime = Max({F[p].maxtime : p \in In(c)})
               /\ C[c].mintime = Min({F[p].mintime : p \in In(c)})
    BY <1>6
  <1> QED  BY <1>7, <1>8, Zenon DEF Refines

\* Whatever is stored, the entries for minutes, hours and days of one range fit into
\* each other: views and times add up, the slowest and the fastest are found again, and
\* visitors are at least as many as in any part and at most as many as in all of them.
THEOREM PeriodsMatch == Spec => []PeriodsRefine
  <1>1. TypeOK /\ IsFiniteSet(DOMAIN table) => PeriodsRefine
    <2> SUFFICES ASSUME TypeOK, IsFiniteSet(DOMAIN table),
                        NEW q \in Questions, NEW fine \in Forms, NEW coarse \in Forms,
                        q.cmd \in Commands, Seconds[fine] < Seconds[coarse]
                 PROVE  Refines(q.cmd, fine, coarse,
                              FlinkReport([q EXCEPT !.form = fine], Stored(q)).entries,
                              FlinkReport([q EXCEPT !.form = coarse], Stored(q)).entries)
      BY DEF PeriodsRefine
    <2>1. q \in Question
      BY QuestionAssumption
    <2>2. PICK rows : rows = Stored(q)
      OBVIOUS
    <2>3. IsFiniteSet(rows)
      BY <2>2, StoredFinite
    <2>4. \A r \in rows : r.key.at \in Int /\ r.line \in Lines
      BY <2>2, StoredRows, KeyFields DEF TypeOK
    <2>5. PICK cmd \in Commands : cmd = q.cmd
      OBVIOUS
    <2>6. ASSUME NEW form \in Forms
          PROVE  FlinkReport([q EXCEPT !.form = form], rows).entries = EntriesBy(cmd, form, rows)
      <3> DEFINE qf == [q EXCEPT !.form = form]
      <3>1. qf.form = form /\ qf.cmd = cmd /\ form # "none"
        BY <2>1, <2>5 DEF Question, Forms
      <3> HIDE DEF qf
      <3>2. ASSUME cmd = "pv" PROVE FlinkReport(qf, rows).entries = EntriesBy(cmd, form, rows)
        <4>1. FlinkReport(qf, rows) = Report(CountEach(Groups(form, rows)))
          BY <3>1, <3>2 DEF FlinkReport, FlinkPv
        <4>2. EntriesBy(cmd, form, rows) = CountEach(Groups(form, rows))
          BY <3>2 DEF EntriesBy
        <4> QED  BY <4>1, <4>2 DEF Report
      <3>3. ASSUME cmd = "avgtime" PROVE FlinkReport(qf, rows).entries = EntriesBy(cmd, form, rows)
        <4>1. FlinkReport(qf, rows) = Report(TimesEach(Groups(form, rows)))
          BY <3>1, <3>3 DEF FlinkReport, FlinkAvgTime
        <4>2. EntriesBy(cmd, form, rows) = TimesEach(Groups(form, rows))
          BY <3>3 DEF EntriesBy
        <4> QED  BY <4>1, <4>2 DEF Report
      <3>4. ASSUME cmd = "uv" PROVE FlinkReport(qf, rows).entries = EntriesBy(cmd, form, rows)
        <4>1. FlinkReport(qf, rows) = Report(Visitors(form, rows))
          BY <3>1, <3>4 DEF FlinkReport, FlinkUv
        <4>2. EntriesBy(cmd, form, rows) = Visitors(form, rows)
          BY <3>4 DEF EntriesBy
        <4> QED  BY <4>1, <4>2 DEF Report
      <3>5. FlinkReport(qf, rows).entries = EntriesBy(cmd, form, rows)
        BY <3>2, <3>3, <3>4 DEF Commands
      <3> QED  BY <3>5 DEF qf
    <2>7. Refines(cmd, fine, coarse, EntriesBy(cmd, fine, rows), EntriesBy(cmd, coarse, rows))
      BY <2>3, <2>4, FormatsMeet
    <2> QED  BY <2>2, <2>5, <2>6, <2>7
  <1>2. SoundInv /\ Ascending => TypeOK /\ IsFiniteSet(DOMAIN table)
    BY DEF SoundInv, Ascending
  <1> QED BY <1>1, <1>2, InitSound, NextSound, InitAscending, NextAscending, PTL DEF Spec
=============================================================================
