---------------------------- MODULE RankReports ----------------------------
(***************************************************************************)
(* The reports on nginx_base_log: the RpcActor of either engine takes one  *)
(* question at a time, reads the rows of its range page by page while the  *)
(* stream job goes on inserting, and counts page views (pv), visitors (uv) *)
(* or response times (avgtime), for the whole range or per period.         *)
(***************************************************************************)
EXTENDS Integers, Sequences, FiniteSets, FiniteSetsExt

CONSTANTS
    Lines,       \* log lines the job writes
    Owner,       \* namespace and server name of a line
    Logged,      \* the second in which it was logged
    Addr, Cost,  \* remote address and response time of a line
    Instants,    \* milliseconds in which rows are written (update_time)
    Questions,   \* the questions clients ask
    Engine,      \* "flink" or "spark": whose RpcActor this is
    MaxWrites, MaxAsks, MaxFaults  \* bounds

Forms    == {"day", "hour", "minute"}
Commands == {"pv", "uv", "avgtime"}

\* A CmdMessage has no format ("none"); any other text is "other".
Question == [owner : {Owner[l] : l \in Lines}, cmd : Commands \cup {"unknown"},
             form : Forms \cup {"none", "other"}, from : Int, to : Int]

ASSUME LineAssumption ==
    /\ Logged \in [Lines -> Nat] /\ Cost \in [Lines -> Nat]
    /\ DOMAIN Owner = Lines /\ DOMAIN Addr = Lines
    /\ Instants \subseteq Nat
ASSUME QuestionAssumption == Questions \subseteq Question
ASSUME EngineAssumption ==
    /\ Engine \in {"flink", "spark"}
    /\ MaxWrites \in Nat /\ MaxAsks \in Nat /\ MaxFaults \in Nat

VARIABLES
    table,    \* nginx_base_log: primary key -> line
    mail,     \* mailbox of the RpcActor; its head is the question under way
    phase,    \* "idle", "reading" or "read"
    counted,  \* rows read so far for the question under way
    before,   \* history: the keys that were there when it was taken
    answers,  \* what became of every question; history: the rows it was made of
    writes, asks, faults  \* bounded counters

read_vars  == <<phase, counted, before>>
vars == <<table, mail, read_vars, answers, writes, asks, faults>>

-----------------------------------------------------------------------------
(* The calendar.  Times are seconds; the engines' zone is that of the log. *)

Seconds == [day |-> 86400, hour |-> 3600, minute |-> 60]
HourOfDay(t) == (t % Seconds.day) \div Seconds.hour

\* Slip: the hour 12 is taken for the end of the day.
BugStoredAt(t) == IF HourOfDay(t) = 12 THEN t + 12 * Seconds.hour ELSE t

\* The job parses the time of a line with hh, the hour of a half day: 13 to 23 and 0
\* are taken as they are, 12 is the half day's hour 0.
StoredAt(t) == IF HourOfDay(t) = 12 THEN t - 12 * Seconds.hour ELSE t

\* The name of a period: sdf.format of the engine's pattern for the format.
Period(form, t) == <<form, t \div Seconds[form]>>

-----------------------------------------------------------------------------
(* The table: primary key (namespace, servername, create_time, update_time).*)

Key(l, u) == [owner |-> Owner[l], at |-> StoredAt(Logged[l]), upd |-> u]
Keys == {Key(l, u) : l \in Lines, u \in Instants}

\* The clustering order, in which a query returns its rows.
Precedes(j, k) == j.at < k.at \/ (j.at = k.at /\ j.upd < k.upd)

\* Slip: both ends of a range belong to it.
BugInRange(k, q) == k.owner = q.owner /\ q.from <= k.at /\ k.at <= q.to

\* The where clause of all nine queries.
InRange(k, q) == k.owner = q.owner /\ q.from < k.at /\ k.at <= q.to

\* Slip: the next page starts at the next second.
BugUnread(q) ==
    {k \in DOMAIN table : InRange(k, q) /\ \A r \in counted : r.key.at < k.at}

\* What is behind the last row read; rows that arrive before it are not seen.
Unread(q) ==
    {k \in DOMAIN table : InRange(k, q) /\ \A r \in counted : Precedes(r.key, k)}

RowsOf(ks) == {[key |-> k, line |-> table[k]] : k \in ks}

-----------------------------------------------------------------------------
(* The services.  A report is a map from periods to totals; the one for the *)
(* whole range has the only entry "data".                                   *)

Whole(total) == [p \in {<<"data", 0>>} |-> total]
Report(entries) == [threw |-> FALSE, entries |-> entries]
Threw == [threw |-> TRUE, entries |-> <<>>]

Count(rows) == [totalnum |-> Cardinality(rows)]
TotalTime(rows) == MapThenSumSet(LAMBDA r : Cost[r.line], rows)
Costs(rows) == {Cost[r.line] : r \in rows}
Times(rows) == [totalnum |-> Cardinality(rows), totaltime |-> TotalTime(rows),
                maxtime |-> Max(Costs(rows)), mintime |-> Min(Costs(rows))]

\* select ... group by create_time, after create_time became the period's name.
Groups(form, rows) ==
    [p \in {Period(form, r.key.at) : r \in rows} |-> {r \in rows : Period(form, r.key.at) = p}]
CountEach(groups) == [p \in DOMAIN groups |-> Count(groups[p])]
TimesEach(groups) == [p \in DOMAIN groups |-> Times(groups[p])]

\* Slip: the counts of the groups are added up, not the groups.
BugVisitors(form, rows) == CountEach(Groups(form, rows))

\* group by create_time, remoteaddr; then the groups of a period are counted.
Visitors(form, rows) ==
    LET groups == {<<Period(form, r.key.at), Addr[r.line]>> : r \in rows}
    IN  [p \in {g[1] : g \in groups} |-> Count({g \in groups : g[1] = p})]

\* DataService: no periods.  avgtime is totaltime / totalnum.  A sum over no row is
\* null, which the tuple's serializer refuses.
ServiceAvgTime(rows) ==
    IF rows = {} THEN Threw
    ELSE Report(Whole([totalnum |-> Cardinality(rows), totaltime |-> TotalTime(rows)]))
ServiceUv(rows) == Report(Whole(Count({Addr[r.line] : r \in rows})))
ServicePv(rows) == Report(Whole(Count(rows)))

\* Flink's RankDataService.
FlinkAvgTime(form, rows) ==
    CASE form \in Forms              -> Report(TimesEach(Groups(form, rows)))
      [] form \notin Forms /\ rows = {} -> Threw
      [] OTHER                       -> Report(Whole(Times(rows)))
FlinkUv(form, rows) ==
    IF form \in Forms THEN Report(Visitors(form, rows))
    ELSE Report(Whole(Count({Addr[r.line] : r \in rows})))
FlinkPv(form, rows) ==
    IF form \in Forms THEN Report(CountEach(Groups(form, rows)))
    ELSE Report(Whole(Count(rows)))

\* Spark's RankDataService.  The branch for other formats looks up "data" in a row
\* that has no such column, or reads a column that was not selected.
SparkAvgTime(form, rows) ==
    IF form \in Forms THEN Report(TimesEach(Groups(form, rows))) ELSE Threw

\* Slip: the total of a period starts again with every group.
BugSparkUv(form, rows) ==
    IF form \in Forms
    THEN Report([p \in {Period(form, r.key.at) : r \in rows} |-> [totalnum |-> 1]]) ELSE Threw

SparkUv(form, rows) ==
    CASE form \in Forms -> Report(Visitors(form, rows))
      [] form \notin Forms /\ rows = {} -> Report(Whole(Count({})))
      [] OTHER -> Threw
SparkPv(form, rows) ==
    CASE form \in Forms -> Report(CountEach(Groups(form, rows)))
      [] form \notin Forms /\ rows = {} -> Report(<<>>)
      [] OTHER -> Threw

FlinkReport(q, rows) ==
    CASE q.form = "none" /\ q.cmd = "avgtime" -> ServiceAvgTime(rows)
      [] q.form = "none" /\ q.cmd = "uv" -> ServiceUv(rows)
      [] q.form = "none" /\ q.cmd = "pv" -> ServicePv(rows)
      [] q.form # "none" /\ q.cmd = "avgtime" -> FlinkAvgTime(q.form, rows)
      [] q.form # "none" /\ q.cmd = "uv" -> FlinkUv(q.form, rows)
      [] q.form # "none" /\ q.cmd = "pv" -> FlinkPv(q.form, rows)

SparkReport(q, rows) ==
    CASE q.cmd = "avgtime" -> SparkAvgTime(q.form, rows)
      [] q.cmd = "uv" -> SparkUv(q.form, rows)
      [] q.cmd = "pv" -> SparkPv(q.form, rows)

ReportOf(q, rows) == IF Engine = "flink" THEN FlinkReport(q, rows) ELSE SparkReport(q, rows)

\* Spark's RpcActor has no case for a CmdMessage.
Ignores(q) == Engine = "spark" /\ q.form = "none"

-----------------------------------------------------------------------------
Init ==
    /\ table = <<>> /\ mail = <<>>
    /\ phase = "idle" /\ counted = {} /\ before = {}
    /\ answers = <<>> /\ writes = 0 /\ asks = 0 /\ faults = 0

\* An insert of the stream job arrives: an upsert, of a line new or read again.
\* Two lines of one second that were mapped in one millisecond share their row.
Write(l, u) ==
    /\ writes < MaxWrites
    /\ writes' = writes + 1
    /\ table' = [k \in DOMAIN table \cup {Key(l, u)} |-> IF k = Key(l, u) THEN l ELSE table[k]]
    /\ UNCHANGED <<mail, read_vars, answers, asks, faults>>

Ask(q) ==
    /\ asks < MaxAsks
    /\ asks' = asks + 1
    /\ mail' = Append(mail, q)
    /\ UNCHANGED <<table, read_vars, answers, writes, faults>>

\* Slip: the actor does not become ready for the next question.
BugDone(outcome) ==
    /\ mail' = Tail(mail)
    /\ UNCHANGED read_vars
    /\ answers' = Append(answers, [q |-> Head(mail), outcome |-> outcome,
                                   rows |-> counted, before |-> before])

\* The question under way is over; the actor turns to the next one.
Done(outcome) ==
    /\ mail' = Tail(mail)
    /\ phase' = "idle" /\ counted' = {} /\ before' = {}
    /\ answers' = Append(answers, [q |-> Head(mail), outcome |-> outcome,
                                   rows |-> counted, before |-> before])

\* "not found cmd", or logged and dropped: nothing is read.
Reject ==
    /\ phase = "idle" /\ mail # <<>>
    /\ \/ Ignores(Head(mail)) /\ Done("ignored")
       \/ ~Ignores(Head(mail)) /\ Head(mail).cmd = "unknown" /\ Done("not_found")
    /\ UNCHANGED <<table, writes, asks, faults>>

Take ==
    /\ phase = "idle" /\ mail # <<>>
    /\ ~Ignores(Head(mail)) /\ Head(mail).cmd \in Commands
    /\ phase' = "reading"
    /\ before' = DOMAIN table
    /\ UNCHANGED <<table, mail, counted, answers, writes, asks, faults>>

\* A page ends with the row of k, and more is to come.
ReadPage(k) ==
    /\ phase = "reading" /\ k \in Unread(Head(mail))
    /\ counted' = counted \cup RowsOf({j \in Unread(Head(mail)) : ~Precedes(k, j)})
    /\ UNCHANGED <<table, mail, phase, before, answers, writes, asks, faults>>

ReadLast ==
    /\ phase = "reading"
    /\ counted' = counted \cup RowsOf(Unread(Head(mail)))
    /\ phase' = "read"
    /\ UNCHANGED <<table, mail, before, answers, writes, asks, faults>>

\* Spark runs a failed task again, from the first page.
Retry ==
    /\ Engine = "spark" /\ phase = "reading" /\ faults < MaxFaults
    /\ faults' = faults + 1
    /\ counted' = {}
    /\ UNCHANGED <<table, mail, phase, before, answers, writes, asks>>

\* The job fails for good: the handler throws and the actor is restarted.
JobFails ==
    /\ phase = "reading" /\ faults < MaxFaults
    /\ faults' = faults + 1
    /\ Done("threw")
    /\ UNCHANGED <<table, writes, asks>>

Reply ==
    /\ phase = "read"
    /\ Done(IF ReportOf(Head(mail), counted).threw THEN "threw" ELSE "report")
    /\ UNCHANGED <<table, writes, asks, faults>>

Next ==
    \/ \E l \in Lines, u \in Instants : Write(l, u)
    \/ \E q \in Questions : Ask(q)
    \/ \E k \in DOMAIN table : ReadPage(k)
    \/ Reject \/ Take \/ ReadLast \/ Retry \/ JobFails \/ Reply

Spec == Init /\ [][Next]_vars

-----------------------------------------------------------------------------
(* Properties.                                                             *)

Row == [key : Keys, line : Lines]
Answer == [q : Questions, outcome : {"report", "threw", "not_found", "ignored"},
           rows : SUBSET Row, before : SUBSET Keys]

\* Every variable stays in its type; a question is under way only while it is in
\* the mailbox.
TypeOK ==
    /\ DOMAIN table \subseteq Keys /\ table \in [DOMAIN table -> Lines]
    /\ mail \in Seq(Questions)
    /\ phase \in {"idle", "reading", "read"}
    /\ phase # "idle" => mail # <<>> /\ Head(mail).cmd \in Commands
    /\ counted \subseteq Row /\ before \subseteq Keys
    /\ answers \in Seq(Answer)
    /\ writes \in 0 .. MaxWrites /\ asks \in 0 .. MaxAsks /\ faults \in 0 .. MaxFaults

\* What the question asks for, in its own words: a half-open range of seconds.
Asked(ks, q) == {k \in ks : k.owner = q.owner /\ k.at \in (q.from + 1) .. q.to}
KeysOf(rows) == {r.key : r \in rows}

\* A report read page by page beside a running job is made of every row of its
\* range that was there when the question was taken, of none that is outside the range or
\* was never inserted, and of none twice, although rows appear before and behind the
\* page and are overwritten between two pages (RankDataService.scala:40,27).
SoundReports ==
    \A i \in DOMAIN answers :
      LET a == answers[i] IN
      a.outcome = "report" =>
        /\ Asked(a.before, a.q) \subseteq KeysOf(a.rows)
        /\ KeysOf(a.rows) \subseteq Asked(DOMAIN table, a.q)
        /\ \A r, s \in a.rows : r.key = s.key => r = s

EntriesOf(a) == ReportOf(a.q, a.rows).entries

\* The same question asked again later never counts less: no period disappears and no
\* total but the number of visitors (whose row another's may have replaced) shrinks.
NeverShrinks ==
    \A i, j \in DOMAIN answers :
      LET a == answers[i]  b == answers[j] IN
      (i < j /\ a.q = b.q /\ a.outcome = "report" /\ b.outcome = "report") =>
        \A p \in DOMAIN EntriesOf(a) :
          /\ p \in DOMAIN EntriesOf(b)
          /\ a.q.cmd # "uv" => EntriesOf(a)[p].totalnum <= EntriesOf(b)[p].totalnum

Logs(rows, form, p) == {r \in rows : Period(form, Logged[r.line]) = p}
Midnight(p) == p[2] % 24 = 0
Noon(p)     == p[2] % 24 = 12

\* Reports file lines under the period in which they were logged, although the job
\* reads the hour of a half day (KafkaNewConsumerForActor.scala:106): every day
\* is right, and every hour but two; what was logged in the hour from noon is counted
\* with the hour from midnight of that day, and noon has no entry.
HoursButNoon ==
    \A i \in DOMAIN answers :
      LET a == answers[i]  n(p) == EntriesOf(a)[p].totalnum IN
      (a.outcome = "report" /\ a.q.cmd = "pv") =>
        /\ a.q.form = "day" => \A p \in DOMAIN EntriesOf(a) :
             n(p) = Cardinality(Logs(a.rows, "day", p))
        /\ a.q.form = "hour" => \A p \in DOMAIN EntriesOf(a) :
             /\ ~Noon(p)
             /\ n(p) = Cardinality(Logs(a.rows, "hour", p))
                         + IF Midnight(p)
                           THEN Cardinality(Logs(a.rows, "hour", <<"hour", p[2] + 12>>))
                           ELSE 0

Stored(q) == RowsOf({k \in DOMAIN table : InRange(k, q)})
Bounds == {q.from : q \in Questions} \cup {q.to : q \in Questions}
Total(q) == FlinkReport(q, Stored(q)).entries[<<"data", 0>>].totalnum

\* Adjacent ranges share no row and miss none: page views over two of them add up to
\* those over both, visitors to no less, whatever lies on the common bound
\* (RankDataService.scala:40).
RangesAddUp ==
    \A q \in Questions, mid \in Bounds :
      (q.form = "none" /\ q.cmd \in {"pv", "uv"} /\ q.from <= mid /\ mid <= q.to) =>
        LET two == Total([q EXCEPT !.to = mid]) + Total([q EXCEPT !.from = mid])
        IN  /\ q.cmd = "pv" => two = Total(q)
            /\ q.cmd = "uv" => two >= Total(q)

\* An entry of a report per period says what the same question without a format says of
\* that period alone: two ways through the code, of grouping and of selecting, agree,
\* for visitors too, who count once however many rows they have.
EntriesAreRanges ==
    \A q \in Questions, form \in Forms :
      q.cmd \in Commands =>
        LET entries == FlinkReport([q EXCEPT !.form = form], Stored(q)).entries
            first(p) == p[2] * Seconds[form]
            last(p)  == first(p) + Seconds[form] - 1
            Only(p)  == [q EXCEPT !.form = "none", !.from = Max({q.from, first(p) - 1}),
                                  !.to = Min({q.to, last(p)})]
        IN  \A p \in DOMAIN entries : entries[p].totalnum = Total(Only(p))

Within(fine, coarse, p, c) == (p[2] * Seconds[fine]) \div Seconds[coarse] = c[2]

SumCounts(F, ps) == MapThenSumSet(LAMBDA p : F[p].totalnum, ps)
SumTimes(F, ps)  == MapThenSumSet(LAMBDA p : F[p].totaltime, ps)

\* Entries F of a finer format refine entries C of a coarser one.
Refines(cmd, fine, coarse, F, C) ==
    LET In(c) == {p \in DOMAIN F : Within(fine, coarse, p, c)}
    IN  /\ \A p \in DOMAIN F : \E c \in DOMAIN C : p \in In(c)
        /\ \A c \in DOMAIN C :
             /\ In(c) # {}
             /\ cmd # "uv" => C[c].totalnum = SumCounts(F, In(c))
             /\ cmd = "uv" => /\ C[c].totalnum <= SumCounts(F, In(c))
                              /\ \A p \in In(c) : F[p].totalnum <= C[c].totalnum
             /\ cmd = "avgtime" =>
                  /\ C[c].totaltime = SumTimes(F, In(c))
                  /\ C[c].maxtime = Max({F[p].maxtime : p \in In(c)})
                  /\ C[c].mintime = Min({F[p].mintime : p \in In(c)})

\* The periods of a finer format refine those of a coarser one: every coarse entry is
\* the sum, the maximum and the minimum of the fine ones within it, and has at least
\* as many visitors as each of them and at most as many as all of them.
PeriodsRefine ==
    \A q \in Questions, fine, coarse \in Forms :
      (q.cmd \in Commands /\ Seconds[fine] < Seconds[coarse]) =>
        Refines(q.cmd, fine, coarse,
                FlinkReport([q EXCEPT !.form = fine], Stored(q)).entries,
                FlinkReport([q EXCEPT !.form = coarse], Stored(q)).entries)

\* Either engine can be linked as rpc: for days, hours and minutes both give the same
\* report on the same rows, and for any other format Spark either fails or counts nothing,
\* never something else than Flink does.
EnginesAgree ==
    \A q \in Questions :
      (q.cmd \in Commands /\ q.form # "none") =>
        LET S == SparkReport(q, Stored(q))  F == FlinkReport(q, Stored(q))
        IN  /\ q.form \in Forms => S = F
            /\ q.form \notin Forms /\ ~S.threw => \A p \in DOMAIN S.entries : S.entries[p] = F.entries[p]
=============================================================================
