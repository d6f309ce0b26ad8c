# Verification of the SMACK/FkACK stream processing system

TLA+ models of the Akka servers, the Flink job and the Python API of Flink in this
repository, the TLC configurations that check them on small instances, and TLAPS proofs of
theorems about them. Paths below are relative to `src/`; `smack/` abbreviates
`source/src/main/scala/com/smack/`, `py/` abbreviates
`dockerfile/flink-app/flink/resources/python/flink/`.

## 1. Inventory

| Part | State it keeps | Operations | Talks to |
|---|---|---|---|
| Kafka collection (`smack/actor/collection/KakfaActor.scala`, `actor/router/route/KafkaConsumeWorker.scala`, `InputWorker.scala`, `actor/DataInputActor.scala`) | position and committed offset of one stream per topic; mailboxes; the port table of every KafkaConsumeWorker; a KafkaProducer's buffer per InputWorker; the routees two cluster routers know | tell a record, commit, load the port table, look up and forward, send | input topic -> two cluster routers -> topic `test` |
| Flink job (`flink/stream/KafkaNewConsumerForActor.scala`, `KafkaNewConsumer.scala`, `AccessLog.scala`) | position in topic `test`, 15 s windows, snapshots, group offset, asynchronous inserts | filter, write a row per line, parse, count, fire windows, snapshot, commit, restart | topic `test` -> Cassandra, InfluxDB |
| HTTP gateway (`actor/http/HttpRouter.scala`, `DataService.scala`, `OutputWorker.scala`, both `RpcActor.scala`) | an actor per request, mailboxes, Cassandra futures | push, query, command; answer; time out | client -> DataService -> worker or RpcActor |
| Reports (`flink/rpc/service/*`, `spark/rpc/service/*`) | the RpcActor's mailbox; pages of rows read | page views, visitors, response times of a range, whole or per day, hour, minute | RpcActor -> Cassandra |
| File and ZeroMQ collectors (`FileActor.scala`, `ZeroMqActor.scala`) | a timer; none | read a whole file, tell each line; tell each message | -> router of InputWorkers |
| Port table loader (`KafkaConsumeWorker.scala:25-37`) | a periodic timer, the table | load | port file -> worker |
| InfluxDB sinks (`flink/stream/InfluxDBSink.scala`) | a batch | write a point with random tags, close | job -> InfluxDB |
| Log line grammar (`AccessLog.scala`), JSON flattening (`util/JsonElement.scala`) | none | split a line; flatten a document | used by the two above |
| Tables and query services (`util/CassandraUtil.java`, `cassandra/*`) | Cassandra tables | upsert, select ten rows | job, OutputWorker |
| Python plans (`py/plan/*`) | an Environment: sources, sets, sinks, broadcasts, a counter of ids; links between them | a method call adds sets; `execute` merges functions and sends the plan | script -> Environment -> Java |
| Python workers (`py/connection/*`, `py/functions/*`) | a socket, two mapped files and their buffers; group iterators, the serializer, broadcast variables | read, call the function, collect through the chain, write, end or raise | task of Flink (Java) <-> Python process |
| Program starts, dead letters, containers (`DataInputServer.scala`, `docker-compose.yml`, ...) | none | start, restart always | everything |

What makes the system hard is that each hop is asynchronous and almost none is
acknowledged. The reader commits when it has *told* a router; routers learn of
members on their own; workers forget their table when they restart; the producer
has `retries = 0` and its futures are ignored; Flink's snapshots cover positions
and windows but not the inserts; request actors wait for a message that may have
been lost on any of four ways. The correctness questions are therefore about
*fates*: is every record, insert and question either where it should be or gone
for one known reason; does a restart repeat a bounded amount and skip nothing; is
an answer the asker's own; is a count neither lost nor doubled. The Python API, shipped
with the Flink container, is deterministic on paper but hard for other reasons: the plan is rewritten in
place while it is optimised, by code that tells sets apart by ids and lists; a worker shares two
files with a process of another language; iterators over groups, sides of a co-group and
buffers end at different moments. There the questions are: does merging functions keep what a sink
writes, does each side touch a file only in its turn, does a worker emit exactly what the script's
function makes of its input. `PROJECT.json`
lists the hazards with their lines and the properties aimed at each.

## 2. Modules

| Module | Role |
|---|---|
| `Relay` | abstract: a reader offers a log's records in order into a lossy set of messages, each delivered at most once |
| `KafkaIngest` | the Kafka collection path; implements `Relay` |
| `KafkaIngestProofs` | theorems about `KafkaIngest` |
| `KafkaFateProofs` | the fate of each message, `KafkaIngest` implements `Relay`, the order of one member's path, how often restarts repeat |
| `StreamJob` | the Flink job with checkpoints, windows, asynchronous sinks and restarts |
| `StreamJobProofs` | theorems about `StreamJob` |
| `Gateway` | HTTP requests, request actors, workers, futures, RpcActor |
| `GatewayProofs` | theorems about `Gateway` |
| `RankReports` | the reports of both engines, read page by page beside the job's inserts |
| `RankReportsProofs` | theorems about `RankReports` |
| `PyPlan` | the plan a Python script builds and its optimisation |
| `PyPlanProofs` | what is true of every plan, and of every merge |
| `PyConnection` | the exchange between a task and its Python process, for any function |
| `PyConnectionProofs` | theorems about `PyConnection` |
| `PyWorker` | the functions, iterators, chains and serializers on top of `PyConnection` |
| `PyWorkerProofs` | `PyWorker` implements `PyConnection`, and what it inherits |
| `MC...` | instances for TLC |

The concrete modules do not share variables: the topic `test` is `out` of
`KafkaIngest` and `produced` of `StreamJob`, the `RpcActor` of `Gateway` is the one whose
handlers `RankReports` spells out; composing them is part of the plan. `PyWorker` extends
`PyConnection` and takes every step of the connection through it.

### KafkaIngest

`told` and `committed` are the two ends of `KakfaActor`'s graph: two
`mapAsync(1)` stages (lines 33 and 36) allow one record told and waiting behind
the commit that is in flight, hence `told <= committed + 2` (`MayTell`). `Tell` is
`Msg.update`; `Commit`/`CommitFails` are `commitScaladsl` and its failure, which
ends the graph: the future of `runWith` is dropped, so `stream = "dead"` lasts
until the process restarts. `ToRoutee` is a `tell` through a `ClusterRouterPool`:
consistent hashing of the message is any routee the router knows; without
one, or when that routee's node is dead, the message is a dead letter.
`Load`/`LoadFails`/`WorkKafka` are the worker's three cases: a load only adds
lines; a load that throws is escalated by the pool, whose supervisor
(`DataInputActor.scala:59`) restarts the router and so all its routees, emptying
their tables; a record is parsed, looked up and forwarded or dropped for one of
three reasons (a missing `file_name` or `message` is caught like JSON that does
not parse: `garbled`). `WorkInput`/`Flush`/`FlushFails` are `kafkaProducer.send`
and the producer's sender thread. `Crash`/`Rejoin`/`Drop...` are the other
members; `HomeCrash`/`HomeStart` the process that hosts `DataInputActor` (`restart:
always`). The consumer group starts at the end of the topic when it has no offset
(kafka-clients' default `latest`).

The variables `offers`, `lost`, `skipped` record history and guard nothing. `Boxes` lists every
place a message can be in, mailbox, producer or output topic, and `Fate` says that the boxes,
the losses and what was told account for each other, message by message. A
message is an offset and the incarnation of the home process that told it; the
text of a record is reduced to its cluster key (`ClusterOf`) or `Garbled`.
`HomeStart` follows `HomeCrash` once the cluster has removed the old incarnation:
orphaned routees then stop, and one buffer per member stands for its old and new
producer.

### StreamJob

One Kafka partition is read at parallelism one. `ReadJunk` is the filter;
`ReadLine` the raw row, the parsed row (both jobs write `nginx_base_log`, with columns of their own; `Logs` says which of the
two row tables an instance has), and the count in the window of the present slot for every operator in `Ops`. Source, keyed
exchange and window operators are one atomic step: lines on their way through the network channel between
them, which a snapshot waits for, are not modelled;
`ReadThrows` the same chain when `parseLogLine` throws (the raw row is already
issued) or a sink that saw a failed insert throws at its next row. `Fire` is the
window function followed by the sink's map and its insert. That map splits the window's key at `::` and keeps the first
parts (`StatKey`), so the windows of two requests can write one row; `FireThrows` is the map
of a key that does not split back (`logs(2).toInt`). `Trigger`/`Complete`/
`Commit` are Flink's checkpointing: an aligned snapshot of position and windows,
its completion, and the offset commit at `notifyCheckpointComplete`. `Abort` ends
the job: inserts in flight may or may not still arrive. `Restore` starts
from the last snapshot; without one, or after `ContainerDies` (snapshots live in
the JobManager's memory), the job starts at the group's offset or the topic's end.
`Upsert` gives tables their primary key: parts of the line and a time of writing.

### Gateway

`Dispatch` is `DataService`: a push is told to a worker and answered at once, a
query whose range is refused is answered with an empty body, everything else spawns an actor
whose constructor asks (`Ask`) and whose `receive` takes one message and stops
(`Receive`). `WorkerReceive` is either worker; the output worker's future
remembers the sender evaluated when the query was taken (`ReplyTo`). The `RpcActor` is
synchronous; the one of the Spark engine, which `docker-compose.yml` links as
`rpc`, has no case for `CmdMessage` (`Answers`). `TimesOut` is spray's request
timeout; a response after it is dropped. `PlusInt` wraps as Int addition does.

`Servers` lists the deployments a run starts from, a server and the engine behind it: the output server with
Flink's RpcActor, the input server with Spark's, and the output server with Spark's, which takes pushes and only logs them.

### RankReports

`table` is `nginx_base_log`, a function from primary keys to lines: `Write` is one insert
of the job, an upsert, at a key made of the server, the line's time as the job parses
it (`StoredAt`) and a millisecond. `mail`, `Take`, `Reject`, `Reply` are either
`RpcActor`, which answers one question at a time; `ReadPage`/`ReadLast` are the
driver's pages in clustering order, of any size (`Unread` is what lies behind the last row), while
inserts go on; `Retry` is a Spark task run again, `JobFails` an exception of the
handler. The nine handlers are operators of the rows read (`ServicePv`,
`FlinkUv`, `SparkAvgTime`, ...), one for each handler with its four branches: `Groups` is the
`group by create_time` after the time became a period's name, `Visitors` the two
steps in which `uv` counts groups. Reports are compared by value: that Flink answers
totals as strings and Spark as JSON numbers is encoding and left out. Times are seconds; the engines' time zone
is that of the log, and response times are integers, so that sums are exact.

### PyPlan

An Environment is a record: the `OperationInfo`s in the order of their creation and the lists
`_sources`, `_sets`, `_sinks`, `_broadcast`. Each method of a DataSet, a grouping, a join, a cross or a co-group is
an operator from an Environment to the next, built from what the code repeats in each of
them (`Create`, `Adopt`, `Enlist`, `Below`); `Script` chooses, at any time, a source, a sink or any method on any
set a script can hold, up to the menu's number of calls; a join or co-group is one call with its `where`, `equal_to` and `using`. Any
set may be broadcast to another it is not computed from (`Upstream`).
`FindChains` is one iteration of the loop of `_find_chains`, from the last set to the
first: `MayChain` its condition as it evaluates (`parent not in self._broadcast` compares a set with
broadcasts and is always true, but the test is in the model), `Reparent` the grand children, `Redirect`
sinks and broadcasts. `SendPlan` is what Java receives. `FinalizeUnsorted` and `FinalizeSorted` replace
fields by positions among the extracted keys, in place. Functions are reduced to
their identity; `Meaning` is what a set computes as a term over them, and compares the plan before
(`orig`) and after merging. `asked`, `finals` and `orig` are history.

### PyConnection and PyWorker

`PyConnection` is `Connection.py` with the function left open: the process may at any time read,
write, fill the file, finish or raise. `ReadBuffer`/`BufferRead` are the two halves of `_read_buffer` around its
`recv_all`, `WriteBuffer`/`Confirmed` those of `_write_buffer`; both connection classes are one, the second side is used by
a co-group only (the twin's `read` does not test for an empty buffer as the single one does, but the deserializer raises there: both are `Fail`). `SendFinished` and `SendFinishedAgain` are the two end signals (`_run`'s and `execute`'s
`_close`). The task (`Serve`, `Collect`, `Conclude`, `SeeDeath`) hands over elements in portions
of any size; `Die` and `Vanish` stop either side. `sent`, `taken`, `written` are history.

`PyWorker` adds the function: `at` is the place in `_run`, `iters` the `GroupIterator`s with the element they have read
ahead, `match` the `CoGroupIterator`, `pend` what was collected through the chain and is not yet written, `ser` the value the
serializer was made for. Every action either takes one step of `PyConnection` or leaves it
alone. `FetchEach`, `FetchAny`, `FetchFirst`, `FetchGrouped`, `TakeLast` are the reads of the different
functions, `CoGroup` is `CoGroupIterator.next` with its five states, `Put`/`Flush` are `write` without and with a full
buffer, `Fail` is all that raises. `Expected` computes what the script asked for from the input as a whole, without
iterators; `Delivers` compares it with what is written. The scripts' own functions are representatives:
a successor, a filter, a duplication, sums.

## 3. Runs

| Run | Instance | Shows |
|---|---|---|
| `ingest_single` | 1 member, 3 records, 2 keys, one listed by an edit at any time, 2 faults | types, `OneFate`, `InOrder`, `RedeliveryWindow`, `CommittedWasOffered`, `NeverSkipsAfterCommit` |
| `ingest_cluster` | 2 members, 2 records, the first garbled, up to 2 faults; fair | refinement of `Relay` with joins, crashes, rejoins and orphans; `EventuallyRelayed` in the behaviours without faults |
| `stream_faults` | 2 good lines of two requests that are cut to one row key, 2 slots, 2 faults | `StatsAccounted`, `ForgetsOnlyWithoutSnapshot`, `CountedOnce`, `CommitBehindSnapshot`, `RowFate` |
| `stream_poison` | an unparsable line, then a good one whose status key does not split; both row tables; 2 faults | `StuckAtUnparsable`, `BrokenWindowsReturn` |
| `stream_live` | good, junk, good; 3 instants; no failures, fair | `WindowsAreWritten` |
| `stream_stuck` | good, unparsable, good; fair | violates `EveryEventProcessed` (section 6) |
| `gateway` | queries (one of an overflowing range), pushes and commands at the three servers, 2 workers, 2 failures | `AnswerIsOwn`, `OneCarrier` |
| `gateway_live` | 2 queries, 2 commands, no failures, fair | `ActorsStop` |
| `reports_flink` | 4 lines over two days and two sites, 3 inserts, 2 questions of 5 (one for visitors), 1 failure | `SoundReports`, `NeverShrinks`, `HoursButNoon` |
| `reports_spark` | the same tables, 1 question of 8, 1 failure or retry | on every table `RangesAddUp`, `EntriesAreRanges`, `EnginesAgree` |
| `py_plan` | all scripts of up to 3, 4 or 5 calls, beside 1 or 2 sources, from 7 menus of methods that meet | `ChainingKeepsMeaning`, `PlanResolves`, `GroupsOnUserKeys`, `MergedAlone` |
| `py_worker` | every function on up to 4 elements, group functions that take none, one, two or all of a group (co-groups: all ordered pairs of inputs of two elements and some of three), pairs of field types, a file of 4 units, i.e. one or two messages; fair | `NothingLost`, `NothingSkipped`, `FilesHandedOver`, `Delivers`, `KeptOrRaised`, `WorkerEnds` |

Bounds. Three records fill the reader's window of two and leave one beyond it;
two faults give the double restart (crash again before anything is re-committed)
and the pairs failed commit and crash, failed load and crash, failed send and
crash. Two members are enough for a router that knows one live and one dead routee and for
routers that disagree; more members only add routees of the same kinds. Two lines and two slots
let a window be open in a snapshot, fire, and be restored to fire again; a third
line does not enter a new relation between position, snapshot and group offset.
With two workers a query can be taken while the previous future is open, on the
same worker or another. Three inserts give a page, a row that arrives behind it and a row
that replaces another one; the lines include two that share a second once they are stored, one on
the bound of a range, and hours of two days.
A chain of three merged functions, a set read twice, a broadcast of either and a grouping with two sorts
need at most five calls; menus keep methods together whose links interact, and no method
reads what another menu's writes. Four elements give groups of two and of one behind each other and a buffer that ends inside
a group; keys up to three let either side of a co-group be ahead, behind or ended. Counters are bounded by
`NumRecords`/`NumLines`/`MaxNow`, operator edits by `MaxEdits`, failures by
`MaxFaults`; all other state is bounded by these. Deadlock checking is off
because every instance ends when its inputs and faults are used up, its script has been sent or
its process has stopped.

Fairness. Weak fairness of the actor, stream, driver and producer steps: a
dispatcher runs every actor that has mail, and none of these steps can be
disabled by another for ever. `Load` is fair because it is on a timer,
`Trigger` because checkpoints are, `Restore` and `ContainerStarts`
because of the restart strategy and `restart: always`. Nothing is assumed of
clients, operators, producers of logs or faults, nor (in `KafkaIngest`) that a
crashed process comes back. `EventuallyRelayed` and `ActorsStop` are conditional
on what the code leaves to luck: tables loaded and routees known before the record is told;
a question that was not lost. In `PyWorker` the process is scheduled and the task answers as
long as its machine runs (weak fairness of `Works` and of `Task`): each step of the process stays possible
until it is taken, and an answer that is due is never withdrawn. `WorkerEnds` leaves out what the code does not end: a
task that vanished, a side without elements the task does not answer for, a function
that leaves its group untouched.

Mutants. Each property is shown to be able to fail: next to a definition stands a
slip of it (`Bug...`), a plausible mistake in the code it models, under which the property is violated.

## 4. Proofs

`KafkaIngestProofs` proves, for any members, records, keys, port files and numbers
of faults, from the assumptions named in `KafkaIngest` only:

- `TypeCorrect`: `Spec => []TypeOK`. `TypeOK` is inductive as it stands; it
  includes the reader's window `committed <= told <= committed + 2`, which is not a matter
  of typing: it depends on the guards of `Tell` and `Commit` and on both ends being
  reset together by `HomeStart`.
- `CommittedOffered`: `Spec => []CommittedWasOffered`. Not inductive: a commit moves to
  a record about which the invariant says nothing. The strengthening says that every
  record up to *`told`* was skipped or offered (`ToldWasOffered`); with
  `committed <= told` from `TypeOK` it implies the property.
- `NeverSkips`: `Spec => NeverSkipsAfterCommit`. A start from the
  committed offset adds the empty interval `told + 1 .. committed` to
  `skipped`, again by `committed <= told`.

The lemmas in front of them (`BoxTail`, `BoxAppend`, `BoxClear`, `LostType`, ...) say once
for all mailboxes, producers and ways of losing a message what a step does to their types.

`KafkaFateProofs` proves, from the same assumptions:

- `MessagesHaveOneFate`: `Spec => []OneFate`. `Fate` is a relation between any boxes, losses and messages, and
  a few lemmas say what keeps it: the first message of a box taken and put at the end of another
  (`FateMove`), taken and lost (`FateDrop`), whole boxes emptied into the losses (`FateClear`), a
  new message put or lost (`FatePut`, `FateLose`). Each action is one of these. It is not inductive alone, for
  a message told must be new: `OffersPast` says that those told before are of an earlier
  start of the process or of a record behind the reader.
- `PathIsRelay`: `Spec => ImplementsRelay`. The refinement mapping makes `transit` the set of all that mailboxes and
  producers hold. By `OneFate` that set is what was told, without the losses and without what
  arrived (`TransitLaw`); losses only grow, so a step that tells and delivers nothing is a
  `Lose`, whatever the actors do. A successful send removes the message it
  delivers because that message was in one place only.
- `PathInOrder`: `Spec => []InOrder`. Order in the topic alone is not inductive. With one member the topic, the producer's
  buffer and the two mailboxes are one path, sorted within each box and from box to box (`Ordered`); what
  is told next comes after all of it, since by `OneFate` what a box holds was offered and by `OffersPast`
  what was offered is of an earlier start or behind the reader. A crash empties boxes, which keeps the rest sorted.
- `RedeliveryBounded`: `Spec => []RedeliveryWindow`. A start goes back to the committed offset and so makes at most two told
  records ahead of the reader (`committed <= told <= committed + 2`). The invariant (`Counted`) counts these as used in
  advance: offers and told records ahead of the reader together are at most the records told and two per start.

`GatewayProofs` proves, for any requests, ranges, workers, servers and numbers of failures:

- `TypeCorrect` (`TypeOK`).
- `AnswersAreOwn` (`AnswerIsOwn`), from `Own`: every carrier of a question or an answer (worker mailbox, future, actor
  mailbox, response) bears the address of the request it is about, a response fits its request, and a
  client that still waits has no answer yet. The property speaks of the client's end only; the hazard is in
  between, where a worker has taken the next query before the last future completes.
- `OneCarrierEach` (`OneCarrier`), from `Asked`: a question is in one of five carriers, once, exactly while its actor waits
  (`One`), and a request reaches `DataService` once, before it has an actor (`InboxNew`); without the latter a
  second actor for the same request would ask again. Each step that takes a question from one carrier puts it into
  one other, which a lemma per carrier says (`WorkerTake`, `FutureEnd`, `LostAdd`, ...).
  Events are accounted for by the same lemmas: an event is told in the step that answers its client (`Pushed`) and nobody waits
  for it, so whether it has a carrier (`Waits`) depends on its client and on `relayed`, not on an actor. That no reason of loss is
  wrong for its server needs that the output server relays nothing.

`StreamJobProofs` proves, for any lines, keys, tables, window length and number of
failures:

- `CommitsBehind` (`CommitBehindSnapshot`), from the inductive `Positions`: group offset <= last
  snapshot <= snapshot under way <= reader, together with what a job that does not run
  lacks (no snapshot under way, nothing to notify, none at all when the container is
  down). The property alone is not inductive: a completing snapshot would have to be known
  to lie behind the offset, and a start without a snapshot in front of it.
- `BrokenForever` (`BrokenWindowsReturn`), from `Accounted` (below) and `Keyed`: an entry of a window has the key of its line, and no
  row was made of a window whose key breaks. So a line with such a key is not in a row, and what is not in a row
  or forgotten is in its window, in the job and in each snapshot.
- `StuckForever` (`StuckAtUnparsable`): the snapshot that completes, and the offset
  that is committed, are bounded by `Positions` and by where the reader is.
- `TypeCorrect` (`TypeOK`), which needs `Positions` for the offset that is committed.
- `ForgetsOnly` (`ForgetsOnlyWithoutSnapshot`), from `Kept`: an entry of a window
  that was read before a snapshot's position is in that snapshot, and a snapshot holds
  nothing read after its position.
- `NothingMissed` (`StatsAccounted`), from `Accounted`: the property extended to the
  windows of a job that has died, which the next start declares forgotten.
- `RowsHaveFates` (`RowFate`), inductive as it stands.
- `CountsOnce` (`CountedOnce`). Its first part is inductive only if it also holds in the snapshots (`Distinct`), for a
  restore brings their windows back. Its second part needs to know why the line just read is in no row yet: until the first
  failure the job has been running since its start (`FirstPass`), and all its rows are of lines the reader is past (`RowsPast`).

`RankReportsProofs` proves, for any lines, questions, pages and failures and either engine:

- `TypeCorrect` (`TypeOK`).
- `ReportsSound` (`SoundReports`), from `UnderWay`: while a report is read, each row of
  its range that was there at the start is counted or still in front of the cursor.
  The property speaks of finished answers only and is not inductive; that a page misses and repeats
  nothing is `PageSound`, which needs that keys are ordered (`OrderCut`).
- `ReportsGrow` (`NeverShrinks`), from `Ascending`: the rows of an answer were in the table when it was given and are still,
  under keys that never leave it, and the next report on the question holds all of them by `ReportsSound`.
- `HoursKept` (`HoursButNoon`). A row's key holds the time as the job parsed it (`ParsedKeys`); the calendar lemma `HalfDay`
  says to which hour and day that moves it, and an hour's rows are counted as those of one or two hours of the log (`HourRows`).

The other four are about every table and so need no invariant but `TypeOK`: `RangesSum` (`RangesAddUp`), `EntriesMatch` (`EntriesAreRanges`),
`EnginesSame` (`EnginesAgree`) and `PeriodsMatch` (`PeriodsRefine`, which is only proved and in no run). Page views are cardinalities, which the library's bijection and
union theorems add up. Times and costs are sums over sets, and `MapThenSumSet` is a recursive function over the
choice of an element: `AddsExists` and `AddsUnique` prove what it computes, `SummedWithout` that the order does not matter,
`SummedParts` that the parts of a set add up to it. They rest on `SubsetInduction`, an induction over
the subsets of a finite set stated for a *set* of subsets, which the provers can instantiate where they cannot
instantiate the library's theorem for a predicate.

`PyPlanProofs` proves, for scripts of any length over any menu of methods:

- `PlanInvariant`: every Environment a script makes, and every one between two merges, is `Whole`.
- `PlanTypes` (`PlanOK`), its first part (`Typed`).
- `EveryPlanResolves` (`PlanResolves`): ids, inputs and broadcasts, announced types and functions of every plan that is sent.
- `OnlyReaderMerged` (`MergedAlone`). The property is about what sets *read*, `_find_chains` looks at what a parent's *lists* say.
  The two agree because of `Registered`: a set is among the `children` of its parent and of its other input, a sink among the
  `sinks` of its parent. This is easy to break: a join is built out of two key maps after its
  own info exists, a sink or a broadcast is in lists of its own, and a merge passes on the readers of the child one by one and by
  identifier. So the invariant also says which kinds of operation each list holds (`Kinds`), that a set is listed once (`Once`) and that
  ids are unique and given before a set is listed (`UniqueIds`, `Numbered`), without which `_remove_set` would remove something else.

That what is sent reads only what is sent (`Resolved`) is kept by a method because a script holds only what is listed
(`Scripting`), and by a merge because whoever read the child now reads the parent, on the side on which it read the child: the invariant
counts a set that reads the parent on both sides twice among its children (`ReadsTwice`), for the loop turns one side each time.

That no function is lost or run twice (`Apart`) needs a reason why the parent of a merge has no chain yet, since
`chained_info` is overwritten without a test. It is the order of the loop: sets that may be merged are listed after all sets
created before them (`Ordered`), the loop goes from the last to the first, and a set merged once had one child, which
left the list; so nothing before it can be merged into it again (`NoMore`). Chains go upwards (`ChainsUp`), which makes `ChainOf`
defined (`UnfoldsExist`, by induction from the last set down) and lets `ChainSame` say that a merge changes the
chain of the parent only.

- `GroupingsKeepKeys` (`GroupsOnUserKeys`): whatever a script groups by, sorts by and puts below its groupings,
  in whatever order and at however many sort levels, a grouping used once groups and sorts by the fields the script named. `_finalize`
  replaces fields by positions in the grouping, in all its sorts and in an identity map the script cannot see. The invariant
  (`Groups`) says that this map is the pre-step of one grouping (`PreOK`), that a sort and its grouping name each other (`SortOK`),
  that a sort has its position as soon as anything reads it (`Usable`), and that a grouping that was not used
  has sorts that were not either (`FieldTrue`). `FinalizedGroups` is the argument for any set of groupings that `_finalize` changes;
  `SortedFields` that the positions point at the right fields among those extracted; all other methods are `Quiet`.

Each method is proved from lemmas about the few changes it is made of. A merge goes through Environments that are *not* whole (a child
still listed whose readers have gone), and the lemmas `LoopMoved`, `RedirectStep` and `MergeStep` say what holds between its steps.
The loop over the readers and the new list of sets are functions on the positions of a list; `LoopMoved` and `PickedBut` are proved
by induction over a *set* of numbers (`NatSetInduction`).

`PyConnectionProofs` proves, for any elements, messages, file size and any function:

- `ConnectionLosesNothing`, `ConnectionSkipsNothing`, `FilesAreHandedOver` and `DoneIsComplete` (`DoneHasAll`), from one inductive
  invariant, `ConnInv`: types, the two equations (what is written is collected, in the file or in
  `_out`; what was sent is read, buffered, in the file or with the task) and `Shape`, which says what may be on the socket in each state of the
  process: nothing but what it waits for, one answer at most, the end signals last. The equations alone are not inductive:
  a second request or a stray confirmation would break them.

`PyWorkerProofs` proves, for any jobs:

- `WorkerImplementsConnection`: every step of `PyWorker` is a step of `PyConnection` or a stutter.
- `WorkerLosesNothing`, `WorkerSkipsNothing`, `WorkerIsComplete`, `WorkerHandsOver`, inherited through it.

- `WorkerTypes` (`TypeOK`), from `WorkTypes`, the part of `TypeOK` the connection does not know. An iterator that has
  nothing read ahead must know that its group is over (`Sound`): otherwise the next group could start with no element.

Their hypothesis `[]Serializes`, that what is serialized is one of `Messages`, only fixes what that constant has to
contain; it is part of `TypeOK`, which `py_worker` checks for its jobs. What a worker's messages are is defined by folds over
data and by `SelectSeq`, of which the prover knows nothing, so `Delivers` and `KeptOrRaised` stay with TLC.

Liveness (`EventuallyRelayed`, `WindowsAreWritten`, `ActorsStop`, `WorkerEnds`) is out of the prover's reach
and stays with TLC. So does `ChainingKeepsMeaning`, which compares terms built by recursion through the plan.

## 5. What the models take from outside `src/`

Libraries are modelled by how the code uses them and marked `external`: Akka
2.4 cluster routers (members join one at a time, a dead routee is known until the
failure detector says so, a pool escalates its routees' failures),
akka-stream-kafka's `mapAsync` and commits, kafka-clients 0.9/0.10 (`retries`
0, batches in order), Flink 1.2.1 (aligned snapshots, restart with a fixed delay and
practically no limit when checkpointing is on, snapshots in the JobManager's
memory, offsets committed when a snapshot completes, `CassandraSink` issuing
asynchronous inserts and throwing at the next row after a failure; a global aggregate over no row
gives one row, whose sum is null), the Cassandra driver's paging, Spark's retries of a task and
spray-can (one response per request, a request timeout).

The Java side of the Python API is not in the repository: it is the peer `Connection.py`
expects, answering one signal after the other, handing groups over sorted by key in
Python's order, elements of one input having one type; what it answers to a request when nothing is left is left open (an
empty last buffer, or nothing). Scripts are calls of the API with functions of their own, on Python 3.

Left out: of the Python API, custom types, several environments in one script, names and parallelism of operators
and the encoding of the plan (a value per field); tuples within tuples are flattened. Left out elsewhere: what is in a record beyond its outcome at each branch; several topics
and partitions (each has a `KakfaActor` or subtask of its own, with no shared state but the
routers); the order in which two asynchronous inserts of the same row reach
Cassandra (the later completion wins in the model); the gateway's static pages.

## 6. What the models make visible

- A line that matches the pattern and whose request length or response time is no
  number (nginx writes `-` for requests it answers itself) throws in
  `parseLogLine` (`AccessLog.scala:71-72`); the job is restored to before that line and throws
  again, for ever. `stream_stuck` shows it against `README.md:167`
  ("每个事件转化处理", every event is transformed and processed); `StuckAtUnparsable` shows
  that no offset ever passes the line.
- After a failed commit the collection stream stays dead until the process restarts.
- Before the group has an offset, a restart jumps over what was produced meanwhile.
- `{"result":"ok"}` to a push says that its event was told, no more: from then on it is in one worker's mailbox, handed to
  Kafka, or lost with a node, for want of a routee, or at an output server, whose workers only log it (`OneCarrier`).
- A namespace or server name with `::` makes the status window throw when it fires, after snapshots hold it: it is
  never written and fires again after every restore, until a start without a snapshot forgets it (`BrokenWindowsReturn`).
- Queries at the input server, and `CmdMessage` at Spark's RpcActor, are never
  answered: the client runs into its timeout and the request's actor is never stopped.
- A container restart forgets open windows whose lines' offsets may be
  committed; a restore counts again windows that had fired after the snapshot.
- The job parses times with `hh`, so a line logged at 12:xx is stored and
  reported at 00:xx of its day (`HoursButNoon`).
- A question to Spark in another format than day, hour and minute throws whenever there is a row
  (`RankDataService.scala:94,171,261`), and an average without a format over no row
  throws in Flink; neither is ever answered.
- The comment at `py/plan/Environment.py:281` ("we may only chain if the parent is not used as a broadcast variable")
  is not what the test below it does: `_broadcast` holds the broadcasts and not the sets, so a set
  that is broadcast is merged with its only reader, and the reader's output is broadcast (`BroadcastMerged`).
- When the second set of a co-group is merged into its parent, the operation, that set's child since `co_group`, is turned to
  the parent and reads it past the key map (`KeyMapBypassed`).
- Merged functions share their broadcast variables; equal names replace each other (`NamesClash`).
  `ChainingKeepsMeaning` shows that these three reach no further: a sink that is not computed by way of one of them writes what it
  would without merging, also in a script that has them.
- A grouping used twice is rewritten twice: the second use groups by positions of the first, where
  `py/plan/DataSet.py:256` says that the positions given are those "on which the DataSet is grouped".
- A group function that does not read its group to the end is called again for the rest of it, and
  one that reads nothing for ever, where `py/plan/DataSet.py:708` says "once for each group"; `Delivers`
  shows that the pieces lose no element and never reach into the next group.
- An empty input, where the task sends an empty buffer, ends in an exception: `has_next` is true before the first read.
- The first value fixes the serializer: after an int a float raises, after a bool anything is written as its truth value,
  a shorter tuple is written without complaint under the longer type.
- A co-group with a broadcast variable that is not empty raises, as its `_configure` sets no `_env`.
- When the task's machine is gone the process loops in `recv_all` on the closed socket.
- A number of visitors may shrink when a row replaces another of the same key; no
  other total does (`NeverShrinks`).

## 7. Not modelled, and what is left

Not modelled: program starts, the dead letter listener and demonstration programs, which keep no
state; the scripts and configuration of the distributions under `dockerfile/`; `ZeroMqActor`, a
tell per message. The select statements of `smack/cassandra` are single reads.

What would extend the models, the most valuable first:

1. `Pipeline`: `KafkaIngest`'s output topic as `StreamJob`'s input, with an
   abstract end-to-end promise (a row's line was relayed; at most so many rows per restart).
2. `RankReports` composed with `Gateway`: which requests the exceptions of a handler leave open.
3. `FileCollector` and `PortLoader`: timers that outlive the actor that scheduled
   them (`FileActor.scala:15-29`, `KafkaConsumeWorker.scala:25`).
4. `PyPlan` composed with `PyWorker`: a job's chain and keys taken from the plan of a script.
5. `Sinks`: InfluxDB batches and tags beside Cassandra's upserts.
6. `JsonFlatten`, `LogLine`: flattening against a recursive reference; where
   splitting at blanks and the pattern's groups disagree.
7. Groupings used more than once: `_finalize` then takes the positions of the first use for fields; which second
   uses are harmless, as those of groupings by the leading fields.
