----------------------------- MODULE StreamJob -----------------------------
(***************************************************************************)
(* The Flink job of KafkaNewConsumerForActor (and KafkaNewConsumer): lines *)
(* of one Kafka partition are filtered, written to tables one row a line,  *)
(* parsed, and counted in processing-time windows whose rows are written   *)
(* when they fire.  Flink snapshots the reader and the windows every five  *)
(* seconds and restarts the job from the last snapshot whenever an         *)
(* operator throws; Cassandra writes are asynchronous and not part of it.  *)
(***************************************************************************)
EXTENDS Naturals, FiniteSets

CONSTANTS
    NumLines,    \* bound: lines that are ever appended to the topic
    Kind,        \* of a line: "line", "junk" (no match) or "unparsable" (a group is no number or date)
    Logs,        \* tables with a row for every line, of "nginx_log", "nginx_base_log"
    Ops,         \* the windowed operators: status and request statistics
    Keys,        \* their keys and the partition keys of the tables
    WinKey,      \* WinKey[o][r]: the key under which operator o counts line r
    Breaks,      \* keys that do not split back into their parts: o's sink throws
    StatKey,     \* StatKey[o][k]: the key of the row that o's sink makes of the first parts of k
    RowKey,      \* RowKey[s][r]: key of line r in table s, but for the time of writing
    None,        \* no snapshot
    SlotLen,     \* instants in a window
    MaxNow,      \* bound: instants the clock shows
    MaxFaults    \* bound: failures other than those the lines cause

Sinks == Logs \cup Ops

ASSUME BoundAssumption == /\ NumLines \in Nat /\ MaxNow \in Nat /\ MaxFaults \in Nat
                          /\ SlotLen \in Nat \ {0}
ASSUME LineAssumption  == /\ Kind \in [1 .. NumLines -> {"line", "junk", "unparsable"}]
                          /\ "nginx_log" \in Logs /\ Logs \subseteq {"nginx_log", "nginx_base_log"}
                          /\ Ops \cap Logs = {}
                          /\ WinKey \in [Ops -> [1 .. NumLines -> Keys]]
                          /\ Breaks \in [Ops -> SUBSET Keys]
                          /\ StatKey \in [Ops -> [Keys -> Keys]]
                          /\ RowKey \in [Logs -> [1 .. NumLines -> Keys]]

VARIABLES
    produced,    \* lines in the topic
    now,         \* the clock
    status,      \* "running", "failed" (Flink will restart it) or "down" (no container)
    pos,         \* lines read
    win,         \* win[o]: the lines operator o holds, with their key and slot
    pend,        \* snapshot being taken, or None
    ckpt,        \* last complete snapshot, or None
    notify,      \* the source has yet to hear that ckpt is complete
    committed,   \* offset of the consumer group
    hasGroup,    \* whether it has one
    inflight,    \* writes handed to the driver
    broken,      \* sinks that have seen a write fail and not yet thrown
    table,       \* rows of all tables
    issued,      \* history: all writes
    dropped,     \* history: writes that failed or died with their session
    skipped,     \* history: lines a start without an offset jumped over
    forgotten,   \* history: <<o, line>> counts that died with a container
    tainted,     \* history: the job has failed at least once
    faults

flink_vars  == <<status, pos, win, pend, ckpt, notify>>
group_vars  == <<committed, hasGroup>>
write_vars  == <<inflight, broken, table, issued, dropped>>
ghost_vars  == <<skipped, forgotten, tainted>>
vars == <<produced, now, flink_vars, group_vars, write_vars, ghost_vars, faults>>

Elem     == [key : Keys, slot : Nat, off : 1 .. NumLines]
Windows  == [Ops -> SUBSET Elem]
Snapshot == [pos : 0 .. NumLines, win : Windows]
Write    == [sink : Sinks, key : Keys, at : Nat, offs : SUBSET (1 .. NumLines)]
NoWindows == [o \in Ops |-> {}]

Slot(t)  == t \div SlotLen

\* Slip: the parser swallows what it cannot convert.
BugIsLine(r) == Kind[r] # "junk"

\* parseLogLine returns: all numbers and the date convert.
IsLine(r) == Kind[r] = "line"

Init ==
    /\ produced = 0 /\ now = 0
    /\ status = "running" /\ pos = 0 /\ win = NoWindows
    /\ pend = None /\ ckpt = None /\ notify = FALSE
    /\ committed = 0 /\ hasGroup = FALSE
    /\ inflight = {} /\ broken = {} /\ table = {} /\ issued = {} /\ dropped = {}
    /\ skipped = {} /\ forgotten = {} /\ tainted = FALSE
    /\ faults = 0

-----------------------------------------------------------------------------
Produce ==
    /\ produced < NumLines
    /\ produced' = produced + 1
    /\ UNCHANGED <<now, flink_vars, group_vars, write_vars, ghost_vars, faults>>

Tick ==
    /\ now < MaxNow
    /\ now' = now + 1
    /\ UNCHANGED <<produced, flink_vars, group_vars, write_vars, ghost_vars, faults>>

Issue(ws) ==
    /\ inflight' = inflight \cup ws
    /\ issued'   = issued \cup ws
    /\ UNCHANGED <<broken, table, dropped>>

\* An exception, or the end of the process.  pos and win keep what the dead job
\* had until the next start, which says what became of it.  Tasks are cancelled
\* and their sessions closed: of the writes in flight, and those issued by the
\* throwing call, any may still arrive.
Abort(ws, next) ==
    /\ status' = next
    /\ pend' = None /\ notify' = FALSE
    /\ \E kept \in SUBSET (inflight \cup ws) :
         /\ inflight' = kept
         /\ dropped'  = dropped \cup ((inflight \cup ws) \ kept)
    /\ issued' = issued \cup ws
    /\ broken' = {}
    /\ tainted' = TRUE
    /\ UNCHANGED <<table, pos, win, skipped, forgotten>>

-----------------------------------------------------------------------------
(* The chain from the source to the row sinks and the window operators.    *)

RowOf(s, r) == [sink |-> s, key |-> RowKey[s][r], at |-> now, offs |-> {r}]

\* isValidateLogLine: the regular expression matches.
Passes(r) == Kind[r] # "junk"

ReadJunk ==
    /\ status = "running" /\ pos < produced /\ ~Passes(pos + 1)
    /\ pos' = pos + 1
    /\ UNCHANGED <<produced, now, status, win, pend, ckpt, notify, group_vars,
                   write_vars, ghost_vars, faults>>

\* Every operator counts the line in the window of its arrival.
Counted(r) ==
    [o \in Ops |-> win[o] \cup {[key |-> WinKey[o][r], slot |-> Slot(now), off |-> r]}]

ReadLine ==
    LET r == pos + 1 IN
    /\ status = "running" /\ pos < produced
    /\ Passes(r) /\ IsLine(r) /\ Logs \cap broken = {}
    /\ pos' = r
    /\ win' = Counted(r)
    /\ Issue({RowOf(s, r) : s \in Logs})
    /\ UNCHANGED <<produced, now, status, pend, ckpt, notify, group_vars,
                   ghost_vars, faults>>

\* A sink that saw a write fail throws at its next row; parseLogLine throws on
\* numbers that do not parse, when the raw row is already on its way.
ReadThrows ==
    LET r == pos + 1 IN
    /\ status = "running" /\ pos < produced /\ Passes(r)
    /\ \/ "nginx_log" \in broken /\ Abort({}, "failed")
       \/ /\ "nginx_log" \notin broken
          /\ ~IsLine(r) \/ "nginx_base_log" \in broken
          /\ Abort({RowOf("nginx_log", r)}, "failed")
    /\ UNCHANGED <<produced, now, ckpt, group_vars, faults>>

-----------------------------------------------------------------------------
(* A window fires once its end has passed: one row, whose key is made of   *)
(* the first parts of the window's, so that two windows may have one row.  *)

\* Slip: a window stays open for one slot more than there is time.
BugDue(o, k, s) == {e \in win[o] : e.key = k /\ e.slot = s /\ s + 1 < Slot(now)}

Due(o, k, s) == {e \in win[o] : e.key = k /\ e.slot = s /\ s < Slot(now)}

\* Slip: the window is evaluated and not purged.
BugPurged(o, k, s) == win

\* The window's content is gone once it has been evaluated.
Purged(o, k, s) == [win EXCEPT ![o] = @ \ Due(o, k, s)]

Fire(o, k, s) ==
    /\ status = "running" /\ Due(o, k, s) # {}
    /\ k \notin Breaks[o] /\ o \notin broken
    /\ Issue({[sink |-> o, key |-> StatKey[o][k], at |-> now, offs |-> {e.off : e \in Due(o, k, s)}]})
    /\ win' = Purged(o, k, s)
    /\ UNCHANGED <<produced, now, status, pos, pend, ckpt, notify, group_vars,
                   ghost_vars, faults>>

\* logs(2).toInt, when a part of the key holds "::", or a sink that saw a write fail.
FireThrows(o, k, s) ==
    /\ status = "running" /\ Due(o, k, s) # {}
    /\ k \in Breaks[o] \/ o \in broken
    /\ Abort({}, "failed")
    /\ UNCHANGED <<produced, now, ckpt, group_vars, faults>>

-----------------------------------------------------------------------------
(* CassandraTupleSink: asynchronous inserts, an upsert on the primary key. *)

SameRow(v, w) == v.sink = w.sink /\ v.key = w.key /\ v.at = w.at

\* Slip: the primary key is the time of writing alone.
BugUpsert(w) == {v \in table : v.at # w.at} \cup {w}

\* Which of two writes of a row that cross each other wins is left open.
Upsert(w) == {v \in table : ~SameRow(v, w)} \cup {w}

WriteDone(w) ==
    /\ w \in inflight
    /\ inflight' = inflight \ {w}
    /\ table' = Upsert(w)
    /\ UNCHANGED <<produced, now, flink_vars, group_vars, broken, issued, dropped,
                   ghost_vars, faults>>

WriteFails(w) ==
    /\ w \in inflight /\ faults < MaxFaults
    /\ inflight' = inflight \ {w}
    /\ dropped' = dropped \cup {w}
    /\ broken' = IF status = "running" THEN broken \cup {w.sink} ELSE broken
    /\ faults' = faults + 1
    /\ UNCHANGED <<produced, now, flink_vars, group_vars, table, issued, ghost_vars>>

-----------------------------------------------------------------------------
(* Checkpoints.                                                            *)

\* Slip: windows that are still open are left out of the snapshot.
BugSnapshotNow ==
    [pos |-> pos, win |-> [o \in Ops |-> {e \in win[o] : e.slot < Slot(now)}]]

\* Barriers align: the windows hold what was read before the source's position.
SnapshotNow == [pos |-> pos, win |-> win]

Trigger ==
    /\ status = "running" /\ pend = None
    /\ pend' = SnapshotNow
    /\ UNCHANGED <<produced, now, status, pos, win, ckpt, notify, group_vars,
                   write_vars, ghost_vars, faults>>

Complete ==
    /\ status = "running" /\ pend # None
    /\ ckpt' = pend /\ pend' = None /\ notify' = TRUE
    /\ UNCHANGED <<produced, now, status, pos, win, group_vars, write_vars,
                   ghost_vars, faults>>

\* Slip: no enableCheckpointing, so that the consumer commits its own position.
BugToCommit == pos

\* Slip: off by one between the last line read and the next to read.
BugNextToCommit == ckpt.pos + 1

\* The offset kept with the snapshot that has completed.
ToCommit == ckpt.pos

\* notifyCheckpointComplete: the source commits the offset of the snapshot.
Commit ==
    /\ status = "running" /\ notify
    /\ committed' = ToCommit /\ hasGroup' = TRUE
    /\ notify' = FALSE
    /\ UNCHANGED <<produced, now, status, pos, win, pend, ckpt, write_vars,
                   ghost_vars, faults>>

-----------------------------------------------------------------------------
(* Failures and restarts.                                                  *)

TaskFails ==
    /\ status = "running" /\ faults < MaxFaults
    /\ faults' = faults + 1
    /\ Abort({}, "failed")
    /\ UNCHANGED <<produced, now, ckpt, group_vars>>

\* The container dies: snapshots are kept in the JobManager's memory.
ContainerDies ==
    /\ status # "down" /\ faults < MaxFaults
    /\ faults' = faults + 1
    /\ ckpt' = None
    /\ Abort({}, "down")
    /\ UNCHANGED <<produced, now, group_vars>>

StartAt(p, w) ==
    /\ status' = "running"
    /\ pos' = p
    /\ win' = w
    /\ skipped' = skipped \cup {r \in 1 .. p : r > pos}
    /\ forgotten' = forgotten \cup
         {c \in Ops \X (1 .. p) : c[2] \in {e.off : e \in win[c[1]] \ w[c[1]]}}
    /\ UNCHANGED <<produced, now, pend, ckpt, notify, group_vars, write_vars,
                   tainted, faults>>

\* Without a snapshot the source starts at the group's offset, or at the end of
\* the topic (latest) when the group has none.
StartPosition == IF hasGroup THEN committed ELSE produced

\* Slip: the window operators are not part of what is restored.
BugRestoredWindows == NoWindows

RestoredWindows == ckpt.win

\* The default restart strategy with checkpointing: as often as it takes.
Restore ==
    /\ status = "failed"
    /\ IF ckpt # None THEN StartAt(ckpt.pos, RestoredWindows)
                      ELSE StartAt(StartPosition, NoWindows)

\* restart: always, and start.sh submits the job anew.
ContainerStarts ==
    /\ status = "down"
    /\ StartAt(StartPosition, NoWindows)

-----------------------------------------------------------------------------
Next ==
    \/ Produce \/ Tick \/ ReadJunk \/ ReadLine \/ ReadThrows
    \/ Trigger \/ Complete \/ Commit
    \/ TaskFails \/ ContainerDies \/ Restore \/ ContainerStarts
    \/ \E o \in Ops, k \in Keys, s \in 0 .. Slot(MaxNow) : Fire(o, k, s) \/ FireThrows(o, k, s)
    \/ \E w \in inflight : WriteDone(w) \/ WriteFails(w)

Spec == Init /\ [][Next]_vars

\* The tasks, the timer service, the driver, the checkpoint coordinator and the
\* restart strategy are threads that run as long as they have something to do.
Fairness ==
    /\ WF_vars(Tick) /\ WF_vars(ReadJunk) /\ WF_vars(ReadLine) /\ WF_vars(ReadThrows)
    /\ WF_vars(Trigger) /\ WF_vars(Complete) /\ WF_vars(Commit)
    /\ WF_vars(Restore) /\ WF_vars(ContainerStarts)
    /\ \A o \in Ops, k \in Keys, s \in 0 .. Slot(MaxNow) :
         WF_vars(Fire(o, k, s)) /\ WF_vars(FireThrows(o, k, s))
    /\ WF_vars(\E w \in inflight : WriteDone(w))

FairSpec == Spec /\ Fairness

-----------------------------------------------------------------------------
(* Properties.                                                             *)

\* Every variable stays in its type.
TypeOK ==
    /\ produced \in 0 .. NumLines /\ now \in 0 .. MaxNow
    /\ status \in {"running", "failed", "down"}
    /\ pos \in 0 .. produced
    /\ win \in Windows
    /\ pend = None \/ pend \in Snapshot
    /\ ckpt = None \/ ckpt \in Snapshot
    /\ notify \in BOOLEAN
    /\ committed \in 0 .. produced /\ hasGroup \in BOOLEAN
    /\ inflight \subseteq Write /\ table \subseteq Write
    /\ issued \subseteq Write /\ dropped \subseteq Write
    /\ broken \subseteq Sinks
    /\ skipped \subseteq 1 .. NumLines /\ forgotten \subseteq Ops \X (1 .. NumLines)
    /\ tainted \in BOOLEAN /\ faults \in 0 .. MaxFaults

Emitted(o) == UNION {w.offs : w \in {v \in issued : v.sink = o}}
Holds(w, o) == {e.off : e \in w[o]}
AllAccounted(p, w) ==
    \A r \in 1 .. p, o \in Ops :
      IsLine(r) => \/ r \in skipped \/ <<o, r>> \in forgotten
                   \/ r \in Holds(w, o) \/ r \in Emitted(o)

\* No statistic silently misses a line: whatever restarts the job went through,
\* each line the running job, or a snapshot it could restart from, is past is in
\* a window or in a row that was handed to the sink; the exceptions are the
\* lines jumped over and the windows that died with a container.
StatsAccounted ==
    /\ status = "running" => AllAccounted(pos, win)
    /\ pend # None => AllAccounted(pend.pos, pend.win)
    /\ ckpt # None => AllAccounted(ckpt.pos, ckpt.win)

\* Windows die only with a container: as long as Flink restores the job from a
\* snapshot it forgets no count.
ForgetsOnlyWithoutSnapshot ==
    [][forgotten' # forgotten => ckpt = None]_vars

\* A line is in at most one window of each operator, and until the job first
\* fails it is in one row of each table and in one window or statistic.
CountedOnce ==
    /\ \A o \in Ops : Cardinality(win[o]) = Cardinality(Holds(win, o))
    /\ ~tainted =>
         /\ \A v, w \in issued : v # w /\ v.sink = w.sink => v.offs \cap w.offs = {}
         /\ \A o \in Ops : Holds(win, o) \cap Emitted(o) = {}

\* A line that matches the pattern and does not parse is never passed: no
\* snapshot and no committed offset lies behind it, unless it was jumped over.
StuckAtUnparsable ==
    \A r \in 1 .. produced :
      Kind[r] = "unparsable" /\ r \notin skipped =>
        /\ pos < r
        /\ ckpt # None => ckpt.pos < r
        /\ committed < r

\* A line whose key does not split is never written and never got rid of: its window throws
\* whenever it fires, and is still there for the job that Flink restarts and in every
\* snapshot behind the line, which fires it again.  Only a start without a snapshot
\* jumps over the line or forgets the window.
NotWritten(p, w) ==
    \A r \in 1 .. p, o \in Ops :
      IsLine(r) /\ WinKey[o][r] \in Breaks[o] =>
        r \in skipped \/ <<o, r>> \in forgotten \/ r \in Holds(w, o)
BrokenWindowsReturn ==
    /\ status = "running" => NotWritten(pos, win)
    /\ ckpt # None => NotWritten(ckpt.pos, ckpt.win)

\* The group's offset never overtakes the snapshot the job would restart from,
\* so restarting without that snapshot re-reads every line it did not cover.
CommitBehindSnapshot ==
    hasGroup => committed <= IF ckpt # None THEN ckpt.pos ELSE pos

\* No insert vanishes unnoticed: it is under way, died with its session, or its
\* row is in the table, possibly overwritten by an insert with the same key
\* issued in the same instant.
RowFate ==
    \A w \in issued :
      \/ w \in inflight \/ w \in dropped
      \/ \E v \in table : SameRow(v, w)

\* Without failures and with parsable lines: what a window holds is written to
\* the table of its operator once its slot is over.
WindowsAreWritten ==
    \A o \in Ops, r \in 1 .. NumLines :
      (\E e \in win[o] : e.off = r /\ e.slot < Slot(MaxNow))
      ~> (\E v \in table : v.sink = o /\ r \in v.offs)

\* The README's promise of "transforming every event": every line appended to
\* the topic is eventually read past.
EveryEventProcessed ==
    \A r \in 1 .. NumLines : (r <= produced) ~> (r <= pos)
=============================================================================
