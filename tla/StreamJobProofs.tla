-------------------------- MODULE StreamJobProofs --------------------------
(***************************************************************************)
(* What StreamJob guarantees for any lines, keys, tables, windows and      *)
(* failures: the group's offset never overtakes the snapshot the job would *)
(* restart from, and neither ever passes a line that does not parse.       *)
(* Both rest on one order between four positions: group offset, last       *)
(* snapshot, snapshot under way, reader.  No line is in two windows of an  *)
(* operator, and until the first failure none is in two rows of a table or *)
(* in a row and a window.                                                  *)
(***************************************************************************)
EXTENDS StreamJob, FiniteSetTheorems, TLAPS

-----------------------------------------------------------------------------
(* The positions alone.                                                    *)

\* The part of the types that is about positions.
PositionType ==
    /\ produced \in Nat /\ pos \in 0 .. produced
    /\ committed \in 0 .. produced
    /\ hasGroup \in BOOLEAN /\ notify \in BOOLEAN
    /\ pend # None => pend.pos \in 0 .. produced
    /\ ckpt # None => ckpt.pos \in 0 .. produced

\* A job that does not run has no snapshot under way and nothing to notify, and
\* a container that is down has no snapshot at all.
OnlyRunningSnapshots ==
    /\ status # "running" => pend = None /\ ~notify
    /\ status = "down" => ckpt = None
    /\ notify => ckpt # None

\* Group offset, last snapshot, snapshot under way, reader: in this order.
PositionsOrdered ==
    /\ ckpt # None => ckpt.pos <= pos
    /\ pend # None => pend.pos <= pos
    /\ pend # None /\ ckpt # None => ckpt.pos <= pend.pos
    /\ hasGroup => /\ committed <= pos
                   /\ ckpt # None => committed <= ckpt.pos
                   /\ pend # None => committed <= pend.pos

Positions == PositionType /\ OnlyRunningSnapshots /\ PositionsOrdered

\* A snapshot of the present is one of the reader's position.
LEMMA SnapshotPos == SnapshotNow.pos = pos
  BY DEF SnapshotNow

LEMMA PositionsInit == Init => Positions
  <1> SUFFICES ASSUME Init PROVE Positions
    OBVIOUS
  <1>1. PositionType
    <2>1. hasGroup \in BOOLEAN /\ notify \in BOOLEAN
      BY Zenon DEF Init
    <2>2. /\ produced \in Nat /\ pos \in 0 .. produced /\ committed \in 0 .. produced
          /\ pend = None /\ ckpt = None
      BY SMT DEF Init
    <2> QED  BY <2>1, <2>2 DEF PositionType
  <1>2. OnlyRunningSnapshots /\ PositionsOrdered
    BY DEF Init, OnlyRunningSnapshots, PositionsOrdered
  <1> QED  BY <1>1, <1>2 DEF Positions

\* Failures take the snapshot under way with them and move no position.
LEMMA AbortStops ==
    ASSUME Positions, NEW ws, NEW next \in {"failed", "down"}, Abort(ws, next),
           UNCHANGED <<produced, committed, hasGroup>>,
           ckpt' = IF next = "down" THEN None ELSE ckpt
    PROVE  Positions'
  BY DEF Abort, Positions, PositionType, OnlyRunningSnapshots, PositionsOrdered

\* A start goes on from the snapshot, or from where the group or the end of the
\* topic is when there is none.
LEMMA StartsInOrder ==
    ASSUME Positions, NEW p, NEW w, StartAt(p, w), status # "running",
           \/ ckpt # None /\ p = ckpt.pos
           \/ ckpt = None /\ p = StartPosition
    PROVE  Positions'
  BY DEF StartAt, StartPosition, write_vars, group_vars, Positions, PositionType,
         OnlyRunningSnapshots, PositionsOrdered

LEMMA PositionsNext == Positions /\ [Next]_vars => Positions'
  <1> SUFFICES ASSUME Positions, [Next]_vars PROVE Positions'
    OBVIOUS
  <1> USE DEF flink_vars, group_vars, write_vars, ghost_vars
  <1>1. CASE Produce
    BY <1>1 DEF Produce, Positions, PositionType, OnlyRunningSnapshots, PositionsOrdered
  <1>2. CASE ReadJunk
    BY <1>2 DEF ReadJunk, Positions, PositionType, OnlyRunningSnapshots, PositionsOrdered
  <1>3. CASE ReadLine
    BY <1>3 DEF ReadLine, Positions, PositionType, OnlyRunningSnapshots, PositionsOrdered
  <1>4. CASE ReadThrows
    <2>1. PICK ws : Abort(ws, "failed")
      BY <1>4 DEF ReadThrows
    <2> QED  BY <1>4, <2>1, AbortStops DEF ReadThrows
  <1>5. CASE Trigger
    BY <1>5, SnapshotPos DEF Trigger, Positions, PositionType, OnlyRunningSnapshots, PositionsOrdered
  <1>6. CASE Complete
    BY <1>6 DEF Complete, Positions, PositionType, OnlyRunningSnapshots, PositionsOrdered
  <1>7. CASE Commit
    <2>1. ckpt # None /\ committed' = ckpt.pos /\ notify' = FALSE /\ hasGroup' = TRUE
      BY <1>7, Zenon DEF Commit, ToCommit, Positions, OnlyRunningSnapshots
    <2>2. notify' \in BOOLEAN /\ hasGroup' \in BOOLEAN /\ ~notify'
      BY <2>1, Zenon
    <2>3. UNCHANGED <<produced, status, pos, pend, ckpt>>
      BY <1>7 DEF Commit
    <2>4. PositionType'
      BY <2>1, <2>2, <2>3, SMT DEF Positions, PositionType
    <2>5. OnlyRunningSnapshots'
      BY <2>2, <2>3, Zenon DEF Positions, OnlyRunningSnapshots
    <2>6. PositionsOrdered'
      BY <2>1, <2>3 DEF Positions, PositionType, PositionsOrdered
    <2> QED  BY <2>4, <2>5, <2>6 DEF Positions
  <1>8. CASE TaskFails
    BY <1>8, AbortStops DEF TaskFails
  <1>9. CASE ContainerDies
    BY <1>9, AbortStops DEF ContainerDies
  <1>10. CASE Restore
    BY <1>10, StartsInOrder DEF Restore
  <1>11. CASE ContainerStarts
    BY <1>11, StartsInOrder DEF ContainerStarts, Positions, OnlyRunningSnapshots
  <1>12. ASSUME NEW o, NEW k, NEW s, FireThrows(o, k, s) PROVE Positions'
    BY <1>12, AbortStops DEF FireThrows
  <1>13. CASE UNCHANGED <<produced, status, pos, pend, ckpt, notify, committed, hasGroup>>
    BY <1>13 DEF Positions, PositionType, OnlyRunningSnapshots, PositionsOrdered
  <1>14. ASSUME NEW o, NEW k, NEW s, Fire(o, k, s) PROVE Positions'
    BY <1>14, <1>13 DEF Fire
  <1>15. ASSUME NEW w, WriteDone(w) \/ WriteFails(w) PROVE Positions'
    BY <1>15, <1>13 DEF WriteDone, WriteFails
  <1>16. CASE Tick \/ UNCHANGED vars
    BY <1>16, <1>13 DEF Tick, vars
  <1> QED
    BY <1>1, <1>2, <1>3, <1>4, <1>5, <1>6, <1>7, <1>8, <1>9, <1>10, <1>11, <1>12, <1>14,
       <1>15, <1>16 DEF Next

\* Whatever fails and restarts, the offset the group has committed lies within
\* the snapshot the job would restart from, so that starting without the
\* snapshot re-reads at least the lines it did not cover.
THEOREM CommitsBehind == Spec => []CommitBehindSnapshot
  <1>1. Positions => CommitBehindSnapshot
    BY DEF Positions, PositionsOrdered, CommitBehindSnapshot
  <1> QED  BY <1>1, PositionsInit, PositionsNext, PTL DEF Spec

-----------------------------------------------------------------------------
(* A line that does not parse.                                             *)

LEMMA StuckInit == Init => StuckAtUnparsable
  BY DEF Init, StuckAtUnparsable

LEMMA StuckNext == Positions /\ StuckAtUnparsable /\ [Next]_vars => StuckAtUnparsable'
  <1> SUFFICES ASSUME Positions, StuckAtUnparsable, [Next]_vars,
                      NEW r \in 1 .. produced', Kind[r] = "unparsable", r \notin skipped'
               PROVE  pos' < r /\ (ckpt' # None => ckpt'.pos < r) /\ committed' < r
    BY DEF StuckAtUnparsable
  <1> DEFINE Ahead == pos < r /\ (ckpt # None => ckpt.pos < r) /\ committed < r
  <1> USE DEF flink_vars, group_vars, write_vars, ghost_vars
  <1>1. ASSUME skipped \subseteq skipped', produced' = produced PROVE Ahead
    BY <1>1 DEF StuckAtUnparsable
  <1>2. CASE Produce
    <2>1. produced' = produced + 1 /\ UNCHANGED <<pos, ckpt, committed, skipped>>
      BY <1>2 DEF Produce
    <2>2. CASE r \in 1 .. produced
      BY <2>1, <2>2 DEF StuckAtUnparsable
    <2>3. CASE r = produced + 1
      BY <2>1, <2>3 DEF Positions, PositionType
    <2> QED  BY <2>1, <2>2, <2>3 DEF Positions, PositionType
  <1>3. CASE ReadJunk \/ ReadLine
    <2>1. /\ pos' = pos + 1 /\ Kind[pos + 1] # "unparsable"
          /\ UNCHANGED <<produced, ckpt, committed, skipped>>
      BY <1>3 DEF ReadJunk, ReadLine, Passes, IsLine
    <2>2. Ahead /\ r # pos + 1
      BY <2>1, <1>1
    <2> QED  BY <2>1, <2>2 DEF Positions, PositionType
  <1>4. CASE Complete
    <2>1. pend # None /\ ckpt' = pend /\ UNCHANGED <<produced, pos, committed, skipped>>
      BY <1>4 DEF Complete
    <2>2. Ahead
      BY <2>1, <1>1
    <2> QED  BY <2>1, <2>2 DEF Positions, PositionType, PositionsOrdered
  <1>5. CASE Commit
    <2>1. ckpt # None /\ committed' = ckpt.pos /\ UNCHANGED <<produced, pos, ckpt, skipped>>
      BY <1>5 DEF Commit, ToCommit, Positions, OnlyRunningSnapshots
    <2> QED  BY <2>1, <1>1
  <1>6. CASE ContainerDies
    <2>1. ckpt' = None /\ UNCHANGED <<produced, pos, committed, skipped>>
      BY <1>6 DEF ContainerDies, Abort
    <2> QED  BY <2>1, <1>1
  <1>7. CASE Restore \/ ContainerStarts
    <2>1. PICK p, w : StartAt(p, w) /\ p \in Nat
      BY <1>7 DEF Restore, ContainerStarts, StartPosition, Positions, PositionType
    <2>2. pos' = p /\ skipped' = skipped \cup {x \in 1 .. p : x > pos}
      BY <2>1 DEF StartAt
    <2>3. UNCHANGED <<produced, ckpt, committed>>
      BY <2>1 DEF StartAt
    <2>4. Ahead
      BY <2>2, <2>3, <1>1
    <2>5. p < r
      BY <2>1, <2>2, <2>4
    <2> QED  BY <2>2, <2>3, <2>4, <2>5
  <1>8. CASE UNCHANGED <<produced, pos, ckpt, committed, skipped>>
    BY <1>8, <1>1
  <1>9. CASE Tick \/ Trigger \/ TaskFails \/ ReadThrows \/ UNCHANGED vars
    BY <1>9, <1>8 DEF Tick, Trigger, TaskFails, ReadThrows, Abort, vars
  <1>10. ASSUME NEW o, NEW k, NEW s, Fire(o, k, s) \/ FireThrows(o, k, s)
         PROVE  UNCHANGED <<produced, pos, ckpt, committed, skipped>>
    BY <1>10 DEF Fire, FireThrows, Abort
  <1>11. ASSUME NEW w, WriteDone(w) \/ WriteFails(w)
         PROVE  UNCHANGED <<produced, pos, ckpt, committed, skipped>>
    BY <1>11 DEF WriteDone, WriteFails
  <1> QED
    BY <1>2, <1>3, <1>4, <1>5, <1>6, <1>7, <1>8, <1>9, <1>10, <1>11 DEF Next

\* No number of restarts gets the job past a line that matches the pattern and
\* does not parse, and no offset or snapshot beyond it is ever stored.
THEOREM StuckForever == Spec => []StuckAtUnparsable
  BY PositionsInit, PositionsNext, StuckInit, StuckNext, PTL DEF Spec

-----------------------------------------------------------------------------
(* The types of the variables about lines, windows and inserts.            *)

LEMMA SlotType == \A t \in Nat : Slot(t) \in Nat
  BY BoundAssumption DEF Slot

LEMMA RowType ==
    ASSUME TypeOK, NEW s \in Logs, NEW r \in 1 .. NumLines
    PROVE  RowOf(s, r) \in Write
  <1>1. RowKey[s][r] \in Keys /\ s \in Sinks /\ now \in Nat
    BY LineAssumption, BoundAssumption DEF TypeOK, Sinks
  <1> QED  BY <1>1 DEF RowOf, Write

\* The row of a window counts lines.
LEMMA StatType ==
    ASSUME TypeOK, NEW o \in Ops, NEW k \in Keys, NEW s
    PROVE  [sink |-> o, key |-> StatKey[o][k], at |-> now, offs |-> {e.off : e \in Due(o, k, s)}] \in Write
  <1>1. \A e \in win[o] : e.off \in 1 .. NumLines
    BY DEF TypeOK, Windows, Elem
  <1>2. {e.off : e \in Due(o, k, s)} \in SUBSET (1 .. NumLines)
    BY <1>1 DEF Due
  <1>3. o \in Sinks /\ now \in Nat /\ StatKey[o][k] \in Keys
    BY BoundAssumption, LineAssumption DEF TypeOK, Sinks
  <1> QED  BY <1>2, <1>3 DEF Write

\* The variables an aborted job leaves behind.
LEMMA AbortType ==
    ASSUME TypeOK, NEW ws \in SUBSET Write, NEW next \in {"failed", "down"},
           Abort(ws, next), UNCHANGED <<produced, now, committed, hasGroup>>,
           ckpt' = None \/ ckpt' = ckpt, faults' \in 0 .. MaxFaults
    PROVE  TypeOK'
  <1>1. PICK kept \in SUBSET (inflight \cup ws) :
             inflight' = kept /\ dropped' = dropped \cup ((inflight \cup ws) \ kept)
    BY DEF Abort
  <1>2. inflight' \subseteq Write /\ dropped' \subseteq Write /\ issued' \subseteq Write
    BY <1>1 DEF Abort, TypeOK
  <1>3. notify' \in BOOLEAN /\ tainted' \in BOOLEAN
    BY Zenon DEF Abort
  <1>4. status' \in {"running", "failed", "down"} /\ pend' = None /\ broken' \subseteq Sinks
    BY DEF Abort
  <1> QED  BY <1>2, <1>3, <1>4 DEF Abort, TypeOK

LEMMA StartType ==
    ASSUME TypeOK, NEW p \in 0 .. produced, NEW w \in Windows, StartAt(p, w)
    PROVE  TypeOK'
  <1>1. skipped' \subseteq 1 .. NumLines /\ forgotten' \subseteq Ops \X (1 .. NumLines)
    <2>1. p \in Nat /\ p <= NumLines
      BY BoundAssumption DEF TypeOK
    <2>2. 1 .. p \subseteq 1 .. NumLines
      BY <2>1, BoundAssumption
    <2> QED  BY <2>2 DEF StartAt, TypeOK
  <1>2. status' = "running" /\ pos' \in 0 .. produced' /\ win' \in Windows
    BY DEF StartAt
  <1>3. UNCHANGED <<produced, now, pend, ckpt, notify, committed, hasGroup, inflight, broken,
                    table, issued, dropped, tainted, faults>>
    BY DEF StartAt, group_vars, write_vars
  <1> QED  BY <1>1, <1>2, <1>3 DEF TypeOK

LEMMA InitType == Init => TypeOK
  <1> SUFFICES ASSUME Init PROVE TypeOK
    OBVIOUS
  <1>1. produced \in 0 .. NumLines /\ now \in 0 .. MaxNow /\ faults \in 0 .. MaxFaults
    BY BoundAssumption, SMT DEF Init
  <1>2. pos \in 0 .. produced /\ committed \in 0 .. produced
    BY SMT DEF Init
  <1>3. hasGroup \in BOOLEAN /\ notify \in BOOLEAN /\ tainted \in BOOLEAN
    BY Zenon DEF Init
  <1>4. win \in Windows
    BY DEF Init, NoWindows, Windows
  <1>5. /\ inflight \subseteq Write /\ table \subseteq Write /\ issued \subseteq Write
        /\ dropped \subseteq Write /\ broken \subseteq Sinks /\ skipped \subseteq 1 .. NumLines
        /\ forgotten \subseteq Ops \X (1 .. NumLines)
    BY Zenon DEF Init
  <1>6. status = "running" /\ pend = None /\ ckpt = None
    BY Zenon DEF Init
  <1> QED  BY <1>1, <1>2, <1>3, <1>4, <1>5, <1>6 DEF TypeOK

LEMMA NextType == Positions /\ TypeOK /\ [Next]_vars => TypeOK'
  <1> SUFFICES ASSUME Positions, TypeOK, [Next]_vars PROVE TypeOK'
    OBVIOUS
  <1> USE DEF flink_vars, group_vars, write_vars, ghost_vars
  <1>1. CASE Produce
    <2>1. produced' \in 0 .. NumLines /\ pos' \in 0 .. produced' /\ committed' \in 0 .. produced'
      BY <1>1, BoundAssumption DEF Produce, TypeOK
    <2> QED  BY <1>1, <2>1 DEF Produce, TypeOK
  <1>2. CASE Tick
    <2>1. now' \in 0 .. MaxNow
      BY <1>2, BoundAssumption DEF Tick, TypeOK
    <2> QED  BY <1>2, <2>1 DEF Tick, TypeOK
  <1>3. CASE ReadJunk
    <2>1. pos' \in 0 .. produced'
      BY <1>3, BoundAssumption DEF ReadJunk, TypeOK
    <2> QED  BY <1>3, <2>1 DEF ReadJunk, TypeOK
  <1>4. CASE ReadLine
    <2> DEFINE r == pos + 1
    <2>1. r \in 1 .. NumLines /\ r \in 0 .. produced
      BY <1>4, BoundAssumption DEF ReadLine, TypeOK
    <2>2. pos' = r /\ win' = Counted(r) /\ Issue({RowOf(s, r) : s \in Logs})
      BY <1>4 DEF ReadLine
    <2>3. UNCHANGED <<produced, now, status, pend, ckpt, notify, group_vars, ghost_vars, faults>>
      BY <1>4 DEF ReadLine
    <2> HIDE DEF r
    <2>4. {RowOf(s, r) : s \in Logs} \subseteq Write
      BY <2>1, RowType
    <2>5. Counted(r) \in Windows
      <3>1. Slot(now) \in Nat
        BY SlotType, BoundAssumption DEF TypeOK
      <3>2. \A o \in Ops : WinKey[o][r] \in Keys
        <4>1. WinKey \in [Ops -> [1 .. NumLines -> Keys]]
          BY LineAssumption
        <4> QED  BY <2>1, <4>1
      <3>3. \A o \in Ops : [key |-> WinKey[o][r], slot |-> Slot(now), off |-> r] \in Elem
        BY <2>1, <3>1, <3>2 DEF Elem
      <3> QED  BY <3>3 DEF Counted, Windows, TypeOK
    <2> QED  BY <2>1, <2>2, <2>3, <2>4, <2>5 DEF Issue, TypeOK
  <1>5. CASE ReadThrows
    <2>1. pos + 1 \in 1 .. NumLines
      BY <1>5, BoundAssumption DEF ReadThrows, TypeOK
    <2>2. RowOf("nginx_log", pos + 1) \in Write
      BY <2>1, RowType, LineAssumption
    <2>3. PICK ws \in SUBSET Write : Abort(ws, "failed")
      BY <1>5, <2>2 DEF ReadThrows
    <2> QED  BY <1>5, <2>3, AbortType DEF ReadThrows, TypeOK
  <1>6. CASE Trigger
    <2>1. SnapshotNow \in Snapshot
      BY BoundAssumption DEF SnapshotNow, Snapshot, TypeOK
    <2> QED  BY <1>6, <2>1 DEF Trigger, TypeOK
  <1>7. CASE Complete
    <2>1. notify' \in BOOLEAN
      BY <1>7, Zenon DEF Complete
    <2> QED  BY <1>7, <2>1 DEF Complete, TypeOK
  <1>8. CASE Commit
    <2>1. notify' \in BOOLEAN /\ hasGroup' \in BOOLEAN
      BY <1>8, Zenon DEF Commit
    <2>2. committed' \in 0 .. produced
      BY <1>8 DEF Commit, ToCommit, Positions, PositionType, OnlyRunningSnapshots
    <2> QED  BY <1>8, <2>1, <2>2 DEF Commit, TypeOK
  <1>9. CASE TaskFails
    BY <1>9, AbortType, BoundAssumption DEF TaskFails, TypeOK
  <1>10. CASE ContainerDies
    BY <1>10, AbortType, BoundAssumption DEF ContainerDies, TypeOK
  <1>11. NoWindows \in Windows
    BY DEF NoWindows, Windows
  <1>12. StartPosition \in 0 .. produced
    BY BoundAssumption DEF StartPosition, TypeOK
  <1>13. CASE Restore
    <2>1. CASE ckpt # None
      <3>1. ckpt.pos \in 0 .. produced /\ ckpt.win \in Windows
        BY <2>1 DEF TypeOK, Snapshot, Positions, PositionType
      <3> QED  BY <1>13, <2>1, <3>1, StartType DEF Restore, RestoredWindows
    <2>2. CASE ckpt = None
      BY <1>11, <1>12, <1>13, <2>2, StartType DEF Restore
    <2> QED  BY <2>1, <2>2
  <1>14. CASE ContainerStarts
    BY <1>11, <1>12, <1>14, StartType DEF ContainerStarts
  <1>15. ASSUME NEW o \in Ops, NEW k \in Keys, NEW s, Fire(o, k, s) PROVE TypeOK'
    <2> DEFINE row == [sink |-> o, key |-> StatKey[o][k], at |-> now, offs |-> {e.off : e \in Due(o, k, s)}]
    <2>1. row \in Write /\ Issue({row})
      BY <1>15, StatType DEF Fire
    <2>2. win' \in Windows
      BY <1>15 DEF Fire, Purged, Windows, TypeOK
    <2> HIDE DEF row
    <2> QED  BY <1>15, <2>1, <2>2 DEF Fire, Issue, TypeOK
  <1>16. ASSUME NEW o, NEW k, NEW s, FireThrows(o, k, s) PROVE TypeOK'
    BY <1>16, AbortType DEF FireThrows, TypeOK
  <1>17. ASSUME NEW w, WriteDone(w) PROVE TypeOK'
    BY <1>17 DEF WriteDone, Upsert, TypeOK
  <1>18. ASSUME NEW w, WriteFails(w) PROVE TypeOK'
    <2>1. w.sink \in Sinks
      BY <1>18 DEF WriteFails, TypeOK, Write
    <2>2. faults' \in 0 .. MaxFaults
      BY <1>18, BoundAssumption DEF WriteFails, TypeOK
    <2> QED  BY <1>18, <2>1, <2>2 DEF WriteFails, TypeOK
  <1>19. CASE UNCHANGED vars
    BY <1>19 DEF vars, TypeOK
  <1> QED
    BY <1>1, <1>2, <1>3, <1>4, <1>5, <1>6, <1>7, <1>8, <1>9, <1>10, <1>13, <1>14, <1>15,
       <1>16, <1>17, <1>18, <1>19 DEF Next

\* Every variable keeps its type, whatever lines arrive and whatever fails.
THEOREM TypeCorrect == Spec => []TypeOK
  BY PositionsInit, PositionsNext, InitType, NextType, PTL DEF Spec

-----------------------------------------------------------------------------
(* Counts.                                                                 *)

\* What was counted before a snapshot was taken and has not been written since
\* is in the snapshot's windows.
KeptBy(c) == \A o \in Ops : \A e \in win[o] : e.off <= c.pos => e \in c.win[o]
WindowsKept ==
    /\ \A o \in Ops : \A e \in win[o] : e.off <= pos
    /\ pend # None => KeptBy(pend)
    /\ ckpt # None => KeptBy(ckpt)

Typed == Positions /\ TypeOK

LEMMA TypedInit == Init => Typed
  BY PositionsInit, InitType DEF Typed

LEMMA TypedNext == Typed /\ [Next]_vars => Typed'
  BY PositionsNext, NextType DEF Typed

\* The entries of windows, with their line numbers.
LEMMA Entry ==
    ASSUME Typed
    PROVE  /\ pos \in Nat
           /\ \A o \in Ops : \A e \in win[o] : e \in Elem /\ e.off \in Nat
           /\ pend # None => pend \in Snapshot /\ pend.pos \in Nat
           /\ ckpt # None => ckpt \in Snapshot /\ ckpt.pos \in Nat
           /\ \A c \in Snapshot : \A o \in Ops : \A e \in c.win[o] : e.off \in Nat
  BY BoundAssumption DEF Typed, TypeOK, Windows, Elem, Snapshot

LEMMA KeptInit == Init => WindowsKept
  BY DEF Init, NoWindows, WindowsKept

\* What a start leaves in the windows.
LEMMA KeptStart ==
    ASSUME Typed, WindowsKept, NEW p, NEW w, StartAt(p, w), status # "running",
           \/ ckpt # None /\ p = ckpt.pos /\ w = ckpt.win
           \/ ckpt = None /\ w = NoWindows,
           ckpt # None => \A o \in Ops : \A e \in ckpt.win[o] : e.off <= ckpt.pos
    PROVE  WindowsKept'
  <1>1. pos' = p /\ win' = w /\ ckpt' = ckpt /\ pend' = None
    BY DEF StartAt, Typed, Positions, OnlyRunningSnapshots
  <1>2. CASE ckpt # None
    BY <1>1, <1>2 DEF WindowsKept, KeptBy
  <1>3. CASE ckpt = None
    BY <1>1, <1>3 DEF WindowsKept, KeptBy, NoWindows
  <1> QED  BY <1>2, <1>3

\* Snapshots hold what was read before their position and nothing else.
SnapshotsClosed ==
    /\ pend # None => \A o \in Ops : \A e \in pend.win[o] : e.off <= pend.pos
    /\ ckpt # None => \A o \in Ops : \A e \in ckpt.win[o] : e.off <= ckpt.pos

Kept == WindowsKept /\ SnapshotsClosed

LEMMA KeptNext == Typed /\ Kept /\ [Next]_vars => Kept'
  <1> SUFFICES ASSUME Typed, Kept, [Next]_vars PROVE Kept'
    OBVIOUS
  <1> USE DEF flink_vars, group_vars, write_vars, ghost_vars
  <1>1. CASE ReadJunk
    <2>1. pos' = pos + 1 /\ UNCHANGED <<win, pend, ckpt>>
      BY <1>1 DEF ReadJunk
    <2> QED  BY <2>1, Entry DEF Kept, WindowsKept, KeptBy, SnapshotsClosed
  <1>2. CASE ReadLine
    <2>1. pos' = pos + 1 /\ win' = Counted(pos + 1) /\ UNCHANGED <<pend, ckpt>>
      BY <1>2 DEF ReadLine
    <2>2. \A o \in Ops : \A e \in win'[o] : e \in win[o] \/ e.off = pos + 1
      BY <2>1 DEF Counted
    <2>3. /\ pend # None => pend.pos <= pos
          /\ ckpt # None => ckpt.pos <= pos
      BY DEF Typed, Positions, PositionsOrdered
    <2>4. \A o \in Ops : \A e \in win'[o] : e.off <= pos'
      BY <2>1, <2>2, Entry DEF Kept, WindowsKept
    <2>5. pend' # None => KeptBy(pend)'
      BY <2>1, <2>2, <2>3, Entry DEF Kept, WindowsKept, KeptBy
    <2>6. ckpt' # None => KeptBy(ckpt)'
      BY <2>1, <2>2, <2>3, Entry DEF Kept, WindowsKept, KeptBy
    <2>7. SnapshotsClosed'
      BY <2>1 DEF Kept, SnapshotsClosed
    <2> QED  BY <2>4, <2>5, <2>6, <2>7 DEF Kept, WindowsKept
  <1>3. ASSUME NEW o \in Ops, NEW k, NEW s, Fire(o, k, s) PROVE Kept'
    <2>1. win' = Purged(o, k, s) /\ UNCHANGED <<pos, pend, ckpt>>
      BY <1>3 DEF Fire
    <2>2. \A x \in Ops : win'[x] \subseteq win[x]
      BY <2>1 DEF Purged, Typed, TypeOK, Windows
    <2> QED  BY <2>1, <2>2 DEF Kept, WindowsKept, KeptBy, SnapshotsClosed
  <1>4. CASE Trigger
    <2>1. pend' = SnapshotNow /\ UNCHANGED <<pos, win, ckpt>>
      BY <1>4 DEF Trigger
    <2>2. SnapshotNow.pos = pos /\ SnapshotNow.win = win
      BY DEF SnapshotNow
    <2> QED  BY <2>1, <2>2 DEF Kept, WindowsKept, KeptBy, SnapshotsClosed
  <1>5. CASE Complete
    <2>1. pend # None /\ ckpt' = pend /\ pend' = None /\ UNCHANGED <<pos, win>>
      BY <1>5 DEF Complete
    <2> QED  BY <2>1 DEF Kept, WindowsKept, KeptBy, SnapshotsClosed
  <1>6. CASE Restore \/ ContainerStarts
    <2>1. PICK p, w : /\ StartAt(p, w) /\ status # "running"
                      /\ \/ ckpt # None /\ p = ckpt.pos /\ w = ckpt.win
                         \/ ckpt = None /\ w = NoWindows
      BY <1>6 DEF Restore, ContainerStarts, RestoredWindows, Typed, Positions, OnlyRunningSnapshots
    <2>2. WindowsKept'
      BY <2>1, KeptStart DEF Kept, SnapshotsClosed
    <2>3. SnapshotsClosed'
      BY <2>1 DEF StartAt, Kept, SnapshotsClosed
    <2> QED  BY <2>2, <2>3 DEF Kept
  <1>7. CASE /\ UNCHANGED <<pos, win>>
             /\ pend' \in {pend, None} /\ ckpt' \in {ckpt, None}
    BY <1>7 DEF Kept, WindowsKept, KeptBy, SnapshotsClosed
  <1>8. CASE \/ Produce \/ Tick \/ Commit \/ TaskFails \/ ReadThrows
             \/ ContainerDies \/ UNCHANGED vars
    BY <1>8, <1>7 DEF Produce, Tick, Commit, TaskFails, ReadThrows, ContainerDies, Abort, vars
  <1>9. ASSUME NEW o, NEW k, NEW s, FireThrows(o, k, s) PROVE Kept'
    BY <1>9, <1>7 DEF FireThrows, Abort
  <1>10. ASSUME NEW w, WriteDone(w) \/ WriteFails(w) PROVE Kept'
    BY <1>10, <1>7 DEF WriteDone, WriteFails
  <1> QED
    BY <1>1, <1>2, <1>3, <1>4, <1>5, <1>6, <1>8, <1>9, <1>10 DEF Next

\* As long as Flink restores the job from a snapshot no count is forgotten: a
\* window of the dead job that is not in the snapshot holds only lines that are
\* read again.
THEOREM ForgetsOnly == Spec => ForgetsOnlyWithoutSnapshot
  <1>1. Typed /\ Kept /\ [Next]_vars => [forgotten' # forgotten => ckpt = None]_vars
    <2> SUFFICES ASSUME Typed, Kept, [Next]_vars, ckpt # None PROVE forgotten' = forgotten
      OBVIOUS
    <2>1. CASE Restore
      <3>1. forgotten' = forgotten \cup
              {c \in Ops \X (1 .. ckpt.pos) :
                 c[2] \in {e.off : e \in win[c[1]] \ ckpt.win[c[1]]}}
        BY <2>1 DEF Restore, StartAt, RestoredWindows
      <3>2. ASSUME NEW o \in Ops, NEW r \in 1 .. ckpt.pos, NEW e \in win[o] \ ckpt.win[o]
            PROVE  e.off # r
        BY <3>2, Entry DEF Kept, WindowsKept, KeptBy
      <3> QED  BY <3>1, <3>2
    <2>2. ~Restore => UNCHANGED forgotten
      BY DEF Next, vars, flink_vars, group_vars, write_vars, ghost_vars, Produce, Tick,
         ReadJunk, ReadLine, ReadThrows, Trigger, Complete, Commit, TaskFails, ContainerDies,
         ContainerStarts, Fire, FireThrows, WriteDone, WriteFails, Abort, Typed, Positions,
         OnlyRunningSnapshots
    <2> QED  BY <2>1, <2>2
  <1>2. Init => Kept
    BY KeptInit DEF Init, Kept, SnapshotsClosed
  <1> QED
    BY <1>1, <1>2, TypedInit, TypedNext, KeptNext, PTL DEF Spec, ForgetsOnlyWithoutSnapshot

-----------------------------------------------------------------------------
(* Nothing missed.  The property speaks of the running job; the invariant   *)
(* of the windows of a dead job, too, since a start without a snapshot says *)
(* of those windows that they are forgotten.                                *)

Accounted ==
    /\ AllAccounted(pos, win)
    /\ pend # None => AllAccounted(pend.pos, pend.win)
    /\ ckpt # None => AllAccounted(ckpt.pos, ckpt.win)

LEMMA AccountedInit == Init => Accounted
  BY DEF Init, Accounted, AllAccounted

\* What is written stays written.
LEMMA EmittedGrows ==
    ASSUME issued \subseteq issued' PROVE \A o : Emitted(o) \subseteq Emitted(o)'
  BY DEF Emitted

Grow == issued \subseteq issued' /\ skipped \subseteq skipped' /\ forgotten \subseteq forgotten'

\* A step that leaves the positions and windows alone keeps them accounted for,
\* as it does when snapshots are given up.
LEMMA AccountedStays ==
    ASSUME Accounted, Grow, UNCHANGED <<pos, win>>,
           pend' \in {pend, None}, ckpt' \in {ckpt, None}
    PROVE  Accounted'
  <1>1. \A o : Emitted(o) \subseteq Emitted(o)'
    BY EmittedGrows DEF Grow
  <1> QED  BY <1>1 DEF Grow, Accounted, AllAccounted, Holds

LEMMA AccountedNext == Typed /\ Accounted /\ [Next]_vars => Accounted'
  <1> SUFFICES ASSUME Typed, Accounted, [Next]_vars PROVE Accounted'
    OBVIOUS
  <1> USE DEF flink_vars, group_vars, write_vars, ghost_vars
  <1>1. CASE ReadJunk
    <2>1. /\ pos' = pos + 1 /\ ~IsLine(pos + 1)
          /\ UNCHANGED <<win, pend, ckpt, issued, skipped, forgotten>>
      BY <1>1 DEF ReadJunk, Passes, IsLine
    <2>2. \A o : Emitted(o) \subseteq Emitted(o)'
      BY <2>1, EmittedGrows
    <2>3. \A r \in 1 .. pos' : r \in 1 .. pos \/ r = pos + 1
      BY <2>1, Entry
    <2> QED  BY <2>1, <2>2, <2>3 DEF Accounted, AllAccounted, Holds
  <1>2. CASE ReadLine
    <2>1. /\ pos' = pos + 1 /\ win' = Counted(pos + 1) /\ issued \subseteq issued'
          /\ UNCHANGED <<pend, ckpt, skipped, forgotten>>
      BY <1>2 DEF ReadLine, Issue
    <2>2. \A o : Emitted(o) \subseteq Emitted(o)'
      BY <2>1, EmittedGrows
    <2>3. \A r \in 1 .. pos' : r \in 1 .. pos \/ r = pos + 1
      BY <2>1, Entry
    <2>4. ASSUME NEW o \in Ops PROVE Holds(win, o) \cup {pos + 1} \subseteq Holds(win', o)
      <3> DEFINE e == [key |-> WinKey[o][pos + 1], slot |-> Slot(now), off |-> pos + 1]
      <3>1. win'[o] = win[o] \cup {e} /\ e.off = pos + 1
        BY <2>1 DEF Counted
      <3> HIDE DEF e
      <3> QED  BY <3>1 DEF Holds
    <2>5. AllAccounted(pos, win)'
      BY <2>1, <2>2, <2>3, <2>4 DEF Accounted, AllAccounted, IsLine
    <2> QED  BY <2>1, <2>2, <2>5 DEF Accounted, AllAccounted, Holds
  <1>3. ASSUME NEW o \in Ops, NEW k \in Keys, NEW s, Fire(o, k, s) PROVE Accounted'
    <2> DEFINE row == [sink |-> o, key |-> StatKey[o][k], at |-> now, offs |-> {e.off : e \in Due(o, k, s)}]
    <2>1. /\ win' = Purged(o, k, s) /\ issued' = issued \cup {row}
          /\ UNCHANGED <<pos, pend, ckpt, skipped, forgotten>>
      BY <1>3 DEF Fire, Issue
    <2>2. \A x : Emitted(x) \subseteq Emitted(x)'
      BY <2>1, EmittedGrows
    <2>3. {e.off : e \in Due(o, k, s)} \subseteq Emitted(o)'
      BY <2>1 DEF Emitted
    <2>4. Holds(win, o) \subseteq Holds(win', o) \cup {e.off : e \in Due(o, k, s)}
      BY <2>1 DEF Purged, Holds, Typed, TypeOK, Windows
    <2>5. \A x \in Ops : x # o => win'[x] = win[x]
      BY <2>1 DEF Purged
    <2>6. AllAccounted(pos, win)'
      <3> SUFFICES ASSUME NEW r \in 1 .. pos, NEW x \in Ops, IsLine(r)
                   PROVE  \/ r \in skipped \/ <<x, r>> \in forgotten
                          \/ r \in Holds(win', x) \/ r \in Emitted(x)'
        BY <2>1 DEF AllAccounted, IsLine
      <3>1. r \in skipped \/ <<x, r>> \in forgotten \/ r \in Holds(win, x) \/ r \in Emitted(x)
        BY DEF Accounted, AllAccounted
      <3>2. CASE x = o
        BY <2>2, <2>3, <2>4, <3>1, <3>2
      <3>3. CASE x # o
        BY <2>2, <2>5, <3>1, <3>3 DEF Holds
      <3> QED  BY <3>2, <3>3
    <2> QED  BY <2>1, <2>2, <2>6 DEF Accounted, AllAccounted, Holds
  <1>4. CASE Trigger
    <2>1. /\ pend' = SnapshotNow /\ SnapshotNow.pos = pos /\ SnapshotNow.win = win
          /\ UNCHANGED <<pos, win, ckpt, issued, skipped, forgotten>>
      BY <1>4 DEF Trigger, SnapshotNow
    <2>2. \A o : Emitted(o) \subseteq Emitted(o)'
      BY <2>1, EmittedGrows
    <2> QED  BY <2>1, <2>2 DEF Accounted, AllAccounted, Holds
  <1>5. CASE Complete
    <2>1. /\ pend # None /\ ckpt' = pend /\ pend' = None
          /\ UNCHANGED <<pos, win, issued, skipped, forgotten>>
      BY <1>5 DEF Complete
    <2>2. \A o : Emitted(o) \subseteq Emitted(o)'
      BY <2>1, EmittedGrows
    <2> QED  BY <2>1, <2>2 DEF Accounted, AllAccounted, Holds
  <1>6. CASE Restore \/ ContainerStarts
    <2>1. PICK p, w : /\ StartAt(p, w) /\ status # "running" /\ p \in Nat
                      /\ \/ ckpt # None /\ p = ckpt.pos /\ w = ckpt.win
                         \/ ckpt = None /\ w = NoWindows
      BY <1>6, Entry DEF Restore, ContainerStarts, RestoredWindows, StartPosition, Typed,
         Positions, PositionType, OnlyRunningSnapshots
    <2>2. /\ pos' = p /\ win' = w
          /\ skipped' = skipped \cup {r \in 1 .. p : r > pos}
          /\ forgotten' = forgotten \cup
               {c \in Ops \X (1 .. p) : c[2] \in {e.off : e \in win[c[1]] \ w[c[1]]}}
          /\ UNCHANGED <<pend, ckpt, issued>> /\ pend = None
      BY <2>1 DEF StartAt, Typed, Positions, OnlyRunningSnapshots
    <2>3. \A o : Emitted(o) \subseteq Emitted(o)'
      BY <2>2, EmittedGrows
    <2>4. AllAccounted(pos, win)'
      <3>1. CASE ckpt # None
        BY <2>1, <2>2, <2>3, <3>1 DEF Accounted, AllAccounted, Holds
      <3>2. CASE ckpt = None
        <4> SUFFICES ASSUME NEW r \in 1 .. p, NEW o \in Ops, IsLine(r)
                     PROVE  r \in skipped' \/ <<o, r>> \in forgotten' \/ r \in Emitted(o)'
          BY <2>2 DEF AllAccounted, IsLine
        <4>1. CASE r > pos
          BY <2>2, <4>1
        <4>2. CASE r \in 1 .. pos
          <5>1. r \in skipped \/ <<o, r>> \in forgotten \/ r \in Holds(win, o) \/ r \in Emitted(o)
            BY <4>2 DEF Accounted, AllAccounted
          <5>2. r \in Holds(win, o) => <<o, r>> \in forgotten'
            BY <2>1, <2>2, <3>2 DEF Holds, NoWindows
          <5> QED  BY <2>2, <2>3, <5>1, <5>2
        <4> QED  BY <2>1, <4>1, <4>2, Entry
      <3> QED  BY <3>1, <3>2
    <2> QED  BY <2>2, <2>3, <2>4 DEF Accounted, AllAccounted, Holds
  <1>7. CASE \/ Produce \/ Tick \/ Commit \/ TaskFails \/ ReadThrows
             \/ ContainerDies \/ UNCHANGED vars
    BY <1>7, AccountedStays
       DEF Grow, Produce, Tick, Commit, TaskFails, ReadThrows, ContainerDies, Abort, vars
  <1>8. ASSUME NEW o, NEW k, NEW s, FireThrows(o, k, s) PROVE Accounted'
    BY <1>8, AccountedStays DEF Grow, FireThrows, Abort
  <1>9. ASSUME NEW w, WriteDone(w) \/ WriteFails(w) PROVE Accounted'
    BY <1>9, AccountedStays DEF Grow, WriteDone, WriteFails
  <1> QED
    BY <1>1, <1>2, <1>3, <1>4, <1>5, <1>6, <1>7, <1>8, <1>9 DEF Next

\* No statistic silently misses a line: whatever fails and restarts, every line
\* the job or a snapshot is past is in a window or in a row handed to the sink,
\* was jumped over by a start without an offset, or died with a container.
THEOREM NothingMissed == Spec => []StatsAccounted
  <1>1. Accounted => StatsAccounted
    BY DEF Accounted, StatsAccounted
  <1> QED  BY <1>1, TypedInit, TypedNext, AccountedInit, AccountedNext, PTL DEF Spec

-----------------------------------------------------------------------------
(* Keys that do not split.  A window holds lines of its own key only, so   *)
(* that one with such a key never fires and a row never counts its lines;  *)
(* accounted for as they are, they are still in a window.                  *)

KeyedIn(w) == \A o \in Ops : \A e \in w[o] : e.key = WinKey[o][e.off]

NoBrokenRows ==
    \A o \in Ops : \A w \in issued : w.sink = o => \A r \in w.offs : WinKey[o][r] \notin Breaks[o]

Keyed ==
    /\ KeyedIn(win) /\ NoBrokenRows
    /\ pend # None => KeyedIn(pend.win)
    /\ ckpt # None => KeyedIn(ckpt.win)

LEMMA KeyedInit == Init => Keyed
  BY DEF Init, NoWindows, Keyed, KeyedIn, NoBrokenRows

LEMMA KeyedNext == Typed /\ Keyed /\ [Next]_vars => Keyed'
  <1> SUFFICES ASSUME Typed, Keyed, [Next]_vars PROVE Keyed'
    OBVIOUS
  <1> USE DEF flink_vars, group_vars, write_vars, ghost_vars
  <1>1. CASE ReadLine
    <2>1. /\ win' = Counted(pos + 1) /\ issued' = issued \cup {RowOf(s, pos + 1) : s \in Logs}
          /\ UNCHANGED <<pend, ckpt>>
      BY <1>1 DEF ReadLine, Issue
    <2>2. ASSUME NEW o \in Ops PROVE \A e \in win'[o] : e.key = WinKey[o][e.off]
      <3> DEFINE new == [key |-> WinKey[o][pos + 1], slot |-> Slot(now), off |-> pos + 1]
      <3>1. win'[o] = win[o] \cup {new} /\ new.off = pos + 1 /\ new.key = WinKey[o][pos + 1]
        BY <2>1 DEF Counted
      <3> HIDE DEF new
      <3> QED  BY <3>1 DEF Keyed, KeyedIn
    <2>3. \A s \in Logs : RowOf(s, pos + 1).sink \notin Ops
      BY LineAssumption DEF RowOf
    <2>4. NoBrokenRows'
      BY <2>1, <2>3 DEF Keyed, NoBrokenRows
    <2> QED  BY <2>1, <2>2, <2>4 DEF Keyed, KeyedIn
  <1>2. ASSUME NEW o \in Ops, NEW k, NEW s, Fire(o, k, s) PROVE Keyed'
    <2> DEFINE offs == {e.off : e \in Due(o, k, s)}
               row == [sink |-> o, key |-> StatKey[o][k], at |-> now, offs |-> offs]
    <2>1. win' = Purged(o, k, s) /\ issued' = issued \cup {row} /\ UNCHANGED <<pend, ckpt>>
      BY <1>2 DEF Fire, Issue
    <2>2. k \notin Breaks[o] /\ row.sink = o /\ row.offs = offs
      BY <1>2 DEF Fire
    <2>3. \A r \in offs : WinKey[o][r] = k
      BY DEF Due, Keyed, KeyedIn
    <2>4. \A x \in Ops : win'[x] \subseteq win[x]
      BY <2>1 DEF Purged, Typed, TypeOK, Windows
    <2> HIDE DEF row, offs
    <2>5. NoBrokenRows'
      BY <2>1, <2>2, <2>3 DEF Keyed, NoBrokenRows
    <2> QED  BY <2>1, <2>4, <2>5 DEF Keyed, KeyedIn
  <1>3. CASE Trigger
    <2>1. pend' = SnapshotNow /\ SnapshotNow.win = win /\ UNCHANGED <<win, ckpt, issued>>
      BY <1>3 DEF Trigger, SnapshotNow
    <2> QED  BY <2>1 DEF Keyed, KeyedIn, NoBrokenRows
  <1>4. CASE Complete
    <2>1. pend # None /\ ckpt' = pend /\ pend' = None /\ UNCHANGED <<win, issued>>
      BY <1>4 DEF Complete
    <2> QED  BY <2>1 DEF Keyed, KeyedIn, NoBrokenRows
  <1>5. CASE Restore \/ ContainerStarts
    <2>1. PICK p, w : /\ StartAt(p, w)
                      /\ \/ ckpt # None /\ w = ckpt.win
                         \/ w = NoWindows
      BY <1>5 DEF Restore, ContainerStarts, RestoredWindows
    <2>2. win' = w /\ UNCHANGED <<pend, ckpt, issued>>
      BY <2>1 DEF StartAt
    <2> QED  BY <2>1, <2>2 DEF Keyed, KeyedIn, NoBrokenRows, NoWindows
  <1>6. ASSUME UNCHANGED win, pend' \in {pend, None}, ckpt' \in {ckpt, None},
               \A w \in issued' : w \in issued \/ w.sink \notin Ops
        PROVE  Keyed'
    BY <1>6 DEF Keyed, KeyedIn, NoBrokenRows
  <1>7. CASE ReadThrows
    <2>1. PICK ws : Abort(ws, "failed") /\ ws \subseteq {RowOf("nginx_log", pos + 1)}
      BY <1>7 DEF ReadThrows
    <2>2. RowOf("nginx_log", pos + 1).sink \notin Ops
      BY LineAssumption DEF RowOf
    <2> QED  BY <1>6, <1>7, <2>1, <2>2 DEF ReadThrows, Abort
  <1>8. CASE \/ Produce \/ Tick \/ ReadJunk \/ Commit \/ TaskFails
             \/ ContainerDies \/ UNCHANGED vars
    BY <1>6, <1>8 DEF Produce, Tick, ReadJunk, Commit, TaskFails, ContainerDies, Abort, vars
  <1>9. ASSUME NEW o, NEW k, NEW s, FireThrows(o, k, s) PROVE Keyed'
    BY <1>6, <1>9 DEF FireThrows, Abort
  <1>10. ASSUME NEW w, WriteDone(w) \/ WriteFails(w) PROVE Keyed'
    BY <1>6, <1>10 DEF WriteDone, WriteFails
  <1> QED
    BY <1>1, <1>2, <1>3, <1>4, <1>5, <1>7, <1>8, <1>9, <1>10 DEF Next

\* Whatever fails and restarts, the window of a line whose key does not split is there again
\* after every restart from a snapshot: the job never gets past firing it by being restarted.
THEOREM BrokenForever == Spec => []BrokenWindowsReturn
  <1>1. Accounted /\ Keyed => BrokenWindowsReturn
    <2> SUFFICES ASSUME Keyed, NEW p, NEW w, AllAccounted(p, w) PROVE NotWritten(p, w)
      BY DEF Accounted, BrokenWindowsReturn
    <2>1. ASSUME NEW o \in Ops, NEW r, r \in Emitted(o) PROVE WinKey[o][r] \notin Breaks[o]
      BY <2>1 DEF Keyed, NoBrokenRows, Emitted
    <2> QED  BY <2>1 DEF AllAccounted, NotWritten
  <1> QED
    BY <1>1, TypedInit, TypedNext, AccountedInit, AccountedNext, KeyedInit, KeyedNext, PTL DEF Spec

-----------------------------------------------------------------------------
(* Inserts.                                                                *)

LEMMA RowFateInit == Init => RowFate
  BY DEF Init, RowFate

LEMMA RowFateNext == RowFate /\ [Next]_vars => RowFate'
  <1> SUFFICES ASSUME RowFate, [Next]_vars PROVE RowFate'
    OBVIOUS
  <1> USE DEF flink_vars, group_vars, write_vars, ghost_vars
  <1>1. ASSUME NEW ws, UNCHANGED <<table, dropped>>, inflight' = inflight \cup ws,
               issued' = issued \cup ws
        PROVE  RowFate'
    BY <1>1 DEF RowFate, SameRow
  <1>2. ASSUME NEW ws, NEW next, Abort(ws, next) PROVE RowFate'
    BY <1>2 DEF Abort, RowFate, SameRow
  <1>3. ASSUME NEW w, WriteDone(w) PROVE RowFate'
    <2>1. /\ inflight' = inflight \ {w} /\ table' = Upsert(w)
          /\ UNCHANGED <<issued, dropped>>
      BY <1>3 DEF WriteDone
    <2>2. ASSUME NEW u, NEW v \in table, SameRow(v, u)
          PROVE  \E x \in table' : SameRow(x, u)
      BY <2>1, <2>2 DEF Upsert, SameRow
    <2>3. \E x \in table' : SameRow(x, w)
      BY <2>1 DEF Upsert, SameRow
    <2> QED  BY <2>1, <2>2, <2>3 DEF RowFate, SameRow
  <1>4. ASSUME NEW w, WriteFails(w) PROVE RowFate'
    BY <1>4 DEF WriteFails, RowFate, SameRow
  <1>5. CASE ReadLine
    BY <1>5, <1>1 DEF ReadLine, Issue
  <1>6. ASSUME NEW o, NEW k, NEW s, Fire(o, k, s) PROVE RowFate'
    BY <1>6, <1>1 DEF Fire, Issue
  <1>7. CASE ReadThrows \/ TaskFails \/ ContainerDies
    BY <1>7, <1>2 DEF ReadThrows, TaskFails, ContainerDies
  <1>8. ASSUME NEW o, NEW k, NEW s, FireThrows(o, k, s) PROVE RowFate'
    BY <1>8, <1>2 DEF FireThrows
  <1>9. CASE UNCHANGED <<inflight, table, issued, dropped>>
    BY <1>9 DEF RowFate, SameRow
  <1>10. CASE \/ Produce \/ Tick \/ ReadJunk \/ Trigger \/ Complete \/ Commit \/ Restore
              \/ ContainerStarts \/ UNCHANGED vars
    BY <1>10, <1>9 DEF Produce, Tick, ReadJunk, Trigger, Complete, Commit, Restore,
       ContainerStarts, StartAt, vars
  <1> QED
    BY <1>3, <1>4, <1>5, <1>6, <1>7, <1>8, <1>10 DEF Next

\* No insert vanishes unnoticed, however many rows of one instant overwrite
\* each other.
THEOREM RowsHaveFates == Spec => []RowFate
  BY RowFateInit, RowFateNext, PTL DEF Spec

-----------------------------------------------------------------------------
(* Once.  A line is in one window of an operator at a time because windows  *)
(* and snapshots hold lines the reader is past, and the reader counts the   *)
(* next one; a fired window leaves for good, so that until a restart brings *)
(* an older snapshot back no row repeats a line.                            *)

\* No two entries of an operator are of one line.
OnceIn(w) == \A o \in Ops : \A e, f \in w[o] : e.off = f.off => e = f

Distinct ==
    /\ OnceIn(win)
    /\ pend # None => OnceIn(pend.win)
    /\ ckpt # None => OnceIn(ckpt.win)

\* Rows are of lines the reader is past; rows of one table share no line, and
\* no line of an open window is in a row of its operator.
RowsPast     == \A w \in issued : \A r \in w.offs : r <= pos
RowsDisjoint == \A v, w \in issued : v # w /\ v.sink = w.sink => v.offs \cap w.offs = {}
OpenOrOut    == \A o \in Ops : \A w \in issued :
                  w.sink = o => \A e \in win[o] : e.off \notin w.offs

FirstPass ==
    \/ tainted
    \/ status = "running" /\ RowsPast /\ RowsDisjoint /\ OpenOrOut

LEMMA OnceInit == Init => Distinct /\ FirstPass
  <1> SUFFICES ASSUME Init PROVE Distinct /\ FirstPass
    OBVIOUS
  <1>1. Distinct
    BY DEF Init, Distinct, OnceIn, NoWindows
  <1>2. status = "running" /\ RowsPast /\ RowsDisjoint /\ OpenOrOut
    BY DEF Init, RowsPast, RowsDisjoint, OpenOrOut
  <1> QED  BY <1>1, <1>2, Zenon DEF FirstPass

LEMMA DistinctNext == Typed /\ Kept /\ Distinct /\ [Next]_vars => Distinct'
  <1> SUFFICES ASSUME Typed, Kept, Distinct, [Next]_vars PROVE Distinct'
    OBVIOUS
  <1> USE DEF flink_vars, group_vars, write_vars, ghost_vars
  <1>1. CASE ReadLine
    <2>1. win' = Counted(pos + 1) /\ UNCHANGED <<pend, ckpt>>
      BY <1>1 DEF ReadLine
    <2>2. ASSUME NEW o \in Ops PROVE \A e, f \in win'[o] : e.off = f.off => e = f
      <3> DEFINE new == [key |-> WinKey[o][pos + 1], slot |-> Slot(now), off |-> pos + 1]
      <3>1. win'[o] = win[o] \cup {new} /\ new.off = pos + 1
        BY <2>1 DEF Counted
      <3>2. \A e \in win[o] : e.off # pos + 1
        BY Entry DEF Kept, WindowsKept
      <3> HIDE DEF new
      <3> QED  BY <3>1, <3>2 DEF Distinct, OnceIn
    <2> QED  BY <2>1, <2>2 DEF Distinct, OnceIn
  <1>2. ASSUME NEW o \in Ops, NEW k, NEW s, Fire(o, k, s) PROVE Distinct'
    <2>1. win' = Purged(o, k, s) /\ UNCHANGED <<pend, ckpt>>
      BY <1>2 DEF Fire
    <2>2. \A x \in Ops : win'[x] \subseteq win[x]
      BY <2>1 DEF Purged, Typed, TypeOK, Windows
    <2> QED  BY <2>1, <2>2 DEF Distinct, OnceIn
  <1>3. CASE Trigger
    <2>1. pend' = SnapshotNow /\ SnapshotNow.win = win /\ UNCHANGED <<win, ckpt>>
      BY <1>3 DEF Trigger, SnapshotNow
    <2> QED  BY <2>1 DEF Distinct, OnceIn
  <1>4. CASE Complete
    <2>1. pend # None /\ ckpt' = pend /\ pend' = None /\ UNCHANGED win
      BY <1>4 DEF Complete
    <2> QED  BY <2>1 DEF Distinct, OnceIn
  <1>5. CASE Restore \/ ContainerStarts
    <2>1. PICK p, w : /\ StartAt(p, w)
                      /\ \/ ckpt # None /\ w = ckpt.win
                         \/ w = NoWindows
      BY <1>5 DEF Restore, ContainerStarts, RestoredWindows
    <2>2. win' = w /\ UNCHANGED <<pend, ckpt>>
      BY <2>1 DEF StartAt
    <2> QED  BY <2>1, <2>2 DEF Distinct, OnceIn, NoWindows
  <1>6. CASE UNCHANGED win /\ pend' \in {pend, None} /\ ckpt' \in {ckpt, None}
    BY <1>6 DEF Distinct, OnceIn
  <1>7. CASE \/ Produce \/ Tick \/ ReadJunk \/ Commit \/ TaskFails \/ ReadThrows
             \/ ContainerDies \/ UNCHANGED vars
    BY <1>7, <1>6
       DEF Produce, Tick, ReadJunk, Commit, TaskFails, ReadThrows, ContainerDies, Abort, vars
  <1>8. ASSUME NEW o, NEW k, NEW s, FireThrows(o, k, s) PROVE Distinct'
    BY <1>8, <1>6 DEF FireThrows, Abort
  <1>9. ASSUME NEW w, WriteDone(w) \/ WriteFails(w) PROVE Distinct'
    BY <1>9, <1>6 DEF WriteDone, WriteFails
  <1> QED
    BY <1>1, <1>2, <1>3, <1>4, <1>5, <1>7, <1>8, <1>9 DEF Next

\* The line that is read next is in no row and no window yet.
LEMMA FirstPassReads ==
    ASSUME Typed, Kept, ReadLine, RowsPast, RowsDisjoint, OpenOrOut
    PROVE  (RowsPast /\ RowsDisjoint /\ OpenOrOut)'
  <1> DEFINE new == pos + 1
             rows == {RowOf(s, new) : s \in Logs}
  <1>1. pos' = new /\ win' = Counted(new) /\ issued' = issued \cup rows
    BY DEF ReadLine, Issue
  <1>2. /\ \A w \in rows : w.offs = {new} /\ w.sink \in Logs
        /\ \A v, w \in rows : v.sink = w.sink => v = w
    BY DEF RowOf
  <1>3. new \in Nat /\ pos < new /\ pos \in Nat
    BY Entry
  <1>4. \A w \in issued : w \in Write /\ \A r \in w.offs : r \in Nat /\ r <= pos
    BY DEF RowsPast, Typed, TypeOK, Write
  <1>5. \A o \in Ops : \A e \in win'[o] : e \in win[o] \/ e.off = new
    BY <1>1 DEF Counted
  <1>6. \A o \in Ops : \A e \in win[o] : e.off \in Nat /\ e.off <= pos
    BY Entry DEF Kept, WindowsKept
  <1>7. \A w \in issued : new \notin w.offs
    BY <1>3, <1>4
  <1>8. \A o \in Ops : \A e \in win[o] : e.off # new
    BY <1>3, <1>6
  <1> HIDE DEF new, rows
  <1>9. RowsPast'
    BY <1>1, <1>2, <1>3, <1>4 DEF RowsPast
  <1>10. RowsDisjoint'
    BY <1>1, <1>2, <1>7 DEF RowsDisjoint
  <1>11. OpenOrOut'
    <2>1. \A w \in rows : w.sink \notin Ops
      BY <1>2, LineAssumption
    <2> QED  BY <1>1, <1>5, <1>7, <2>1 DEF OpenOrOut
  <1> QED  BY <1>9, <1>10, <1>11

\* What a window writes it holds no more.
LEMMA FirstPassFires ==
    ASSUME Typed, Kept, Distinct, NEW o \in Ops, NEW k, NEW s, Fire(o, k, s),
           RowsPast, RowsDisjoint, OpenOrOut
    PROVE  (RowsPast /\ RowsDisjoint /\ OpenOrOut)'
  <1> DEFINE offs == {e.off : e \in Due(o, k, s)}
             row == [sink |-> o, key |-> StatKey[o][k], at |-> now, offs |-> offs]
  <1>1. win' = Purged(o, k, s) /\ issued' = issued \cup {row} /\ pos' = pos
    BY DEF Fire, Issue
  <1>2. row.offs = offs /\ row.sink = o
    OBVIOUS
  <1>3. Due(o, k, s) \subseteq win[o]
    BY DEF Due
  <1>4. \A r \in offs : \E e \in win[o] : r = e.off
    BY <1>3
  <1>5. \A r \in offs : r <= pos
    BY <1>4 DEF Kept, WindowsKept
  <1>6. \A w \in issued : w.sink = o => w.offs \cap offs = {}
    BY <1>4 DEF OpenOrOut
  <1>7. win'[o] = win[o] \ Due(o, k, s) /\ \A x \in Ops : x # o => win'[x] = win[x]
    BY <1>1 DEF Purged, Typed, TypeOK, Windows
  <1>8. \A e \in win'[o] : e.off \notin offs
    BY <1>3, <1>7 DEF Distinct, OnceIn
  <1> HIDE DEF offs, row
  <1>9. RowsPast'
    BY <1>1, <1>2, <1>5 DEF RowsPast
  <1>10. RowsDisjoint'
    BY <1>1, <1>2, <1>6 DEF RowsDisjoint
  <1>11. OpenOrOut'
    BY <1>1, <1>2, <1>7, <1>8 DEF OpenOrOut
  <1> QED  BY <1>9, <1>10, <1>11

LEMMA FirstPassNext ==
    Typed /\ Kept /\ Distinct /\ FirstPass /\ [Next]_vars => FirstPass'
  <1> SUFFICES ASSUME Typed, Kept, Distinct, FirstPass, [Next]_vars PROVE FirstPass'
    OBVIOUS
  <1> USE DEF flink_vars, group_vars, write_vars, ghost_vars
  <1>1. ASSUME NEW ws, NEW next, Abort(ws, next) PROVE FirstPass'
    BY <1>1, Zenon DEF Abort, FirstPass
  <1>2. CASE tainted /\ UNCHANGED tainted
    BY <1>2, Zenon DEF FirstPass
  <1>3. CASE status = "running" /\ RowsPast /\ RowsDisjoint /\ OpenOrOut
    <2>1. ASSUME NEW x, x \in Nat, pos' = pos + x, UNCHANGED <<status, win, issued>>
          PROVE  FirstPass'
      <3>1. RowsPast'
        <4>1. \A w \in issued : \A r \in w.offs : r \in Nat
          BY DEF Typed, TypeOK, Write
        <4> QED  BY <2>1, <4>1, <1>3, Entry DEF RowsPast
      <3>2. (status = "running" /\ RowsDisjoint /\ OpenOrOut)'
        BY <2>1, <1>3 DEF RowsDisjoint, OpenOrOut
      <3> QED  BY <3>1, <3>2, Zenon DEF FirstPass
    <2>2. CASE UNCHANGED <<status, pos, win, issued>>
      <3>1. pos' = pos + 0
        BY <2>2, Entry
      <3> QED  BY <2>1, <2>2, <3>1
    <2>3. CASE ReadJunk
      BY <2>1, <2>3 DEF ReadJunk
    <2>4. CASE ReadLine
      <3>1. status' = "running" /\ (RowsPast /\ RowsDisjoint /\ OpenOrOut)'
        BY <1>3, <2>4, FirstPassReads DEF ReadLine
      <3> QED  BY <3>1, Zenon DEF FirstPass
    <2>5. ASSUME NEW o \in Ops, NEW k, NEW s, Fire(o, k, s) PROVE FirstPass'
      <3>1. status' = "running" /\ (RowsPast /\ RowsDisjoint /\ OpenOrOut)'
        BY <1>3, <2>5, FirstPassFires DEF Fire
      <3> QED  BY <3>1, Zenon DEF FirstPass
    <2>6. CASE Produce \/ Tick \/ Trigger \/ Complete \/ Commit \/ UNCHANGED vars
      BY <2>6, <2>2 DEF Produce, Tick, Trigger, Complete, Commit, vars
    <2>7. CASE ReadThrows \/ TaskFails \/ ContainerDies
      BY <2>7, <1>1 DEF ReadThrows, TaskFails, ContainerDies
    <2>8. ASSUME NEW o, NEW k, NEW s, FireThrows(o, k, s) PROVE FirstPass'
      BY <2>8, <1>1 DEF FireThrows
    <2>9. ASSUME NEW w, WriteDone(w) \/ WriteFails(w) PROVE FirstPass'
      BY <2>9, <2>2 DEF WriteDone, WriteFails
    <2>10. ~(Restore \/ ContainerStarts)
      BY <1>3 DEF Restore, ContainerStarts
    <2> QED
      BY <2>3, <2>4, <2>5, <2>6, <2>7, <2>8, <2>9, <2>10 DEF Next
  <1>4. tainted => tainted'
    <2>1. UNCHANGED tainted \/ \E ws, next : Abort(ws, next)
      BY DEF Next, vars, Produce, Tick, ReadJunk, ReadLine, ReadThrows, Trigger, Complete,
         Commit, TaskFails, ContainerDies, Restore, ContainerStarts, StartAt, Fire,
         FireThrows, WriteDone, WriteFails
    <2>2. ASSUME NEW ws, NEW next, Abort(ws, next) PROVE tainted'
      BY <2>2, Zenon DEF Abort
    <2> QED  BY <2>1, <2>2, Zenon
  <1> QED  BY <1>3, <1>4, Zenon DEF FirstPass

\* An operator that holds no line twice holds as many entries as lines.
LEMMA OnceCounts ==
    ASSUME Typed, Distinct, NEW o \in Ops
    PROVE  Cardinality(win[o]) = Cardinality(Holds(win, o))
  <1> DEFINE W == win[o]
             H == Holds(win, o)
             f == [e \in W |-> e.off]
  <1>1. H \in SUBSET (1 .. NumLines) /\ H = {e.off : e \in W}
    BY DEF Holds, Typed, TypeOK, Windows, Elem
  <1>2. IsFiniteSet(H)
    <2>1. IsFiniteSet(1 .. NumLines)
      BY BoundAssumption, FS_Interval
    <2> QED  BY <1>1, <2>1, FS_Subset
  <1>3. f \in Injection(W, H)
    <2>1. f \in [W -> H]
      BY <1>1
    <2>2. \A a, b \in W : f[a] = f[b] => a = b
      BY DEF Distinct, OnceIn
    <2> QED  BY <2>1, <2>2 DEF Injection, IsInjective
  <1>4. f \in Surjection(W, H)
    BY <1>1 DEF Surjection
  <1> HIDE DEF W, H, f
  <1>5. Cardinality(W) = Cardinality(H)
    BY <1>2, <1>3, <1>4, FS_Injection
  <1> QED  BY <1>5 DEF W, H

\* A line is in at most one window of each operator, whatever fails, and until
\* the job first fails it is in one row of each table and in one window or
\* statistic: counts are exact up to the first failure.
THEOREM CountsOnce == Spec => []CountedOnce
  <1>1. Typed /\ Distinct /\ FirstPass => CountedOnce
    <2> SUFFICES ASSUME Typed, Distinct, FirstPass PROVE CountedOnce
      OBVIOUS
    <2>1. \A o \in Ops : Cardinality(win[o]) = Cardinality(Holds(win, o))
      BY OnceCounts
    <2>2. RowsDisjoint /\ OpenOrOut
          => /\ \A v, w \in issued : v # w /\ v.sink = w.sink => v.offs \cap w.offs = {}
             /\ \A o \in Ops : Holds(win, o) \cap Emitted(o) = {}
      BY DEF RowsDisjoint, OpenOrOut, Holds, Emitted
    <2> QED  BY <2>1, <2>2, Zenon DEF FirstPass, CountedOnce
  <1>2. Init => Kept
    BY KeptInit DEF Init, Kept, SnapshotsClosed
  <1> QED
    BY <1>1, <1>2, OnceInit, TypedInit, TypedNext, KeptNext, DistinctNext, FirstPassNext,
       PTL DEF Spec
=============================================================================
