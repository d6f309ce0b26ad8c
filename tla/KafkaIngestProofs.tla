------------------------- MODULE KafkaIngestProofs -------------------------
(***************************************************************************)
(* What KafkaIngest guarantees for any cluster, port file, number of       *)
(* records, edits and faults: its types, with the bound on how far the     *)
(* reader runs ahead; that nothing is committed that was not offered; and  *)
(* that nothing is jumped over once the group has an offset.               *)
(***************************************************************************)
EXTENDS KafkaIngest, TLAPS, SequenceTheorems

\* The entries of a sequence are of the type of its elements.
LEMMA EntriesType ==
    ASSUME NEW S, NEW s \in Seq(S)
    PROVE  Entries(s) \subseteq S
  BY DEF Entries

\* Taking the first message of a box leaves a box; adding one does, too.
LEMMA BoxTail ==
    ASSUME NEW S, NEW box \in [Nodes -> Seq(S)], NEW n \in Nodes, box[n] # <<>>
    PROVE  /\ Head(box[n]) \in S
           /\ [box EXCEPT ![n] = Tail(@)] \in [Nodes -> Seq(S)]
  BY HeadTailProperties

LEMMA BoxAppend ==
    ASSUME NEW S, NEW box \in [Nodes -> Seq(S)], NEW n \in Nodes, NEW m \in S
    PROVE  [box EXCEPT ![n] = Append(@, m)] \in [Nodes -> Seq(S)]
  BY AppendProperties

LEMMA BoxClear ==
    ASSUME NEW S, NEW box \in [Nodes -> Seq(S)], NEW n \in Nodes
    PROVE  [box EXCEPT ![n] = <<>>] \in [Nodes -> Seq(S)]
  BY EmptySeq

LEMMA NoBox ==
    ASSUME NEW S
    PROVE  [n \in Nodes |-> <<>>] \in [Nodes -> Seq(S)]
  BY EmptySeq

\* Whatever a set of nodes holds is a set of messages, and losing messages for
\* a cause of the list makes losses.
LEMMA HeldType ==
    ASSUME TypeOK, NEW ns \in SUBSET Nodes
    PROVE  \A m \in MailOf(ns) \cup BufferOf(ns) : m.off \in 1 .. NumRecords /\ m.inc \in Nat
  <1>1. \A n \in Nodes : /\ Entries(kmail[n]) \subseteq Msg
                         /\ Entries(imail[n]) \subseteq Event
                         /\ Entries(pbuf[n]) \subseteq Event
    BY EntriesType DEF TypeOK
  <1> QED  BY <1>1 DEF MailOf, BufferOf, Msg, Event

LEMMA LostType ==
    ASSUME NEW m, m.off \in 1 .. NumRecords, m.inc \in Nat, NEW why \in Causes
    PROVE  LostAs(m, why) \in Loss
  BY DEF LostAs, Loss

LEMMA AllLostType ==
    ASSUME NEW ms, \A m \in ms : m.off \in 1 .. NumRecords /\ m.inc \in Nat,
           NEW why \in Causes
    PROVE  AllLost(ms, why) \subseteq Loss
  BY LostType DEF AllLost

-----------------------------------------------------------------------------
LEMMA InitType == Init => TypeOK
  <1> SUFFICES ASSUME Init PROVE TypeOK
    OBVIOUS
  <1>1. /\ kmail \in [Nodes -> Seq(Msg)] /\ imail \in [Nodes -> Seq(Event)]
        /\ pbuf \in [Nodes -> Seq(Event)] /\ out \in Seq(Event)
    BY NoBox, EmptySeq DEF Init
  <1>2. ports \in [Nodes -> [Clusters -> Listing]] /\ file \in [Nodes -> [Clusters -> Listing]]
    BY TargetAssumption DEF Init, NoPorts, Listing
  <1>3. /\ hasGroup \in BOOLEAN /\ skipped \subseteq 1 .. NumRecords
        /\ offers \subseteq Msg /\ lost \subseteq Loss
    BY DEF Init
  <1>4. /\ produced \in 0 .. NumRecords /\ told \in 0 .. produced
        /\ committed \in 0 .. told /\ told <= committed + 2 /\ inc \in Nat
    BY CountAssumption DEF Init
  <1>5. edits \in 0 .. MaxEdits /\ faults \in 0 .. MaxFaults
    BY CountAssumption DEF Init
  <1> QED  BY <1>1, <1>2, <1>3, <1>4, <1>5 DEF Init, TypeOK

\* One step for every action; the conjuncts an action disturbs come first.
LEMMA NextType == TypeOK /\ [Next]_vars => TypeOK'
  <1> SUFFICES ASSUME TypeOK, [Next]_vars PROVE TypeOK'
    OBVIOUS
  <1> USE DEF stream_vars, mail_vars, view_vars, file_vars, fate_vars
  <1>1. CASE Produce
    BY <1>1, CountAssumption DEF Produce, TypeOK
  <1>2. CASE Tell
    <2> DEFINE m == [off |-> told + 1, inc |-> inc]
    <2>1. m \in Msg
      BY <1>2, CountAssumption DEF Tell, MayTell, TypeOK, Msg
    <2>2. ToRoutee(kview, kmail, kmail', m)
      BY <1>2 DEF Tell
    <2>3. \A why \in Causes : LostAs(m, why) \in Loss
      BY <2>1, LostType DEF Msg
    <2>4. kmail' \in [Nodes -> Seq(Msg)]
      <3>1. kmail \in [Nodes -> Seq(Msg)]
        BY DEF TypeOK
      <3>2. CASE kmail' = kmail
        BY <3>1, <3>2
      <3>3. ASSUME NEW n \in Nodes, kmail' = [kmail EXCEPT ![n] = Append(@, m)]
            PROVE  kmail' \in [Nodes -> Seq(Msg)]
        BY <2>1, <3>1, <3>3, BoxAppend
      <3> QED  BY <2>2, <3>2, <3>3 DEF ToRoutee, TypeOK
    <2>5. lost' \in SUBSET Loss
      BY <2>2, <2>3 DEF ToRoutee, TypeOK, Causes
    <2>6. offers' \in SUBSET Msg
      BY <1>2, <2>1 DEF Tell, TypeOK
    <2>7. told' \in 0 .. produced' /\ committed' \in 0 .. told' /\ told' <= committed' + 2
      BY <1>2, CountAssumption DEF Tell, MayTell, TypeOK
    <2> QED  BY <1>2, <2>4, <2>5, <2>6, <2>7 DEF Tell, TypeOK
  <1>3. CASE Commit
    BY <1>3, CountAssumption DEF Commit, MayCommit, TypeOK
  <1>4. CASE CommitFails
    <2>1. committed' \in 0 .. told' /\ told' <= committed' + 2 /\ faults' \in 0 .. MaxFaults
      BY <1>4, CountAssumption DEF CommitFails, MayCommit, TypeOK
    <2>2. hasGroup' \in BOOLEAN
      BY <1>4 DEF CommitFails, TypeOK
    <2> QED  BY <1>4, <2>1, <2>2 DEF CommitFails, TypeOK
  <1>5. CASE HomeCrash
    <2>1. AllLost(MailOf({Home}) \cup BufferOf({Home}), "crashed") \subseteq Loss
      BY HomeAssumption, HeldType, AllLostType DEF Causes
    <2>2. /\ kmail' \in [Nodes -> Seq(Msg)] /\ imail' \in [Nodes -> Seq(Event)]
          /\ pbuf' \in [Nodes -> Seq(Event)]
      BY <1>5, BoxClear, HomeAssumption DEF HomeCrash, TypeOK
    <2>3. ports' \in [Nodes -> [Clusters -> Listing]]
      BY <1>5 DEF HomeCrash, TypeOK, NoPorts, Listing
    <2>4. lost' \in SUBSET Loss
      BY <1>5, <2>1 DEF HomeCrash, TypeOK
    <2>5. faults' \in 0 .. MaxFaults
      BY <1>5, CountAssumption DEF HomeCrash, TypeOK
    <2> QED  BY <1>5, <2>2, <2>3, <2>4, <2>5 DEF HomeCrash, TypeOK
  <1>6. CASE HomeStart
    <2>1. AllLost(MailOf(Nodes), "stopped") \subseteq Loss
      BY HeldType, AllLostType DEF Causes
    <2>2. kmail' \in [Nodes -> Seq(Msg)] /\ imail' \in [Nodes -> Seq(Event)]
      BY <1>6, NoBox DEF HomeStart
    <2>3. ports' \in [Nodes -> [Clusters -> Listing]]
      BY <1>6 DEF HomeStart, NoPorts, Listing
    <2>4. StartPosition \in 0 .. produced
      BY CountAssumption DEF StartPosition, TypeOK
    <2>5. skipped' \in SUBSET (1 .. NumRecords)
      BY <1>6, <2>4, CountAssumption DEF HomeStart, TypeOK
    <2> QED  BY <1>6, <2>1, <2>2, <2>3, <2>4, <2>5, CountAssumption DEF HomeStart, TypeOK
  <1>7. ASSUME NEW n \in Nodes, AddKafkaRoutee(n) PROVE TypeOK'
    BY <1>7 DEF AddKafkaRoutee, TypeOK
  <1>8. ASSUME NEW n \in Nodes, AddInputRoutee(n) PROVE TypeOK'
    BY <1>8 DEF AddInputRoutee, TypeOK
  <1>9. ASSUME NEW n \in Nodes, Crash(n) PROVE TypeOK'
    <2>1. AllLost(MailOf({n}) \cup BufferOf({n}), "crashed") \subseteq Loss
      BY HeldType, AllLostType DEF Causes
    <2>2. /\ kmail' \in [Nodes -> Seq(Msg)] /\ imail' \in [Nodes -> Seq(Event)]
          /\ pbuf' \in [Nodes -> Seq(Event)]
      BY <1>9, BoxClear DEF Crash, TypeOK
    <2>3. ports' \in [Nodes -> [Clusters -> Listing]]
      BY <1>9 DEF Crash, TypeOK, NoPorts, Listing
    <2>4. lost' \in SUBSET Loss
      BY <1>9, <2>1 DEF Crash, TypeOK
    <2>5. faults' \in 0 .. MaxFaults
      BY <1>9, CountAssumption DEF Crash, TypeOK
    <2> QED  BY <1>9, <2>2, <2>3, <2>4, <2>5 DEF Crash, TypeOK
  <1>10. ASSUME NEW n \in Nodes, DropKafkaRoutee(n) PROVE TypeOK'
    BY <1>10 DEF DropKafkaRoutee, TypeOK
  <1>11. ASSUME NEW n \in Nodes, DropInputRoutee(n) PROVE TypeOK'
    BY <1>11 DEF DropInputRoutee, TypeOK
  <1>12. ASSUME NEW n \in Nodes, Rejoin(n) PROVE TypeOK'
    BY <1>12 DEF Rejoin, TypeOK
  <1>13. ASSUME NEW n \in Nodes, Load(n) PROVE TypeOK'
    <2>1. ports' \in [Nodes -> [Clusters -> Listing]]
      BY <1>13 DEF Load, TypeOK
    <2> QED  BY <1>13, <2>1 DEF Load, TypeOK
  <1>14. ASSUME NEW n \in Nodes, LoadFails(n) PROVE TypeOK'
    <2>1. ports' \in [Nodes -> [Clusters -> Listing]]
      BY <1>14 DEF LoadFails, TypeOK, NoPorts, Listing
    <2> QED  BY <1>14, <2>1, CountAssumption DEF LoadFails, TypeOK
  <1>15. ASSUME NEW n \in Nodes, WorkKafka(n) PROVE TypeOK'
    <2> DEFINE m == Head(kmail[n])
               c == ClusterOf[m.off]
               e == [off |-> m.off, inc |-> m.inc, to |-> ports[n][c]]
    <2>1. m \in Msg /\ kmail' \in [Nodes -> Seq(Msg)]
      BY <1>15, BoxTail DEF WorkKafka, TypeOK
    <2>2. m.off \in 1 .. NumRecords /\ m.inc \in Nat
      BY <2>1 DEF Msg
    <2>3. \A why \in Causes : LostAs(m, why) \in Loss
      BY <2>2, LostType
    <2>4. CASE UNCHANGED imail /\ \E why \in Causes : lost' = lost \cup {LostAs(m, why)}
      BY <1>15, <2>1, <2>3, <2>4 DEF WorkKafka, TypeOK
    <2>5. CASE Forwardable(ports[n][c]) /\ ToRoutee(iview, imail, imail', e)
      <3>1. e \in Event
        BY <2>2, <2>5 DEF Forwardable, Event
      <3> HIDE DEF e
      <3>2. LostAs(e, "no_routee") \in Loss /\ LostAs(e, "dead_routee") \in Loss
        BY <3>1, LostType DEF Event, Causes
      <3>3. imail' \in [Nodes -> Seq(Event)]
        <4>1. imail \in [Nodes -> Seq(Event)]
          BY DEF TypeOK
        <4>2. CASE imail' = imail
          BY <4>1, <4>2
        <4>3. ASSUME NEW w \in Nodes, imail' = [imail EXCEPT ![w] = Append(@, e)]
              PROVE  imail' \in [Nodes -> Seq(Event)]
          BY <3>1, <4>1, <4>3, BoxAppend
        <4> QED  BY <2>5, <4>2, <4>3 DEF ToRoutee, TypeOK
      <3>4. lost' \in SUBSET Loss
        BY <2>5, <3>2 DEF ToRoutee, TypeOK
      <3> QED  BY <1>15, <2>1, <3>3, <3>4 DEF WorkKafka, TypeOK
    <2> QED  BY <1>15, <2>4, <2>5 DEF WorkKafka, Causes
  <1>16. ASSUME NEW n \in Nodes, WorkInput(n) PROVE TypeOK'
    <2>1. Head(imail[n]) \in Event /\ imail' \in [Nodes -> Seq(Event)]
      BY <1>16, BoxTail DEF WorkInput, TypeOK
    <2>2. pbuf' \in [Nodes -> Seq(Event)]
      BY <1>16, <2>1, BoxAppend DEF WorkInput, TypeOK
    <2> QED  BY <1>16, <2>1, <2>2 DEF WorkInput, TypeOK
  <1>17. ASSUME NEW n \in Nodes, Flush(n) PROVE TypeOK'
    <2>1. Head(pbuf[n]) \in Event /\ pbuf' \in [Nodes -> Seq(Event)]
      BY <1>17, BoxTail DEF Flush, TypeOK
    <2>2. out' \in Seq(Event)
      BY <1>17, <2>1, AppendProperties DEF Flush, TypeOK
    <2> QED  BY <1>17, <2>1, <2>2 DEF Flush, TypeOK
  <1>18. ASSUME NEW n \in Nodes, FlushFails(n) PROVE TypeOK'
    <2>1. Head(pbuf[n]) \in Event /\ pbuf' \in [Nodes -> Seq(Event)]
      BY <1>18, BoxTail DEF FlushFails, TypeOK
    <2>2. LostAs(Head(pbuf[n]), "send_failed") \in Loss
      BY <2>1, LostType DEF Event, Causes
    <2> QED  BY <1>18, <2>1, <2>2, CountAssumption DEF FlushFails, TypeOK
  <1>19. ASSUME NEW n \in Nodes, NEW c \in Clusters, NEW v \in Listing, EditFile(n, c, v)
         PROVE  TypeOK'
    <2>1. file' \in [Nodes -> [Clusters -> Listing]]
      BY <1>19 DEF EditFile, TypeOK
    <2> QED  BY <1>19, <2>1, CountAssumption DEF EditFile, TypeOK
  <1>20. CASE UNCHANGED vars
    BY <1>20 DEF vars, TypeOK
  <1> QED
    BY <1>1, <1>2, <1>3, <1>4, <1>5, <1>6, <1>7, <1>8, <1>9, <1>10, <1>11, <1>12, <1>13,
       <1>14, <1>15, <1>16, <1>17, <1>18, <1>19, <1>20 DEF Next

\* Every variable keeps its type, whatever the cluster does; in particular the
\* reader is never more than two records ahead of what it has committed, and
\* never behind it.
THEOREM TypeCorrect == Spec => []TypeOK
  BY InitType, NextType, PTL DEF Spec

-----------------------------------------------------------------------------
(* Commits.  CommittedWasOffered is not inductive: what it says of the      *)
(* committed records must hold of all records the stream has told, since    *)
(* any of them may be committed next; and that a start goes on from no      *)
(* later than told follows from the types.                                  *)

ToldWasOffered == \A r \in 1 .. told : r \in skipped \/ \E m \in offers : m.off = r

LEMMA OfferedInit == Init => ToldWasOffered
  BY DEF Init, ToldWasOffered

LEMMA OfferedNext == TypeOK /\ ToldWasOffered /\ [Next]_vars => ToldWasOffered'
  <1> SUFFICES ASSUME TypeOK, ToldWasOffered, [Next]_vars PROVE ToldWasOffered'
    OBVIOUS
  <1>1. CASE Tell
    <2> DEFINE m == [off |-> told + 1, inc |-> inc]
    <2>1. m \in offers' /\ m.off = told + 1 /\ offers \subseteq offers'
      BY <1>1 DEF Tell
    <2>2. told' = told + 1 /\ skipped' = skipped /\ told \in Nat
      BY <1>1 DEF Tell, TypeOK
    <2>3. ASSUME NEW r \in 1 .. told' PROVE r \in skipped' \/ \E x \in offers' : x.off = r
      <3>1. CASE r = told + 1
        BY <2>1, <3>1
      <3>2. CASE r \in 1 .. told
        BY <2>1, <2>2, <3>2 DEF ToldWasOffered
      <3> QED  BY <2>2, <3>1, <3>2
    <2> QED  BY <2>3 DEF ToldWasOffered
  <1>2. CASE HomeStart
    <2>1. /\ told' = StartPosition /\ offers' = offers
          /\ skipped' = skipped \cup (told + 1 .. StartPosition)
      BY <1>2 DEF HomeStart, fate_vars
    <2>2. StartPosition \in Nat /\ told \in Nat
      BY DEF StartPosition, TypeOK
    <2>3. ASSUME NEW r \in 1 .. told' PROVE r \in skipped' \/ \E x \in offers' : x.off = r
      <3>1. CASE r \in 1 .. told
        BY <2>1, <3>1 DEF ToldWasOffered
      <3>2. CASE r \in told + 1 .. StartPosition
        BY <2>1, <3>2
      <3> QED  BY <2>1, <2>2, <3>1, <3>2
    <2> QED  BY <2>3 DEF ToldWasOffered
  <1>3. CASE UNCHANGED <<told, skipped, offers>>
    BY <1>3 DEF ToldWasOffered
  <1>4. ~Tell /\ ~HomeStart => UNCHANGED <<told, skipped, offers>>
    BY DEF Next, vars, stream_vars, mail_vars, view_vars, file_vars, fate_vars, Produce,
       Commit, CommitFails, HomeCrash, AddKafkaRoutee, AddInputRoutee, Crash,
       DropKafkaRoutee, DropInputRoutee, Rejoin, Load, LoadFails, WorkKafka, WorkInput,
       Flush, FlushFails, EditFile
  <1> QED  BY <1>1, <1>2, <1>3, <1>4

\* A record whose offset is committed has been told to the workers, or was
\* appended before the group had an offset to start from.
THEOREM CommittedOffered == Spec => []CommittedWasOffered
  <1>1. TypeOK /\ ToldWasOffered => CommittedWasOffered
    BY DEF TypeOK, ToldWasOffered, CommittedWasOffered
  <1> QED  BY <1>1, TypeCorrect, OfferedInit, OfferedNext, PTL DEF Spec

\* From its first commit on, the reader jumps over nothing, however often and
\* wherever the home process dies.
THEOREM NeverSkips == Spec => NeverSkipsAfterCommit
  <1>1. TypeOK /\ [Next]_vars => [hasGroup => skipped' = skipped]_vars
    <2> SUFFICES ASSUME TypeOK, [Next]_vars, hasGroup PROVE skipped' = skipped
      OBVIOUS
    <2>1. CASE HomeStart
      <3>1. skipped' = skipped \cup (told + 1 .. committed)
        BY <2>1 DEF HomeStart, StartPosition
      <3>2. told + 1 .. committed = {}
        BY DEF TypeOK
      <3> QED  BY <3>1, <3>2
    <2>2. ~HomeStart => UNCHANGED skipped
      BY DEF Next, vars, stream_vars, mail_vars, view_vars, file_vars, fate_vars, Produce,
         Tell, Commit, CommitFails, HomeCrash, AddKafkaRoutee, AddInputRoutee, Crash,
         DropKafkaRoutee, DropInputRoutee, Rejoin, Load, LoadFails, WorkKafka, WorkInput,
         Flush, FlushFails, EditFile
    <2> QED  BY <2>1, <2>2
  <1> QED  BY <1>1, TypeCorrect, PTL DEF Spec, NeverSkipsAfterCommit
=============================================================================
