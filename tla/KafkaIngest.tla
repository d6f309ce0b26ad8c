---------------------------- MODULE KafkaIngest ----------------------------
(***************************************************************************)
(* The Kafka collection path of the input server: one KakfaActor reads one *)
(* partition of a topic and tells every record to a cluster router of      *)
(* KafkaConsumeWorkers, which look the record's cluster up in their table  *)
(* of ports and tell the event to a cluster router of InputWorkers, which  *)
(* hand it to a KafkaProducer.  The reader commits an offset as soon as    *)
(* the record has been told: nothing downstream acknowledges anything.     *)
(*                                                                         *)
(* A message in flight is identified by the record's offset and by the     *)
(* incarnation of the home process that told it.                           *)
(***************************************************************************)
EXTENDS Naturals, Sequences, FiniteSets

CONSTANTS
    Nodes,       \* members of the Akka cluster; each hosts one routee per router
    Home,        \* the member running the DataInputActor and the KakfaActor
    NumRecords,  \* bound: records that are ever appended to the input topic
    Clusters,    \* "topic:file_name" keys a record can carry
    Garbled,     \* stands for data that does not parse or has no file_name
    ClusterOf,   \* the key of every record, or Garbled
    Targets,     \* "namespace server" values of the port file
    Malformed,   \* a value of the port file that is not two words
    Unlisted,    \* the port file has no line for the key
    FileInit,    \* the port file every node starts with
    MaxEdits,    \* bound: edits of port files
    MaxFaults    \* bound: crashes, failed commits, sends and loads

ASSUME HomeAssumption    == Home \in Nodes
ASSUME CountAssumption   == NumRecords \in Nat /\ MaxEdits \in Nat /\ MaxFaults \in Nat
ASSUME ClusterAssumption == /\ Garbled \notin Clusters
                            /\ ClusterOf \in [1 .. NumRecords -> Clusters \cup {Garbled}]
ASSUME TargetAssumption  == /\ Malformed \notin Targets
                            /\ Unlisted \notin Targets \cup {Malformed}
                            /\ FileInit \in [Clusters -> Targets \cup {Malformed, Unlisted}]

VARIABLES
    produced,   \* records appended to the input topic so far
    told,       \* position of the stream: records told to kafkaWorkerRouter or skipped
    committed,  \* position the stream has committed (its start position at first)
    hasGroup,   \* the consumer group has a committed offset at the broker
    stream,     \* "running", "dead" (the graph failed) or "down" (no home process)
    inc,        \* incarnation of the home process
    kview,      \* routees kafkaWorkerRouter knows
    iview,      \* routees workerRouter knows
    alive,      \* members whose process runs
    kmail,      \* mailbox of every KafkaConsumeWorker
    imail,      \* mailbox of every InputWorker
    pbuf,       \* records in the KafkaProducer of every InputWorker
    ports,      \* NameSpaceServerPorts of every KafkaConsumeWorker
    file,       \* content of the port file on every node
    out,        \* the output topic
    offers,     \* history: every message ever told
    lost,       \* history: messages that are gone, and why
    skipped,    \* history: records the reader jumped over
    edits, faults

stream_vars == <<produced, told, committed, hasGroup, stream, inc, skipped>>
mail_vars   == <<kmail, imail, pbuf>>
view_vars   == <<kview, iview, alive>>
file_vars   == <<ports, file, edits>>
fate_vars   == <<out, offers, lost>>
vars == <<stream_vars, mail_vars, view_vars, file_vars, fate_vars, faults>>

Listing  == Targets \cup {Malformed, Unlisted}
NoPorts  == [c \in Clusters |-> Unlisted]
Causes   == {"no_routee", "dead_routee", "garbled", "unlisted", "malformed",
             "home_down", "stopped", "crashed", "send_failed"}

Msg      == [off : 1 .. NumRecords, inc : Nat]
Event    == [off : 1 .. NumRecords, inc : Nat, to : Targets]
Loss     == [off : 1 .. NumRecords, inc : Nat, why : Causes]

Entries(s) == {s[i] : i \in DOMAIN s}
Id(m)      == [off |-> m.off, inc |-> m.inc]
LostAs(m, why)    == [off |-> m.off, inc |-> m.inc, why |-> why]
AllLost(ms, why)  == {LostAs(m, why) : m \in ms}

(***************************************************************************)
(* Everything a set of nodes holds in the mailboxes of its routees, and in *)
(* the producers of its InputWorkers.                                      *)
(***************************************************************************)
MailOf(ns)   == UNION {Entries(kmail[n]) \cup Entries(imail[n]) : n \in ns}
BufferOf(ns) == UNION {Entries(pbuf[n]) : n \in ns}

Init ==
    /\ produced = 0 /\ told = 0 /\ committed = 0 /\ hasGroup = FALSE
    /\ stream = "running" /\ inc = 0
    /\ kview = {} /\ iview = {} /\ alive = Nodes
    /\ kmail = [n \in Nodes |-> <<>>]
    /\ imail = [n \in Nodes |-> <<>>]
    /\ pbuf  = [n \in Nodes |-> <<>>]
    /\ ports = [n \in Nodes |-> NoPorts]
    /\ file  = [n \in Nodes |-> FileInit]
    /\ out = <<>> /\ offers = {} /\ lost = {} /\ skipped = {}
    /\ edits = 0 /\ faults = 0

-----------------------------------------------------------------------------
(* The environment: the shipper of logs, the operator, the cluster.        *)

Produce ==
    /\ produced < NumRecords
    /\ produced' = produced + 1
    /\ UNCHANGED <<told, committed, hasGroup, stream, inc, skipped, mail_vars,
                   view_vars, file_vars, fate_vars, faults>>

\* The operator rewrites one line of the port file of a node.
EditFile(n, c, v) ==
    /\ edits < MaxEdits
    /\ file[n][c] # v
    /\ file' = [file EXCEPT ![n][c] = v]
    /\ edits' = edits + 1
    /\ UNCHANGED <<stream_vars, mail_vars, view_vars, ports, fate_vars, faults>>

\* A member that is up gets one routee of each router (maxInstancesPerNode = 1);
\* the two routers hear of it independently.
AddKafkaRoutee(n) ==
    /\ stream # "down" /\ n \in alive \ kview
    /\ kview' = kview \cup {n}
    /\ UNCHANGED <<stream_vars, mail_vars, iview, alive, file_vars, fate_vars, faults>>

AddInputRoutee(n) ==
    /\ stream # "down" /\ n \in alive \ iview
    /\ iview' = iview \cup {n}
    /\ UNCHANGED <<stream_vars, mail_vars, kview, alive, file_vars, fate_vars, faults>>

\* The process of another member dies, with its mailboxes and its producer.
Crash(n) ==
    /\ n \in alive \ {Home} /\ faults < MaxFaults
    /\ alive' = alive \ {n}
    /\ kmail' = [kmail EXCEPT ![n] = <<>>]
    /\ imail' = [imail EXCEPT ![n] = <<>>]
    /\ pbuf'  = [pbuf EXCEPT ![n] = <<>>]
    /\ ports' = [ports EXCEPT ![n] = NoPorts]
    /\ lost'  = lost \cup AllLost(MailOf({n}) \cup BufferOf({n}), "crashed")
    /\ faults' = faults + 1
    /\ UNCHANGED <<stream_vars, kview, iview, file, edits, out, offers>>

\* The failure detector's verdict reaches a router: it forgets the dead routee.
DropKafkaRoutee(n) ==
    /\ n \in kview \ alive
    /\ kview' = kview \ {n}
    /\ UNCHANGED <<stream_vars, mail_vars, iview, alive, file_vars, fate_vars, faults>>

DropInputRoutee(n) ==
    /\ n \in iview \ alive
    /\ iview' = iview \ {n}
    /\ UNCHANGED <<stream_vars, mail_vars, kview, alive, file_vars, fate_vars, faults>>

\* The member comes back once both routers have dropped its old incarnation.
Rejoin(n) ==
    /\ n \in Nodes \ (alive \cup {Home}) /\ n \notin kview \cup iview
    /\ alive' = alive \cup {n}
    /\ UNCHANGED <<stream_vars, mail_vars, kview, iview, file_vars, fate_vars, faults>>

-----------------------------------------------------------------------------
(* KakfaActor: committableSource, mapAsync(1) tell, mapAsync(1) commit.     *)

\* Slip: a broadcasting router.
BugToRoutee(view, mail, next, m) ==
    /\ next = [n \in Nodes |-> IF n \in view \cap alive THEN Append(mail[n], m) ELSE mail[n]]
    /\ lost' = IF view \cap alive = {} THEN lost \cup {LostAs(m, "no_routee")} ELSE lost

\* Slip: the tell is repeated, as a retry without an acknowledgement would.
BugTellTwice(view, mail, next, m) ==
    IF view \cap alive = {}
    THEN next = mail /\ lost' = lost \cup {LostAs(m, "no_routee")}
    ELSE \E n \in view \cap alive :
           next = [mail EXCEPT ![n] = @ \o <<m, m>>] /\ UNCHANGED lost

\* Slip: the message is put in front of the mailbox, as unstashing does.
BugTellFirst(view, mail, next, m) ==
    IF view \cap alive = {}
    THEN next = mail /\ lost' = lost \cup {LostAs(m, "no_routee")}
    ELSE \E n \in view \cap alive :
           next = [mail EXCEPT ![n] = <<m>> \o @] /\ UNCHANGED lost

\* tell through a router, its routees' mailboxes going from mail to next: any
\* routee the router knows (consistent hashing of the message), or dead letters
\* when it knows none or the routee's node is dead.
ToRoutee(view, mail, next, m) ==
    \/ /\ view = {}
       /\ next = mail
       /\ lost' = lost \cup {LostAs(m, "no_routee")}
    \/ \E n \in view \cap alive :
       /\ next = [mail EXCEPT ![n] = Append(@, m)]
       /\ UNCHANGED lost
    \/ /\ view \ alive # {}
       /\ next = mail
       /\ lost' = lost \cup {LostAs(m, "dead_routee")}

\* Slip: mapAsync(2) in the second stage.
BugTwoCommits == told < produced /\ told < committed + 3

\* One stage holds the record whose commit is in flight, the other the next one.
MayTell == told < produced /\ told < committed + 2

Tell ==
    LET m == [off |-> told + 1, inc |-> inc] IN
    /\ stream = "running"
    /\ MayTell
    /\ told' = told + 1
    /\ offers' = offers \cup {m}
    /\ ToRoutee(kview, kmail, kmail', m)
    /\ UNCHANGED <<produced, committed, hasGroup, stream, inc, skipped, imail, pbuf,
                   view_vars, file_vars, out, faults>>

\* Slip: committing as records arrive, before they are told (enable.auto.commit).
BugCommitFirst == committed < produced

\* Only a record that has been told has a commit to make.
MayCommit == committed < told

Commit ==
    /\ stream = "running"
    /\ MayCommit
    /\ committed' = committed + 1
    /\ hasGroup' = TRUE
    /\ UNCHANGED <<produced, told, stream, inc, skipped, mail_vars, view_vars,
                   file_vars, fate_vars, faults>>

\* A commit fails or times out, whether or not the broker stored it: the graph
\* fails, runWith's future is ignored and nothing materialises it again.
CommitFails ==
    /\ stream = "running" /\ faults < MaxFaults
    /\ MayCommit
    /\ \/ committed' = committed + 1 /\ hasGroup' = TRUE
       \/ UNCHANGED <<committed, hasGroup>>
    /\ stream' = "dead"
    /\ faults' = faults + 1
    /\ UNCHANGED <<produced, told, inc, skipped, mail_vars, view_vars, file_vars,
                   fate_vars>>

-----------------------------------------------------------------------------
(* KafkaConsumeWorker: one message of its mailbox per step.                 *)

\* "Load": lines are put into the table, nothing is ever removed from it.
Load(n) ==
    /\ n \in kview \cap alive
    /\ ports' = [ports EXCEPT ![n] =
                   [c \in Clusters |-> IF file[n][c] = Unlisted
                                       THEN ports[n][c] ELSE file[n][c]]]
    /\ UNCHANGED <<stream_vars, mail_vars, view_vars, file, edits, fate_vars, faults>>

\* "Load" throws (no such file): the routee's failure escalates through the
\* router to the DataInputActor, which restarts the router and with it every
\* routee.  Mailboxes survive, tables do not.
LoadFails(n) ==
    /\ n \in kview \cap alive /\ stream # "down" /\ faults < MaxFaults
    /\ ports' = [w \in Nodes |-> IF w \in kview THEN NoPorts ELSE ports[w]]
    /\ faults' = faults + 1
    /\ UNCHANGED <<stream_vars, mail_vars, view_vars, file, edits, fate_vars>>

\* Slip: the length test of the split value is inverted.
BugForwardable(v) == v = Malformed

\* The value of the table splits into a namespace and a server name.
Forwardable(v) == v \in Targets

\* MsgKafka: parse, look up, forward; whatever is thrown is caught and dropped.
WorkKafka(n) ==
    LET m == Head(kmail[n])
        c == ClusterOf[m.off]
        Dropped(why) == lost' = lost \cup {LostAs(m, why)} /\ UNCHANGED imail
    IN
    /\ kmail[n] # <<>>
    /\ kmail' = [kmail EXCEPT ![n] = Tail(@)]
    /\ \/ c = Garbled /\ Dropped("garbled")
       \/ c # Garbled /\ ports[n][c] = Unlisted /\ Dropped("unlisted")
       \/ /\ c # Garbled /\ ports[n][c] # Unlisted /\ ~Forwardable(ports[n][c])
          /\ Dropped("malformed")
       \/ /\ c # Garbled /\ ports[n][c] # Unlisted /\ Forwardable(ports[n][c])
          /\ \/ stream = "down" /\ Dropped("home_down")
             \/ /\ stream # "down"
                /\ ToRoutee(iview, imail, imail',
                            [off |-> m.off, inc |-> m.inc, to |-> ports[n][c]])
    /\ UNCHANGED <<stream_vars, pbuf, view_vars, file_vars, out, offers, faults>>

-----------------------------------------------------------------------------
(* InputWorker and its KafkaProducer.                                       *)

\* MsgEvent: kafkaProducer.send, whose future is ignored.
WorkInput(n) ==
    /\ imail[n] # <<>>
    /\ pbuf' = [pbuf EXCEPT ![n] = Append(@, Head(imail[n]))]
    /\ imail' = [imail EXCEPT ![n] = Tail(@)]
    /\ UNCHANGED <<stream_vars, kmail, view_vars, file_vars, fate_vars, faults>>

\* The producer's sender thread: in order, each record once.
Flush(n) ==
    /\ pbuf[n] # <<>>
    /\ out' = Append(out, Head(pbuf[n]))
    /\ pbuf' = [pbuf EXCEPT ![n] = Tail(@)]
    /\ UNCHANGED <<stream_vars, kmail, imail, view_vars, file_vars, offers, lost, faults>>

\* retries = 0: a failed send is dropped, and nobody looks at the result.
FlushFails(n) ==
    /\ pbuf[n] # <<>> /\ faults < MaxFaults
    /\ lost' = lost \cup {LostAs(Head(pbuf[n]), "send_failed")}
    /\ pbuf' = [pbuf EXCEPT ![n] = Tail(@)]
    /\ faults' = faults + 1
    /\ UNCHANGED <<stream_vars, kmail, imail, view_vars, file_vars, out, offers>>

-----------------------------------------------------------------------------
(* The home process dies and its container starts it again.                *)

\* Routees on other members are orphans until the cluster removes the old home.
HomeCrash ==
    /\ stream # "down" /\ faults < MaxFaults
    /\ stream' = "down"
    /\ kview' = {} /\ iview' = {}
    /\ kmail' = [kmail EXCEPT ![Home] = <<>>]
    /\ imail' = [imail EXCEPT ![Home] = <<>>]
    /\ pbuf'  = [pbuf EXCEPT ![Home] = <<>>]
    /\ ports' = [ports EXCEPT ![Home] = NoPorts]
    /\ lost'  = lost \cup AllLost(MailOf({Home}) \cup BufferOf({Home}), "crashed")
    /\ faults' = faults + 1
    /\ UNCHANGED <<produced, told, committed, hasGroup, inc, skipped, alive, file,
                   edits, out, offers>>

\* Slip: subscribing at the end of the topic whatever the group has committed.
BugStartPosition == produced

\* Slip: a group id of its own for every start, which begins with the topic.
BugFreshGroup == 0

\* The group's offset, or the end of the topic when it has none (latest).
StartPosition == IF hasGroup THEN committed ELSE produced

\* Orphans are stopped (their producers keep sending: one buffer stands for the
\* old and the new producer of a member), and a new stream subscribes.
HomeStart ==
    LET from == StartPosition IN
    /\ stream = "down"
    /\ stream' = "running"
    /\ inc' = inc + 1
    /\ told' = from /\ committed' = from
    /\ skipped' = skipped \cup (told + 1 .. from)
    /\ lost' = lost \cup AllLost(MailOf(Nodes), "stopped")
    /\ kmail' = [n \in Nodes |-> <<>>]
    /\ imail' = [n \in Nodes |-> <<>>]
    /\ ports' = [n \in Nodes |-> NoPorts]
    /\ UNCHANGED <<produced, hasGroup, pbuf, view_vars, file, edits, out, offers, faults>>

-----------------------------------------------------------------------------
Next ==
    \/ Produce \/ Tell \/ Commit \/ CommitFails \/ HomeCrash \/ HomeStart
    \/ \E n \in Nodes :
         \/ AddKafkaRoutee(n) \/ AddInputRoutee(n) \/ Crash(n)
         \/ DropKafkaRoutee(n) \/ DropInputRoutee(n) \/ Rejoin(n)
         \/ Load(n) \/ LoadFails(n) \/ WorkKafka(n) \/ WorkInput(n)
         \/ Flush(n) \/ FlushFails(n)
         \/ \E c \in Clusters, v \in Listing : EditFile(n, c, v)

Spec == Init /\ [][Next]_vars

\* Every actor and client thread that has work gets to do it: dispatchers are
\* fair, routers hear of every member, "Load" is on a timer.
Fairness ==
    /\ WF_vars(Tell) /\ WF_vars(Commit)
    /\ \A n \in Nodes : /\ WF_vars(AddKafkaRoutee(n)) /\ WF_vars(AddInputRoutee(n))
                        /\ WF_vars(Load(n))
                        /\ WF_vars(WorkKafka(n)) /\ WF_vars(WorkInput(n))
                        /\ WF_vars(Flush(n))

FairSpec == Spec /\ Fairness

-----------------------------------------------------------------------------
(* Properties.                                                             *)

\* Every variable stays in its type; the reader runs at most two records ahead
\* of what it committed and never past the end of the topic.
TypeOK ==
    /\ produced \in 0 .. NumRecords
    /\ told \in 0 .. produced
    /\ committed \in 0 .. told /\ told <= committed + 2
    /\ hasGroup \in BOOLEAN
    /\ stream \in {"running", "dead", "down"}
    /\ inc \in Nat
    /\ kview \in SUBSET Nodes /\ iview \in SUBSET Nodes /\ alive \in SUBSET Nodes
    /\ kmail \in [Nodes -> Seq(Msg)]
    /\ imail \in [Nodes -> Seq(Event)]
    /\ pbuf \in [Nodes -> Seq(Event)]
    /\ ports \in [Nodes -> [Clusters -> Listing]]
    /\ file \in [Nodes -> [Clusters -> Listing]]
    /\ out \in Seq(Event)
    /\ offers \in SUBSET Msg
    /\ lost \in SUBSET Loss
    /\ skipped \in SUBSET (1 .. NumRecords)
    /\ edits \in 0 .. MaxEdits /\ faults \in 0 .. MaxFaults

\* An offset the group has committed is never that of a record nobody was told
\* about, except for the ones a first start without an offset jumps over
\* (KakfaActor.scala:33-38: update, and only then commitScaladsl).
CommittedWasOffered ==
    \A r \in 1 .. committed : r \in skipped \/ \E m \in offers : m.off = r

\* Once the group has an offset, no start of the home process jumps over a
\* record: it reads again from the first one whose commit was not stored.
NeverSkipsAfterCommit == [][hasGroup => skipped' = skipped]_vars

\* Each restart makes the stream tell at most two records again.
RedeliveryWindow ==
    Cardinality(offers) - Cardinality({m.off : m \in offers}) <= 2 * inc

\* Where a message can be, and who is there, by place, first one first.
Places == ({"kafka", "input", "send"} \X Nodes) \cup {<<"topic", Home>>}
At(p) == CASE p[1] = "kafka" -> kmail[p[2]]
           [] p[1] = "input" -> imail[p[2]]
           [] p[1] = "send"  -> pbuf[p[2]]
           [] p[1] = "topic" -> out
Ids(s)   == [i \in DOMAIN s |-> Id(s[i])]
Boxes    == [p \in Places |-> Ids(At(p))]
HeldIn(b) == UNION {Entries(b[p]) : p \in Places}

\* Boxes b, losses ls and messages os: each message is in one place, once, or
\* lost for one reason.
Fate(b, ls, os) ==
    /\ \A p, q \in Places : \A i \in DOMAIN b[p], j \in DOMAIN b[q] :
         b[p][i] = b[q][j] => p = q /\ i = j
    /\ \A k, l \in ls : Id(k) = Id(l) => k = l
    /\ \A l \in ls : Id(l) \notin HeldIn(b)
    /\ os = HeldIn(b) \cup {Id(l) : l \in ls}

\* Every message told has exactly one fate: it waits in one mailbox or producer,
\* or is in the output topic once, or was lost for one named reason.  No crash,
\* restart or change of the routers duplicates a message or loses it unnoticed.
OneFate == Fate(Boxes, lost, offers)

\* With one member the path keeps the order of the partition: topic, producer
\* and mailboxes, read from the far end, are strictly sorted by incarnation and
\* offset, also across restarts.
InOrder ==
    Nodes = {Home} =>
      LET path == out \o pbuf[Home] \o imail[Home] \o kmail[Home] IN
      \A i, j \in DOMAIN path :
        i < j => \/ path[i].inc < path[j].inc
                 \/ path[i].inc = path[j].inc /\ path[i].off < path[j].off

\* Without faults: a record that parses, told once both routers know a routee
\* and every table lists its cluster, reaches the output topic.
Ready(c) == kview # {} /\ iview # {} /\ \A n \in Nodes : ports[n][c] \in Targets
EventuallyRelayed ==
  [](faults = 0) =>
    \A r \in 1 .. NumRecords :
      (/\ ClusterOf[r] # Garbled
       /\ told < r /\ r <= produced
       /\ Ready(ClusterOf[r]))
      ~> (\E i \in DOMAIN out : out[i].off = r)

\* The path is a Relay: everything between KakfaActor and the output topic
\* amounts to a set of messages, each of which is delivered once or lost.
R == INSTANCE Relay WITH
        Window    <- 2,
        last      <- produced,
        pos       <- told,
        acked     <- committed,
        mark      <- hasGroup,
        epoch     <- inc,
        transit   <- {Id(m) : m \in MailOf(Nodes) \cup BufferOf(Nodes)},
        delivered <- [i \in DOMAIN out |-> Id(out[i])]
ImplementsRelay == R!Spec
=============================================================================
