--------------------------- MODULE PyWorkerProofs ---------------------------
(***************************************************************************)
(* The process of a function uses the connection as PyConnection allows,   *)
(* for any job: whatever iterators, functions, chains and serializers do   *)
(* between two calls, each step is one of the connection's or leaves it    *)
(* alone.  So what PyConnectionProofs proves holds of every function.      *)
(*                                                                         *)
(* That what is serialized is in Messages (Serializes) is assumed here: it *)
(* is the result of folds over the data.  It is part of TypeOK for TLC;    *)
(* the other types are proved from it.                                     *)
(***************************************************************************)
EXTENDS PyWorker, PyConnectionProofs

LEMMA WorkerInit == Init => ConnInit
  <1> SUFFICES ASSUME Init PROVE rest \in [Sides -> Seq(Elements)] /\ Fresh
    BY DEF ConnInit
  <1>1. job \in Jobs /\ rest = job.input
    BY DEF Init
  <1>2. job.input \in [Sides -> Seq(Elements)]
    BY <1>1, JobAssumption
  <1> QED  BY <1>1, <1>2 DEF Init

\* Steps of the function that leave the connection alone.
LEMMA Inside ==
    ASSUME Return \/ Drained \/ Group \/ CoGroup \/ EachDone \/ \E g \in Sides : TakeLast(g)
    PROVE  UNCHANGED connVars
  <1>1. CASE Return
    BY <1>1 DEF Return
  <1>2. CASE Drained
    BY <1>2 DEF Drained
  <1>3. CASE Group
    BY <1>3 DEF Group
  <1>4. CASE CoGroup
    BY <1>4 DEF CoGroup
  <1>5. CASE EachDone
    BY <1>5 DEF EachDone
  <1>6. CASE \E g \in Sides : TakeLast(g)
    BY <1>6 DEF TakeLast
  <1> QED  BY <1>1, <1>2, <1>3, <1>4, <1>5, <1>6

LEMMA Asks ==
    ASSUME NEW g \in Sides, Ask(g)
    PROVE  ConnNext
  BY DEF Ask, ConnNext

LEMMA Fetches ==
    ASSUME FetchEach \/ FetchAny \/ \E g \in Sides : FetchFirst(g) \/ FetchGrouped(g)
    PROVE  ConnNext
  <1>1. FetchEach => Read(1)
    BY DEF FetchEach
  <1>2. FetchAny => Read(1)
    BY DEF FetchAny
  <1>3. ASSUME NEW g \in Sides, FetchFirst(g) \/ FetchGrouped(g) PROVE Read(g)
    BY <1>3 DEF FetchFirst, FetchGrouped
  <1>4. \E g \in Sides : Read(g)
    BY <1>1, <1>2, <1>3 DEF Sides
  <1> QED  BY <1>4 DEF ConnNext

\* What is written is a message that fits.
LEMMA Writes ==
    ASSUME Serializes, Put
    PROVE  ConnNext
  <1>1. Message(Serializer(Head(pend)), Head(pend)) \in Messages
    BY DEF Serializes, Put
  <1>2. Write(Message(Serializer(Head(pend)), Head(pend)))
    BY DEF Put
  <1> QED  BY <1>1, <1>2 DEF ConnNext

LEMMA Others ==
    ASSUME Receive \/ Flush \/ Close \/ Fail \/ Connection \/ Killed \/ Task \/ Lost
    PROVE  ConnNext
  <1>1. CASE Receive
    BY <1>1 DEF Receive, ConnNext
  <1>2. CASE Flush
    BY <1>2 DEF Flush, ConnNext
  <1>3. CASE Close
    BY <1>3 DEF Close, ConnNext
  <1>4. CASE Fail
    BY <1>4 DEF Fail, ConnNext
  <1>5. CASE Connection
    BY <1>5 DEF Connection, ConnNext
  <1>6. CASE Killed \/ Task \/ Lost
    BY <1>6 DEF Killed, Task, Lost, ConnNext
  <1> QED  BY <1>1, <1>2, <1>3, <1>4, <1>5, <1>6

LEMMA WorkerStep == Serializes /\ [Next]_vars => [ConnNext]_connVars
  <1> SUFFICES ASSUME Serializes, [Next]_vars PROVE [ConnNext]_connVars
    OBVIOUS
  <1>1. CASE Works
    <2>1. CASE Return \/ Drained \/ Group \/ CoGroup \/ EachDone \/ \E g \in Sides : TakeLast(g)
      BY <2>1, Inside
    <2>2. CASE FetchEach \/ FetchAny \/ \E g \in Sides : FetchFirst(g) \/ FetchGrouped(g)
      BY <2>2, Fetches
    <2>3. CASE \E g \in Sides : Ask(g)
      BY <2>3, Asks
    <2>4. CASE Put
      BY <2>4, Writes
    <2>5. CASE Receive \/ Flush \/ Close \/ Fail \/ Connection
      BY <2>5, Others
    <2> QED  BY <1>1, <2>1, <2>2, <2>3, <2>4, <2>5 DEF Works
  <1>2. CASE Killed \/ Task \/ Lost
    BY <1>2, Others
  <1>3. CASE UNCHANGED vars
    BY <1>3 DEF vars
  <1> QED  BY <1>1, <1>2, <1>3 DEF Next

-----------------------------------------------------------------------------
(* The types of the process.  An iterator holds at most one element and,   *)
(* once it holds none, knows that its group is over: next_group, the only  *)
(* step to say that it is not, is called for an iterator that holds one.   *)

Places  == {"init1", "init2", "groups", "call", "drain", "each", "end"}
Matches == {"None", "NONE_REMAINED", "FIRST_REMAINED", "SECOND_REMAINED",
            "FIRST_EMPTY", "SECOND_EMPTY"}
KeysOrNone == {e.key : e \in Elements} \cup {<<>>}
Iterators  == [cur : Seq(Elements), key : KeysOrNone, empty : BOOLEAN]

\* An iterator as it may be between two steps.
Sound(it) ==
    /\ it \in Iterators
    /\ Len(it.cur) <= 1
    /\ it.cur = <<>> /\ it.key # <<>> => it.empty

OfFunction == job \in Jobs /\ at \in Places /\ want \in Sides \cup {0} /\ match \in Matches

OfIterators == iters \in [Sides -> Iterators] /\ \A g \in Sides : Sound(iters[g])

\* There is a serializer once something was written.
OfSerializer == Len(ser) <= 1 /\ (written # <<>> => ser # <<>>)

WorkTypes == OfFunction /\ OfIterators /\ OfSerializer

LEMMA WorkInit == Init => WorkTypes
  <1> SUFFICES ASSUME Init PROVE WorkTypes
    OBVIOUS
  <1>1. OfFunction
    BY DEF Init, OfFunction, Places, Matches
  <1>2. Sound(NoGroup) /\ NoGroup \in Iterators
    BY DEF NoGroup, Sound, Iterators, KeysOrNone
  <1>3. iters = [g \in Sides |-> NoGroup]
    BY DEF Init
  <1>4. OfIterators
    BY <1>2, <1>3 DEF OfIterators
  <1>5. ser = <<>> /\ written = <<>>
    BY DEF Init, Fresh
  <1>6. OfSerializer
    BY <1>5 DEF OfSerializer
  <1> QED  BY <1>1, <1>4, <1>6 DEF WorkTypes

\* What the steps of an iterator make of it.
LEMMA Began ==
    ASSUME NEW e \in Elements
    PROVE  Sound([cur |-> <<e>>, key |-> e.key, empty |-> FALSE])
  <1>1. e.key \in KeysOrNone
    BY DEF KeysOrNone
  <1> QED  BY <1>1 DEF Sound, Iterators

LEMMA MovedOn ==
    ASSUME NEW it, Sound(it), NEW e \in Elements
    PROVE  Sound(Move(it, e))
  <1> DEFINE b == (it.key # e.key)
  <1>1. b \in BOOLEAN
    OBVIOUS
  <1> HIDE DEF b
  <1>2. PICK half : half = [it EXCEPT !.cur = <<e>>]
    OBVIOUS
  <1>3. half = [cur |-> <<e>>, key |-> it.key, empty |-> it.empty]
    BY <1>2 DEF Sound, Iterators
  <1>4. Move(it, e) = [half EXCEPT !.empty = b]
    BY <1>2, Zenon DEF Move, b
  <1>5. Move(it, e) = [cur |-> <<e>>, key |-> it.key, empty |-> b]
    BY <1>3, <1>4
  <1> QED  BY <1>1, <1>5 DEF Sound, Iterators

LEMMA MovedToEnd ==
    ASSUME NEW it, Sound(it)
    PROVE  Sound(MoveToEnd(it))
  <1>1. PICK half : half = [it EXCEPT !.cur = <<>>]
    OBVIOUS
  <1>2. half = [cur |-> <<>>, key |-> it.key, empty |-> it.empty]
    BY <1>1 DEF Sound, Iterators
  <1>3. MoveToEnd(it) = [half EXCEPT !.empty = TRUE]
    BY <1>1, Zenon DEF MoveToEnd
  <1>4. MoveToEnd(it) = [cur |-> <<>>, key |-> it.key, empty |-> TRUE]
    BY <1>2, <1>3
  <1> QED  BY <1>4 DEF Sound, Iterators

LEMMA NextBegan ==
    ASSUME NEW it, Sound(it), it.cur # <<>>
    PROVE  Sound(NextGroup(it))
  <1>1. it.cur[1] \in Elements /\ it.cur[1].key \in KeysOrNone
    BY DEF Sound, Iterators, KeysOrNone
  <1>2. PICK half : half = [it EXCEPT !.key = it.cur[1].key]
    OBVIOUS
  <1>3. half = [cur |-> it.cur, key |-> it.cur[1].key, empty |-> it.empty]
    BY <1>2 DEF Sound, Iterators
  <1>4. NextGroup(it) = [half EXCEPT !.empty = FALSE]
    BY <1>2, Zenon DEF NextGroup
  <1>5. NextGroup(it) = [cur |-> it.cur, key |-> it.cur[1].key, empty |-> FALSE]
    BY <1>3, <1>4
  <1> QED  BY <1>1, <1>5 DEF Sound, Iterators

\* One iterator changes.
LEMMA Replaced ==
    ASSUME OfIterators, NEW g \in Sides, NEW it, Sound(it), iters' = [iters EXCEPT ![g] = it]
    PROVE  OfIterators'
  BY DEF OfIterators, Sound

\* What is read is an element of the task.
LEMMA ReadElement ==
    ASSUME ConnTypeOK, NEW g \in Sides, Read(g)
    PROVE  Head(input[g]) \in Elements
  BY DEF ConnTypeOK, Read

\* Only Put writes.
LEMMA Unwritten ==
    ASSUME Receive \/ Flush \/ Close \/ Fail \/ Connection \/ Killed \/ Task \/ Lost
             \/ \E g \in Sides : ReadBuffer(g) \/ Read(g)
    PROVE  written' = written
  <1>1. CASE \E g \in Sides : ReadBuffer(g) \/ Read(g)
    BY <1>1 DEF ReadBuffer, Read, history
  <1>2. CASE Receive \/ Flush \/ Close \/ Fail
    <2>1. Start \/ WriteBuffer \/ SendFinished \/ Raise
      BY <1>2 DEF Receive, Flush, Close, Fail
    <2> QED  BY <2>1 DEF Start, WriteBuffer, SendFinished, Raise, history
  <1>3. CASE Connection
    BY <1>3 DEF Connection, BufferRead, Confirmed, SendFinishedAgain, history
  <1>4. CASE Killed \/ Lost
    BY <1>4 DEF Killed, Lost, Die, Vanish, history
  <1>5. CASE Task
    BY <1>5 DEF Task, TaskStep, Serve, ServeNone, Collect, Conclude, SeeDeath, history
  <1> QED  BY <1>1, <1>2, <1>3, <1>4, <1>5

\* The steps that leave the function and its iterators as they are.
LEMMA Leaves ==
    ASSUME Fail \/ Close \/ Connection \/ Killed \/ Task \/ Lost
    PROVE  UNCHANGED workVars
  BY DEF Fail, Close, Connection, Killed, Task, Lost

LEMMA FunctionStep ==
    ASSUME OfFunction, [Next]_vars
    PROVE  OfFunction'
  <1> USE DEF OfFunction, Places, Matches
  <1>1. CASE UNCHANGED vars
    BY <1>1 DEF vars, workVars
  <1>2. CASE Fail \/ Close \/ Connection \/ Killed \/ Task \/ Lost
    BY <1>2, Leaves DEF workVars
  <1>3. CASE Receive
    BY <1>3 DEF Receive
  <1>4. CASE FetchEach \/ FetchAny
    BY <1>4 DEF FetchEach, FetchAny
  <1>5. CASE Return \/ Drained
    BY <1>5 DEF Return, Drained
  <1>6. CASE Group
    BY <1>6 DEF Group
  <1>7. CASE CoGroup
    BY <1>7 DEF CoGroup
  <1>8. CASE EachDone \/ Put \/ Flush
    BY <1>8 DEF EachDone, Put, Flush
  <1>9. ASSUME NEW g \in Sides, Ask(g) \/ FetchFirst(g) \/ FetchGrouped(g) \/ TakeLast(g)
        PROVE  OfFunction'
    BY <1>9 DEF Ask, FetchFirst, FetchGrouped, TakeLast
  <1> QED  BY <1>1, <1>2, <1>3, <1>4, <1>5, <1>6, <1>7, <1>8, <1>9 DEF Next, Works

\* Whose turn it is: a group is begun on a side that has an element.
LEMMA CoGroupIterators ==
    ASSUME OfIterators, CoGroup
    PROVE  OfIterators'
  <1>1. PICK begins \in SUBSET Sides :
          /\ iters' = [g \in Sides |-> IF g \in begins THEN NextGroup(iters[g]) ELSE iters[g]]
          /\ \A g \in begins : HasGroup(g)
    <2> DEFINE over(g)  == match = IF g = 1 THEN "FIRST_EMPTY" ELSE "SECOND_EMPTY"
               empty(g) == over(g) \/ ~(Kept(g) \/ HasGroup(g))
               now == {g \in Sides : ~(Kept(g) \/ empty(g))}
    <2>1. iters' = [g \in Sides |-> IF Kept(g) \/ empty(g) THEN iters[g] ELSE NextGroup(iters[g])]
      BY DEF CoGroup
    <2>2. \A g \in Sides : (IF Kept(g) \/ empty(g) THEN iters[g] ELSE NextGroup(iters[g]))
                             = IF g \in now THEN NextGroup(iters[g]) ELSE iters[g]
      OBVIOUS
    <2>3. \A g \in now : HasGroup(g)
      OBVIOUS
    <2>4. iters' = [g \in Sides |-> IF g \in now THEN NextGroup(iters[g]) ELSE iters[g]]
      BY <2>1, <2>2
    <2> QED  BY <2>3, <2>4
  <1>2. ASSUME NEW g \in Sides PROVE Sound(iters'[g])
    <2>1. CASE g \in begins
      <3>1. Sound(iters[g]) /\ iters[g].cur # <<>>
        BY <1>1, <2>1 DEF OfIterators, HasGroup
      <3> QED  BY <1>1, <2>1, <3>1, NextBegan
    <2>2. CASE g \notin begins
      BY <1>1, <2>2 DEF OfIterators
    <2> QED  BY <2>1, <2>2
  <1>3. DOMAIN iters' = Sides /\ iters' = [g \in Sides |-> iters'[g]]
    BY <1>1
  <1> QED  BY <1>2, <1>3 DEF OfIterators, Sound

LEMMA IteratorStep ==
    ASSUME ConnTypeOK, OfIterators, [Next]_vars
    PROVE  OfIterators'
  <1>1. CASE UNCHANGED iters
    BY <1>1 DEF OfIterators, Sound
  <1>2. CASE Group
    <2>1. CASE HasGroup(1)
      <3>1. Sound(iters[1]) /\ iters[1].cur # <<>> /\ 1 \in Sides
        BY <2>1 DEF OfIterators, HasGroup, Sides
      <3>2. iters' = [iters EXCEPT ![1] = NextGroup(iters[1])]
        BY <1>2, <2>1 DEF Group
      <3> QED  BY <3>1, <3>2, NextBegan, Replaced
    <2>2. CASE ~HasGroup(1)
      BY <1>1, <1>2, <2>2 DEF Group
    <2> QED  BY <2>1, <2>2
  <1>3. CASE CoGroup
    BY <1>3, CoGroupIterators
  <1>4. ASSUME NEW g \in Sides, FetchFirst(g) PROVE OfIterators'
    <2>1. Read(g)
      BY <1>4 DEF FetchFirst
    <2>2. PICK e \in Elements : e = Head(input[g])
      BY <2>1, ReadElement
    <2>3. iters' = [iters EXCEPT ![g] = [cur |-> <<e>>, key |-> e.key, empty |-> FALSE]]
      BY <1>4, <2>2 DEF FetchFirst
    <2> QED  BY <2>3, Began, Replaced
  <1>5. ASSUME NEW g \in Sides, FetchGrouped(g) PROVE OfIterators'
    <2>1. Read(g) /\ Sound(iters[g])
      BY <1>5 DEF FetchGrouped, OfIterators
    <2>2. PICK e \in Elements : e = Head(input[g])
      BY <2>1, ReadElement
    <2>3. iters' = [iters EXCEPT ![g] = Move(iters[g], e)]
      BY <1>5, <2>2 DEF FetchGrouped
    <2>4. Sound(Move(iters[g], e))
      BY <2>1, MovedOn
    <2> QED  BY <2>3, <2>4, Replaced
  <1>6. ASSUME NEW g \in Sides, TakeLast(g) PROVE OfIterators'
    <2>1. iters' = [iters EXCEPT ![g] = MoveToEnd(iters[g])] /\ Sound(iters[g])
      BY <1>6 DEF TakeLast, OfIterators
    <2> QED  BY <2>1, MovedToEnd, Replaced
  <1>7. CASE UNCHANGED vars
    BY <1>1, <1>7 DEF vars, workVars
  <1>8. CASE Fail \/ Close \/ Connection \/ Killed \/ Task \/ Lost
    BY <1>1, <1>8, Leaves DEF workVars
  <1>9. CASE Receive \/ FetchEach \/ FetchAny \/ Return \/ Drained \/ EachDone \/ Put \/ Flush
              \/ \E g \in Sides : Ask(g)
    BY <1>1, <1>9 DEF Receive, FetchEach, FetchAny, Return, Drained, EachDone, Put, Flush, Ask
  <1> QED  BY <1>2, <1>3, <1>4, <1>5, <1>6, <1>7, <1>8, <1>9 DEF Next, Works

LEMMA SerializerStep ==
    ASSUME OfSerializer, [Next]_vars
    PROVE  OfSerializer'
  <1>1. CASE written' = written /\ ser' = ser
    BY <1>1 DEF OfSerializer
  <1>2. CASE Put \/ Flush
    <2>1. ser' = <<Serializer(Head(pend))>>
      BY <1>2 DEF Put, Flush, Bind
    <2> QED  BY <2>1 DEF OfSerializer
  <1>3. CASE Return \/ Drained \/ Group \/ CoGroup \/ EachDone \/ \E g \in Sides : TakeLast(g)
    <2>1. written' = written
      BY <1>3, Inside DEF connVars, history
    <2>2. ser' = ser
      BY <1>3 DEF Return, Drained, Group, CoGroup, EachDone, TakeLast
    <2> QED  BY <1>1, <2>1, <2>2
  <1>4. CASE Fail \/ Close \/ Connection \/ Killed \/ Task \/ Lost
    BY <1>1, <1>4, Leaves, Unwritten DEF workVars
  <1>5. CASE Receive
    <2>1. ser' = ser
      BY <1>5 DEF Receive
    <2> QED  BY <1>1, <1>5, <2>1, Unwritten
  <1>6. CASE FetchEach \/ FetchAny
    <2>1. Read(1) /\ ser' = ser /\ 1 \in Sides
      BY <1>6 DEF FetchEach, FetchAny, Sides
    <2> QED  BY <1>1, <2>1, Unwritten
  <1>7. ASSUME NEW g \in Sides, Ask(g) \/ FetchFirst(g) \/ FetchGrouped(g) PROVE OfSerializer'
    <2>1. (ReadBuffer(g) \/ Read(g)) /\ ser' = ser
      BY <1>7 DEF Ask, FetchFirst, FetchGrouped
    <2> QED  BY <1>1, <2>1, Unwritten
  <1>8. CASE UNCHANGED vars
    BY <1>1, <1>8 DEF vars, workVars, connVars, history
  <1> QED  BY <1>2, <1>3, <1>4, <1>5, <1>6, <1>7, <1>8 DEF Next, Works

LEMMA WorkStep == ConnTypeOK /\ WorkTypes /\ [Next]_vars => WorkTypes'
  BY FunctionStep, IteratorStep, SerializerStep DEF WorkTypes

LEMMA TypesMeet == ConnTypeOK /\ WorkTypes /\ Serializes => TypeOK
  <1> SUFFICES ASSUME ConnTypeOK, WorkTypes, Serializes PROVE TypeOK
    OBVIOUS
  <1>1. \A g \in Sides : /\ Len(iters[g].cur) <= 1
                         /\ iters[g].cur = <<>> /\ iters[g].key # <<>> => iters[g].empty
    BY DEF WorkTypes, OfIterators, Sound
  <1>2. OfFunction /\ OfSerializer
    BY DEF WorkTypes
  <1> QED  BY <1>1, <1>2 DEF TypeOK, OfFunction, OfSerializer, Places, Matches

-----------------------------------------------------------------------------
(* The theorems.                                                           *)

\* The process of any function implements the connection: it asks, reads, writes,
\* flushes and ends only as PyConnection's process may.
THEOREM WorkerImplementsConnection == Spec /\ []Serializes => ConnSpec
  BY WorkerInit, WorkerStep, PTL DEF Spec, ConnSpec

\* Types: an iterator without an element never takes its group for unfinished, so
\* none is asked for the key of what it does not hold, and nothing is written before
\* the serializer is made.
THEOREM WorkerTypes == Spec /\ []Serializes => []TypeOK
  BY WorkerImplementsConnection, ConnectionTypes, WorkInit, WorkStep, TypesMeet, PTL DEF Spec

\* So no function, chain or iterator loses, repeats or reorders a message it wrote.
THEOREM WorkerLosesNothing == Spec /\ []Serializes => []NothingLost
  BY WorkerImplementsConnection, ConnectionLosesNothing, PTL

\* None skips an element, or is told of the end before it.
THEOREM WorkerSkipsNothing == Spec /\ []Serializes => []NothingSkipped
  BY WorkerImplementsConnection, ConnectionSkipsNothing, PTL

\* A task that takes its process for finished has all results the process wrote.
THEOREM WorkerIsComplete == Spec /\ []Serializes => []DoneHasAll
  BY WorkerImplementsConnection, DoneIsComplete, PTL

\* Both files are handed over, never shared.
THEOREM WorkerHandsOver == Spec /\ []Serializes => FilesHandedOver
  BY WorkerImplementsConnection, FilesAreHandedOver, PTL
=============================================================================
