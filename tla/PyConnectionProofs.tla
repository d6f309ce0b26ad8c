------------------------- MODULE PyConnectionProofs -------------------------
(***************************************************************************)
(* What the two files and the socket guarantee for any elements, messages  *)
(* and file size, whatever the function does and wherever a side stops:    *)
(* the types, that no message is lost, repeated or reordered, that no      *)
(* element is, that a task that is done has all, and that no file is       *)
(* written while the other side is to read it.                             *)
(***************************************************************************)
EXTENDS PyConnection, TLAPS, SequenceTheorems

\* One signal, or one answer, is under way at a time but for the end, which is
\* signalled twice; what is under way says where both sides are.
Shape ==
    /\ toJava \in {<<>>, <<Request(asked)>>, <<Filled>>, <<Finished>>,
                   Append(<<Finished>>, Finished), <<Error>>}
    /\ toPy \in {<<>>, <<Ack>>, <<Meta(Len(mapIn), rest[asked] = <<>>)>>}
    /\ toJava # <<>> => toPy = <<>>
    /\ toJava = <<Request(asked)>> => py \in {"recv", "dead"}
    /\ toJava = <<Filled>> => py \in {"ack", "dead"}
    /\ toJava = <<Finished>> => py \in {"closing", "ended", "failed", "dead"}
    /\ toJava = Append(<<Finished>>, Finished) => py = "ended"
    /\ toJava = <<Error>> => py = "failed"
    /\ toPy = <<Ack>> => py \in {"ack", "dead"}
    /\ toPy # <<>> /\ toPy # <<Ack>> => py \in {"recv", "dead"}

\* Nothing is left behind at the end.
AtEnd ==
    /\ py \in {"closing", "ended"} \/ toJava = <<Finished>> => out = <<>>
    /\ java = "done" => /\ py \in {"closing", "ended", "failed", "dead"}
                        /\ out = <<>> /\ got = written

\* A buffer is asked for when none is left.
AskedEmpty == py = "recv" => input[asked] = <<>>

ConnInv == ConnTypeOK /\ Shape /\ AtEnd /\ AskedEmpty /\ NothingLost /\ NothingSkipped

-----------------------------------------------------------------------------
(* Sequences.                                                              *)

LEMMA Single ==
    ASSUME NEW e
    PROVE  /\ Append(<<>>, e) = <<e>> /\ <<e>> # <<>>
           /\ Head(<<e>>) = e /\ Tail(<<e>>) = <<>>
  OBVIOUS

LEMMA Pair ==
    ASSUME NEW e
    PROVE  /\ Append(<<e>>, e) # <<>> /\ Append(<<e>>, e) # <<e>>
           /\ Head(Append(<<e>>, e)) = e /\ Tail(Append(<<e>>, e)) = <<e>>
  <1>1. /\ <<e>> \in Seq({e}) /\ Len(<<e>>) = 1 /\ <<e>> # <<>>
        /\ Head(<<e>>) = e /\ Tail(<<e>>) = <<>>
    OBVIOUS
  <1>2. Len(Append(<<e>>, e)) = 2 /\ Append(<<e>>, e) # <<>>
    BY <1>1, AppendProperties
  <1>3. Head(Append(<<e>>, e)) = e /\ Tail(Append(<<e>>, e)) = Append(<<>>, e)
    BY <1>1, HeadTailAppend
  <1> QED  BY <1>1, <1>2, <1>3

\* The signals and answers are told apart.
LEMMA Distinct ==
    /\ \A g : Request(g) # Filled /\ Request(g) # Finished /\ Request(g) # Error
    /\ Filled # Finished /\ Filled # Error /\ Finished # Error
    /\ \A k, b : Meta(k, b) # Ack
  BY DEF Request, Filled, Finished, Error, Meta, Ack

\* A sequence is its first elements and the others.
LEMMA Split ==
    ASSUME NEW S, NEW s \in Seq(S), NEW k \in 1 .. Len(s)
    PROVE  /\ SubSeq(s, 1, k) \in Seq(S) /\ SubSeq(s, k + 1, Len(s)) \in Seq(S)
           /\ Len(SubSeq(s, 1, k)) = k
           /\ SubSeq(s, k + 1, Len(s)) = <<>> <=> k = Len(s)
           /\ SubSeq(s, 1, k) \o SubSeq(s, k + 1, Len(s)) = s
  <1>1. \A i \in 1 .. Len(s) : s[i] \in S
    BY ElementOfSeq
  <1>2. SubSeq(s, 1, k) \in Seq(S) /\ Len(SubSeq(s, 1, k)) = k
    BY <1>1, SubSeqProperties, LenProperties
  <1>3. /\ SubSeq(s, k + 1, Len(s)) \in Seq(S)
        /\ Len(SubSeq(s, k + 1, Len(s))) = Len(s) - k
    BY <1>1, SubSeqProperties, LenProperties
  <1>4. SubSeq(s, k + 1, Len(s)) = <<>> <=> k = Len(s)
    <2>1. Len(s) \in Nat /\ (k = Len(s) <=> Len(SubSeq(s, k + 1, Len(s))) = 0)
      BY <1>3, LenProperties
    <2>2. ASSUME NEW u \in Seq(S) PROVE u = <<>> <=> Len(u) = 0
      BY EmptySeq
    <2> QED  BY <1>3, <2>1, <2>2
  <1>5. SubSeq(s, 1, k) \o SubSeq(s, k + 1, Len(s)) = SubSeq(s, 1, Len(s))
    BY ConcatAdjacentSubSeq, LenProperties
  <1> QED  BY <1>2, <1>3, <1>4, <1>5, SubSeqFull

\* Three sequences, joined in either order.
LEMMA Reassociate ==
  ASSUME NEW S, NEW c \in Seq(S), NEW a \in Seq(S), NEW b \in Seq(S)
  PROVE  (c \o a) \o b = c \o (a \o b)
  BY ConcatAssociative

\* Moving the first element of u to the end of s keeps s \o u.
LEMMA Moved ==
    ASSUME NEW S, NEW s \in Seq(S), NEW u \in Seq(S), u # <<>>
    PROVE  Append(s, Head(u)) \o Tail(u) = s \o u
  <1>1. Head(u) \in S /\ Tail(u) \in Seq(S)
    BY HeadTailProperties
  <1>2. Append(s, Head(u)) = s \o <<Head(u)>>
    BY <1>1, AppendIsConcat
  <1>3. <<Head(u)>> \in Seq(S)
    BY <1>1
  <1>4. (s \o <<Head(u)>>) \o Tail(u) = s \o (<<Head(u)>> \o Tail(u))
    BY <1>1, <1>3, ConcatAssociative
  <1>5. <<Head(u)>> \o Tail(u) = u
    BY <1>1
  <1> QED  BY <1>2, <1>4, <1>5

-----------------------------------------------------------------------------
(* Types.                                                                  *)

LEMMA SignalsAnswers ==
    /\ \A g \in Sides : Request(g) \in Signals
    /\ Filled \in Signals /\ Finished \in Signals /\ Error \in Signals
    /\ \A k \in Nat, b \in BOOLEAN : Meta(k, b) \in Answers
    /\ Ack \in Answers
  BY DEF Signals, Answers, Request, Filled, Finished, Error, Meta, Ack

LEMMA InitInv == ConnInit => ConnInv
  <1> SUFFICES ASSUME ConnInit PROVE ConnInv
    OBVIOUS
  <1>1. ConnTypeOK
    BY EmptySeq DEF ConnInit, Fresh, ConnTypeOK, Sides, Running
  <1>2. Shape /\ AtEnd /\ AskedEmpty
    BY Single, Pair DEF ConnInit, Fresh, Shape, AtEnd, AskedEmpty
  <1>3. NothingLost
    BY ConcatEmptySeq, EmptySeq DEF ConnInit, Fresh, NothingLost, FlyingOut
  <1>4. NothingSkipped
    <2> SUFFICES ASSUME NEW g \in Sides
                 PROVE  sent[g] = ((taken[g] \o input[g]) \o FlyingIn(g)) \o rest[g] /\ ~wasLast[g]
      BY DEF NothingSkipped
    <2>1. taken[g] = <<>> /\ input[g] = <<>> /\ FlyingIn(g) = <<>> /\ sent[g] = rest[g] /\ ~wasLast[g]
      BY DEF ConnInit, Fresh, FlyingIn
    <2>2. rest[g] \in Seq(Elements) /\ <<>> \in Seq(Elements)
      BY EmptySeq DEF ConnInit
    <2> QED  BY <2>1, <2>2, ConcatEmptySeq
  <1> QED  BY <1>1, <1>2, <1>3, <1>4 DEF ConnInv

LEMMA TypeStep == ConnTypeOK /\ Shape /\ [ConnNext]_connVars => ConnTypeOK'
  <1> SUFFICES ASSUME ConnTypeOK, Shape, [ConnNext]_connVars PROVE ConnTypeOK'
    OBVIOUS
  <1> USE SignalsAnswers
  <1> USE DEF ConnTypeOK
  <1>1. CASE Start
    BY <1>1 DEF Start, javaVars, history, Running
  <1>2. CASE BufferRead
    <2>1. toPy = <<Meta(Len(mapIn), rest[asked] = <<>>)>>
      BY <1>2, Distinct DEF BufferRead, Shape
    <2>2. /\ Head(toPy).n = Len(mapIn) /\ Head(toPy).last = (rest[asked] = <<>>)
          /\ Tail(toPy) = <<>>
      BY <2>1 DEF Meta
    <2>3. SubSeq(mapIn, 1, Head(toPy).n) = mapIn
      BY <2>2, SubSeqFull
    <2>4. toPy' \in Seq(Answers)
      BY <1>2, <2>2, EmptySeq DEF BufferRead
    <2>5. (rest[asked] = <<>>) \in BOOLEAN
      OBVIOUS
    <2>6. wasLast' \in [Sides -> BOOLEAN]
      BY <1>2, <2>2, <2>5 DEF BufferRead
    <2> QED  BY <1>2, <2>3, <2>4, <2>6 DEF BufferRead, history, Running
  <1>3. CASE WriteBuffer
    BY <1>3, EmptySeq, AppendProperties DEF WriteBuffer, javaVars, history, Running
  <1>4. CASE Confirmed
    BY <1>4, HeadTailProperties DEF Confirmed, history, Running
  <1>5. CASE SendFinished
    BY <1>5, AppendProperties DEF SendFinished, javaVars, history, Running
  <1>6. CASE SendFinishedAgain
    <2>1. toJava' \in Seq(Signals)
      <3>1. Append(toJava, Finished) \in Seq(Signals)
        BY AppendProperties
      <3> QED  BY <1>6, <3>1 DEF SendFinishedAgain
    <2>2. py' \in {"ended", "failed"}
      BY <1>6 DEF SendFinishedAgain
    <2> QED  BY <1>6, <2>1, <2>2 DEF SendFinishedAgain, javaVars, history
  <1>7. CASE Raise
    BY <1>7, AppendProperties DEF Raise, javaVars, history, Running
  <1>8. CASE Die
    BY <1>8 DEF Die, javaVars, history, Running
  <1>9. ASSUME NEW g \in Sides, ReadBuffer(g) PROVE ConnTypeOK'
    BY <1>9, AppendProperties DEF ReadBuffer, javaVars, history, Running
  <1>10. ASSUME NEW g \in Sides, Read(g) PROVE ConnTypeOK'
    <2>1. Head(input[g]) \in Elements /\ Tail(input[g]) \in Seq(Elements)
      BY <1>10, HeadTailProperties DEF Read
    <2> QED  BY <1>10, <2>1, AppendProperties DEF Read, javaVars, Running
  <1>11. ASSUME NEW m \in Messages, Write(m) PROVE ConnTypeOK'
    BY <1>11, AppendProperties DEF Write, javaVars, Running
  <1>12. CASE Serve
    <2>1. Head(toJava) \in Signals /\ Tail(toJava) \in Seq(Signals)
      BY <1>12, HeadTailProperties DEF Serve
    <2>2. Head(toJava).n \in Sides
      BY <1>12, <2>1 DEF Serve, Signals, Filled, Finished, Error
    <2>3. PICK k \in 1 .. Len(rest[Head(toJava).n]) :
            LET g == Head(toJava).n IN
              /\ mapIn' = SubSeq(rest[g], 1, k)
              /\ rest' = [rest EXCEPT ![g] = SubSeq(@, k + 1, Len(@))]
              /\ toPy' = Append(toPy, Meta(k, k = Len(rest[g])))
      BY <1>12 DEF Serve
    <2>4. rest[Head(toJava).n] \in Seq(Elements) /\ k \in Nat
      BY <2>2
    <2>5. /\ SubSeq(rest[Head(toJava).n], 1, k) \in Seq(Elements)
          /\ SubSeq(rest[Head(toJava).n], k + 1, Len(rest[Head(toJava).n])) \in Seq(Elements)
      BY <2>4, Split
    <2>6. rest' \in [Sides -> Seq(Elements)] /\ mapIn' \in Seq(Elements)
      BY <2>2, <2>3, <2>5
    <2>7. toPy' \in Seq(Answers)
      BY <2>3, <2>4, AppendProperties
    <2> QED  BY <1>12, <2>1, <2>6, <2>7 DEF Serve, pyVars, history, Running
  <1>13. CASE ServeNone
    <2>1. toJava' \in Seq(Signals)
      BY <1>13, HeadTailProperties DEF ServeNone
    <2>2. toPy' \in Seq(Answers) /\ mapIn' \in Seq(Elements)
      <3>1. CASE mapIn' = <<>> /\ toPy' = Append(toPy, Meta(0, TRUE))
        BY <3>1, AppendProperties, EmptySeq
      <3>2. CASE UNCHANGED <<mapIn, toPy>>
        BY <3>2
      <3> QED  BY <1>13, <3>1, <3>2 DEF ServeNone
    <2> QED  BY <1>13, <2>1, <2>2 DEF ServeNone, pyVars, history, Running
  <1>14. CASE Collect
    BY <1>14, HeadTailProperties, AppendProperties, ConcatProperties DEF Collect, pyVars, history, Running
  <1>15. CASE Conclude
    BY <1>15, HeadTailProperties DEF Conclude, pyVars, history, Running
  <1>16. CASE SeeDeath
    BY <1>16 DEF SeeDeath, pyVars, history, Running
  <1>17. CASE Vanish
    BY <1>17 DEF Vanish, pyVars, history, Running
  <1>18. CASE UNCHANGED connVars
    BY <1>18 DEF connVars, javaVars, pyVars, history, Running
  <1> QED
    BY <1>1, <1>2, <1>3, <1>4, <1>5, <1>6, <1>7, <1>8, <1>9, <1>10, <1>11, <1>12, <1>13,
       <1>14, <1>15, <1>16, <1>17, <1>18 DEF ConnNext, TaskStep

-----------------------------------------------------------------------------
(* What is under way.                                                      *)

\* A running function has no signal and no answer under way.
LEMMA Quiet ==
    ASSUME Shape, py \in {"boot", "run"}
    PROVE  toJava = <<>> /\ toPy = <<>>
  BY DEF Shape

\* A process that waits for a buffer finds its answer or nothing.
LEMMA Answered ==
    ASSUME Shape, py = "recv", toPy # <<>>
    PROVE  toPy = <<Meta(Len(mapIn), rest[asked] = <<>>)>> /\ toJava = <<>>
  BY Distinct DEF Shape

LEMMA Requested ==
    ASSUME Shape, toJava # <<>>, Head(toJava).sig = "request"
    PROVE  toJava = <<Request(asked)>> /\ toPy = <<>> /\ py \in {"recv", "dead"}
  <1>1. /\ Filled.sig # "request" /\ Finished.sig # "request" /\ Error.sig # "request"
    BY DEF Filled, Finished, Error
  <1>2. /\ toJava # <<Filled>> /\ toJava # <<Finished>> /\ toJava # <<Error>>
        /\ toJava # Append(<<Finished>>, Finished)
    BY <1>1, Single, Pair
  <1> QED  BY <1>2 DEF Shape

LEMMA FilledOnly ==
    ASSUME Shape, toJava # <<>>, Head(toJava) = Filled
    PROVE  toJava = <<Filled>> /\ toPy = <<>> /\ py \in {"ack", "dead"}
  <1>1. /\ toJava # <<Request(asked)>> /\ toJava # <<Finished>> /\ toJava # <<Error>>
        /\ toJava # Append(<<Finished>>, Finished)
    BY Single, Pair, Distinct
  <1> QED  BY <1>1 DEF Shape

LEMMA ShapeStep == ConnTypeOK /\ Shape /\ [ConnNext]_connVars => Shape'
  <1> SUFFICES ASSUME ConnTypeOK, Shape, [ConnNext]_connVars PROVE Shape'
    OBVIOUS
  <1> USE Distinct
  <1>1. CASE Start
    BY <1>1, Quiet DEF Start, javaVars, Shape
  <1>2. CASE BufferRead
    <2>1. toPy' = <<>> /\ toJava' = <<>> /\ py' = "run"
      BY <1>2, Answered, Single DEF BufferRead
    <2> QED  BY <2>1, Single, Pair DEF Shape
  <1>3. CASE WriteBuffer
    <2>1. toJava' = <<Filled>> /\ toPy' = <<>> /\ py' = "ack"
      BY <1>3, Quiet, Single DEF WriteBuffer, javaVars
    <2> QED  BY <2>1, Single, Pair DEF Shape
  <1>4. CASE Confirmed
    <2>1. toPy = <<Ack>> /\ toJava = <<>>
      BY <1>4 DEF Confirmed, Shape
    <2>2. toPy' = <<>> /\ toJava' = <<>> /\ py' = "run"
      BY <1>4, <2>1, Single DEF Confirmed
    <2> QED  BY <2>2, Single, Pair DEF Shape
  <1>5. CASE SendFinished
    <2>1. toJava' = <<Finished>> /\ toPy' = <<>> /\ py' = "closing"
      BY <1>5, Quiet, Single DEF SendFinished, javaVars
    <2> QED  BY <2>1, Single, Pair DEF Shape
  <1>6. CASE SendFinishedAgain
    <2>1. toJava \in {<<>>, <<Finished>>} /\ toPy = <<>> /\ toPy' = <<>>
      BY <1>6 DEF SendFinishedAgain, javaVars, Shape
    <2>2. CASE py' = "ended" /\ toJava' = Append(toJava, Finished)
      <3>1. toJava' = <<Finished>> \/ toJava' = Append(<<Finished>>, Finished)
        BY <2>1, <2>2, Single
      <3>2. toJava' # <<>> /\ toJava' # <<Filled>> /\ toJava' # <<Error>> /\ toJava' # <<Request(asked')>>
        BY <3>1, Single, Pair
      <3> QED  BY <2>1, <2>2, <3>1, <3>2 DEF Shape
    <2>3. CASE py' = "failed" /\ UNCHANGED toJava
      BY <2>1, <2>3, Single, Pair DEF Shape
    <2> QED  BY <1>6, <2>2, <2>3 DEF SendFinishedAgain
  <1>7. CASE Raise
    <2>1. toJava' = <<Error>> /\ toPy' = <<>> /\ py' = "failed"
      BY <1>7, Quiet, Single DEF Raise, javaVars
    <2> QED  BY <2>1, Single, Pair DEF Shape
  <1>8. CASE Die
    <2>1. py # "ended" /\ py # "failed"
      BY <1>8 DEF Die, Running
    <2>2. py' = "dead" /\ UNCHANGED <<toJava, toPy, mapIn, rest, asked>>
      BY <1>8 DEF Die, javaVars
    <2> QED  BY <2>1, <2>2, Single, Pair DEF Shape
  <1>9. ASSUME NEW g \in Sides, ReadBuffer(g) PROVE Shape'
    <2>1. toJava' = <<Request(g)>> /\ toPy' = <<>> /\ py' = "recv" /\ asked' = g
      BY <1>9, Quiet, Single DEF ReadBuffer, javaVars
    <2> QED  BY <2>1, Single, Pair DEF Shape
  <1>10. ASSUME NEW g \in Sides, Read(g) PROVE Shape'
    BY <1>10, Quiet, Single, Pair DEF Read, javaVars, Shape
  <1>11. ASSUME NEW m \in Messages, Write(m) PROVE Shape'
    BY <1>11, Quiet, Single, Pair DEF Write, javaVars, Shape
  <1>12. CASE Serve
    <2>1. toJava = <<Request(asked)>> /\ toPy = <<>> /\ py \in {"recv", "dead"}
      BY <1>12, Requested DEF Serve
    <2>2. Head(toJava).n = asked /\ toJava' = <<>>
      BY <1>12, <2>1, Single DEF Serve, Request
    <2>3. PICK k \in 1 .. Len(rest[asked]) :
            /\ mapIn' = SubSeq(rest[asked], 1, k)
            /\ rest' = [rest EXCEPT ![asked] = SubSeq(@, k + 1, Len(@))]
            /\ toPy' = Append(toPy, Meta(k, k = Len(rest[asked])))
      BY <1>12, <2>2 DEF Serve
    <2>4. rest[asked] \in Seq(Elements) /\ asked' = asked /\ py' = py
      BY <1>12 DEF ConnTypeOK, Serve, pyVars
    <2>5. Len(mapIn') = k /\ (rest'[asked] = <<>> <=> k = Len(rest[asked]))
      BY <2>3, <2>4, Split DEF ConnTypeOK
    <2>6. (k = Len(rest[asked])) = (rest'[asked] = <<>>)
      BY <2>5
    <2>7. toPy' = <<Meta(Len(mapIn'), rest'[asked'] = <<>>)>>
      BY <2>1, <2>3, <2>4, <2>5, <2>6, Single
    <2> QED  BY <2>1, <2>2, <2>4, <2>7, Single, Pair DEF Shape
  <1>13. CASE ServeNone
    <2>1. toJava = <<Request(asked)>> /\ toPy = <<>> /\ py \in {"recv", "dead"}
      BY <1>13, Requested DEF ServeNone
    <2>2. /\ Head(toJava).n = asked /\ rest[asked] = <<>> /\ toJava' = <<>>
          /\ rest' = rest /\ asked' = asked /\ py' = py
      BY <1>13, <2>1, Single DEF ServeNone, Request, pyVars
    <2>3. CASE mapIn' = <<>> /\ toPy' = Append(toPy, Meta(0, TRUE))
      <3>1. (rest'[asked'] = <<>>) = TRUE /\ Len(mapIn') = 0
        BY <2>2, <2>3
      <3>2. toPy' = <<Meta(Len(mapIn'), rest'[asked'] = <<>>)>>
        BY <2>1, <2>3, <3>1, Single
      <3> QED  BY <2>1, <2>2, <3>2, Single, Pair DEF Shape
    <2>4. CASE UNCHANGED <<mapIn, toPy>>
      BY <2>1, <2>2, <2>4, Single, Pair DEF Shape
    <2> QED  BY <1>13, <2>3, <2>4 DEF ServeNone
  <1>14. CASE Collect
    <2>1. toJava = <<Filled>> /\ toPy = <<>> /\ py \in {"ack", "dead"}
      BY <1>14, FilledOnly DEF Collect
    <2>2. toJava' = <<>> /\ toPy' = <<Ack>> /\ py' = py
      BY <1>14, <2>1, Single DEF Collect, pyVars
    <2> QED  BY <2>1, <2>2, Single, Pair DEF Shape
  <1>15. CASE Conclude
    <2>1. /\ toJava \in {<<Finished>>, Append(<<Finished>>, Finished), <<Error>>}
          /\ toPy = <<>>
      BY <1>15, Single DEF Conclude, Shape
    <2>2. toJava' \in {<<>>, <<Finished>>} /\ py' = py /\ toPy' = <<>>
      BY <1>15, <2>1, Single, Pair DEF Conclude, pyVars
    <2>3. toJava' = <<Finished>> => py = "ended"
      BY <1>15, <2>1, Single, Pair DEF Conclude, Shape
    <2> QED  BY <2>2, <2>3, Single, Pair DEF Shape
  <1>16. CASE SeeDeath
    BY <1>16 DEF SeeDeath, pyVars, Shape
  <1>17. CASE Vanish
    BY <1>17 DEF Vanish, pyVars, Shape
  <1>18. CASE UNCHANGED connVars
    BY <1>18 DEF connVars, javaVars, pyVars, Shape
  <1> QED
    BY <1>1, <1>2, <1>3, <1>4, <1>5, <1>6, <1>7, <1>8, <1>9, <1>10, <1>11, <1>12, <1>13,
       <1>14, <1>15, <1>16, <1>17, <1>18 DEF ConnNext, TaskStep

-----------------------------------------------------------------------------
(* The end.                                                                *)

LEMMA AtEndStep == Shape /\ AtEnd /\ NothingLost /\ ConnTypeOK /\ [ConnNext]_connVars => AtEnd'
  <1> SUFFICES ASSUME Shape, AtEnd, NothingLost, ConnTypeOK, [ConnNext]_connVars PROVE AtEnd'
    OBVIOUS
  <1> USE Distinct
  <1>1. CASE Start
    BY <1>1, Quiet, Single DEF Start, javaVars, history, AtEnd
  <1>2. CASE BufferRead
    BY <1>2, Answered, Single DEF BufferRead, history, AtEnd
  <1>3. CASE WriteBuffer
    BY <1>3, Quiet, Single DEF WriteBuffer, javaVars, history, AtEnd
  <1>4. CASE Confirmed
    <2>1. toJava' = <<>> /\ py' = "run" /\ java # "done" /\ java' = java
      BY <1>4 DEF Confirmed, Shape, AtEnd
    <2> QED  BY <2>1, Single DEF AtEnd
  <1>5. CASE SendFinished
    BY <1>5 DEF SendFinished, javaVars, history, AtEnd
  <1>6. CASE SendFinishedAgain
    BY <1>6 DEF SendFinishedAgain, javaVars, history, AtEnd
  <1>7. CASE Raise
    <2>1. toJava' = <<Error>> /\ py' = "failed" /\ java # "done" /\ java' = java
      BY <1>7, Quiet, Single DEF Raise, javaVars, AtEnd
    <2> QED  BY <2>1 DEF AtEnd
  <1>8. CASE Die
    BY <1>8 DEF Die, javaVars, history, AtEnd
  <1>9. ASSUME NEW g \in Sides, ReadBuffer(g) PROVE AtEnd'
    <2>1. toJava' = <<Request(g)>> /\ py' = "recv" /\ java # "done" /\ java' = java
      BY <1>9, Quiet, Single DEF ReadBuffer, javaVars, AtEnd
    <2> QED  BY <2>1 DEF AtEnd
  <1>10. ASSUME NEW g \in Sides, Read(g) PROVE AtEnd'
    BY <1>10, Quiet, Single DEF Read, javaVars, AtEnd
  <1>11. ASSUME NEW m \in Messages, Write(m) PROVE AtEnd'
    BY <1>11, Quiet, Single DEF Write, javaVars, AtEnd
  <1>12. CASE Serve
    <2>1. toJava' = <<>>
      BY <1>12, Requested, Single DEF Serve
    <2> QED  BY <1>12, <2>1, Single DEF Serve, pyVars, history, AtEnd
  <1>13. CASE ServeNone
    <2>1. toJava' = <<>>
      BY <1>13, Requested, Single DEF ServeNone
    <2> QED  BY <1>13, <2>1, Single DEF ServeNone, pyVars, history, AtEnd
  <1>14. CASE Collect
    <2>1. toJava' = <<>> /\ java # "done" /\ java' = java
      BY <1>14, FilledOnly, Single DEF Collect
    <2> QED  BY <1>14, <2>1, Single DEF Collect, pyVars, AtEnd
  <1>15. CASE Conclude
    <2>1. CASE Head(toJava) = Finished
      <3>1. toJava = <<Finished>> \/ toJava = Append(<<Finished>>, Finished)
        BY <1>15, <2>1, Single DEF Conclude, Shape
      <3>2. /\ py \in {"closing", "ended", "failed", "dead"} /\ out = <<>>
            /\ Head(toJava) # Filled
        BY <2>1, <3>1 DEF Shape, AtEnd
      <3>3. FlyingOut = <<>>
        BY <3>2 DEF FlyingOut
      <3>4. got = written
        BY <3>2, <3>3, ConcatEmptySeq DEF NothingLost, ConnTypeOK
      <3> QED  BY <1>15, <3>2, <3>4 DEF Conclude, pyVars, history, AtEnd
    <2>2. CASE Head(toJava) = Error
      <3>1. toJava' = <<>> /\ java' = "failed"
        BY <1>15, <2>2, Single, Pair DEF Conclude, Shape
      <3> QED  BY <1>15, <3>1, Single DEF Conclude, pyVars, history, AtEnd
    <2> QED  BY <1>15, <2>1, <2>2 DEF Conclude
  <1>16. CASE SeeDeath
    BY <1>16 DEF SeeDeath, pyVars, history, AtEnd
  <1>17. CASE Vanish
    BY <1>17 DEF Vanish, pyVars, history, AtEnd
  <1>18. CASE UNCHANGED connVars
    BY <1>18 DEF connVars, javaVars, pyVars, history, AtEnd
  <1> QED
    BY <1>1, <1>2, <1>3, <1>4, <1>5, <1>6, <1>7, <1>8, <1>9, <1>10, <1>11, <1>12, <1>13,
       <1>14, <1>15, <1>16, <1>17, <1>18 DEF ConnNext, TaskStep

-----------------------------------------------------------------------------
(* What is written.                                                        *)

\* A step that leaves written, got, mapOut and out alone, and no filled buffer
\* under way before or after, keeps all messages where they are.
LEMMA OutAlone ==
    ASSUME NothingLost, UNCHANGED <<written, got, out>>, FlyingOut' = FlyingOut
    PROVE  NothingLost'
  BY DEF NothingLost

LEMMA LostStep == ConnTypeOK /\ Shape /\ NothingLost /\ [ConnNext]_connVars => NothingLost'
  <1> SUFFICES ASSUME ConnTypeOK, Shape, NothingLost, [ConnNext]_connVars PROVE NothingLost'
    OBVIOUS
  <1> USE Distinct
  <1>1. CASE Start
    BY <1>1, OutAlone DEF Start, javaVars, history, FlyingOut
  <1>2. CASE BufferRead
    BY <1>2, OutAlone DEF BufferRead, history, FlyingOut
  <1>3. CASE WriteBuffer
    <2>1. toJava = <<>> /\ toJava' = <<Filled>>
      BY <1>3, Quiet, Single DEF WriteBuffer
    <2>2. FlyingOut = <<>> /\ FlyingOut' = out /\ out' = <<>>
      BY <1>3, <2>1, Single DEF FlyingOut, WriteBuffer
    <2>3. got \in Seq(Messages) /\ out \in Seq(Messages) /\ got \o out \in Seq(Messages)
      BY ConcatProperties DEF ConnTypeOK
    <2>4. written = got \o out
      BY <2>2, <2>3, ConcatEmptySeq DEF NothingLost
    <2>5. (got \o out) \o <<>> = got \o out
      BY <2>3, ConcatEmptySeq
    <2>6. written' = written /\ got' = got
      BY <1>3 DEF WriteBuffer, javaVars, history
    <2> QED  BY <2>2, <2>4, <2>5, <2>6 DEF NothingLost
  <1>4. CASE Confirmed
    BY <1>4, OutAlone DEF Confirmed, history, FlyingOut
  <1>5. CASE SendFinished
    <2>1. toJava = <<>> /\ toJava' = <<Finished>>
      BY <1>5, Quiet, Single DEF SendFinished
    <2> QED  BY <1>5, <2>1, OutAlone, Single DEF SendFinished, javaVars, history, FlyingOut
  <1>6. CASE SendFinishedAgain
    <2>1. toJava \in {<<>>, <<Finished>>}
      BY <1>6 DEF SendFinishedAgain, Shape
    <2>2. toJava' \in {<<>>, <<Finished>>, Append(<<Finished>>, Finished)}
      BY <1>6, <2>1, Single DEF SendFinishedAgain
    <2>3. FlyingOut = <<>> /\ FlyingOut' = <<>>
      BY <2>1, <2>2, Single, Pair DEF FlyingOut
    <2> QED  BY <1>6, <2>3, OutAlone DEF SendFinishedAgain, javaVars, history
  <1>7. CASE Raise
    <2>1. toJava = <<>> /\ toJava' = <<Error>>
      BY <1>7, Quiet, Single DEF Raise
    <2> QED  BY <1>7, <2>1, OutAlone, Single DEF Raise, javaVars, history, FlyingOut
  <1>8. CASE Die
    BY <1>8, OutAlone DEF Die, javaVars, history, FlyingOut
  <1>9. ASSUME NEW g \in Sides, ReadBuffer(g) PROVE NothingLost'
    <2>1. toJava = <<>> /\ toJava' = <<Request(g)>>
      BY <1>9, Quiet, Single DEF ReadBuffer
    <2> QED  BY <1>9, <2>1, OutAlone, Single DEF ReadBuffer, javaVars, history, FlyingOut
  <1>10. ASSUME NEW g \in Sides, Read(g) PROVE NothingLost'
    BY <1>10, OutAlone DEF Read, javaVars, FlyingOut
  <1>11. ASSUME NEW m \in Messages, Write(m) PROVE NothingLost'
    <2>1. toJava = <<>> /\ UNCHANGED <<toJava, got>>
      BY <1>11, Quiet DEF Write, javaVars
    <2>2. FlyingOut = <<>> /\ FlyingOut' = <<>>
      BY <2>1 DEF FlyingOut
    <2>3. got \in Seq(Messages) /\ out \in Seq(Messages) /\ <<m>> \in Seq(Messages)
      BY DEF ConnTypeOK
    <2>4. written = got \o out
      BY <2>2, <2>3, ConcatEmptySeq DEF NothingLost
    <2>5. written' = (got \o out) \o <<m>> /\ out' = out \o <<m>>
      BY <1>11, <2>3, <2>4, AppendIsConcat, ConcatProperties DEF Write
    <2>6. (got \o out) \o <<m>> = got \o (out \o <<m>>)
      BY <2>3, ConcatAssociative
    <2>7. got \o <<>> = got
      BY <2>3, ConcatEmptySeq
    <2> QED  BY <2>1, <2>2, <2>5, <2>6, <2>7 DEF NothingLost
  <1>12. CASE Serve
    <2>1. toJava = <<Request(asked)>> /\ toJava' = <<>>
      BY <1>12, Requested, Single DEF Serve
    <2> QED  BY <1>12, <2>1, OutAlone, Single DEF Serve, pyVars, history, FlyingOut
  <1>13. CASE ServeNone
    <2>1. toJava = <<Request(asked)>> /\ toJava' = <<>>
      BY <1>13, Requested, Single DEF ServeNone
    <2> QED  BY <1>13, <2>1, OutAlone, Single DEF ServeNone, pyVars, history, FlyingOut
  <1>14. CASE Collect
    <2>1. toJava = <<Filled>> /\ toJava' = <<>>
      BY <1>14, FilledOnly, Single DEF Collect
    <2>2. FlyingOut = mapOut /\ FlyingOut' = <<>> /\ got' = got \o mapOut
      BY <1>14, <2>1, Single DEF Collect, FlyingOut
    <2>3. got \o mapOut \in Seq(Messages)
      BY ConcatProperties DEF ConnTypeOK
    <2>4. (got \o mapOut) \o <<>> = got \o mapOut
      BY <2>3, ConcatEmptySeq
    <2>5. written' = written /\ out' = out
      BY <1>14 DEF Collect, pyVars, history
    <2> QED  BY <2>2, <2>4, <2>5 DEF NothingLost
  <1>15. CASE Conclude
    <2>1. FlyingOut = <<>>
      BY <1>15 DEF Conclude, FlyingOut
    <2>2. toJava' \in {<<>>, <<Finished>>}
      BY <1>15, Single, Pair DEF Conclude, Shape
    <2>3. FlyingOut' = <<>>
      BY <2>2, Single DEF FlyingOut
    <2> QED  BY <1>15, <2>1, <2>3, OutAlone DEF Conclude, pyVars, history
  <1>16. CASE SeeDeath
    BY <1>16, OutAlone DEF SeeDeath, pyVars, history, FlyingOut
  <1>17. CASE Vanish
    BY <1>17, OutAlone DEF Vanish, pyVars, history, FlyingOut
  <1>18. CASE UNCHANGED connVars
    BY <1>18, OutAlone DEF connVars, javaVars, pyVars, history, FlyingOut
  <1> QED
    BY <1>1, <1>2, <1>3, <1>4, <1>5, <1>6, <1>7, <1>8, <1>9, <1>10, <1>11, <1>12, <1>13,
       <1>14, <1>15, <1>16, <1>17, <1>18 DEF ConnNext, TaskStep

-----------------------------------------------------------------------------
(* What is read.                                                           *)

\* No answer under way carries elements unless it describes the input file.
LEMMA NoElements ==
    ASSUME toPy = <<>> \/ toPy = <<Ack>>, NEW g \in Sides
    PROVE  FlyingIn(g) = <<>>
  BY Single DEF FlyingIn

LEMMA InAlone ==
    ASSUME NothingSkipped, UNCHANGED <<sent, taken, input, wasLast, rest>>,
           \A g \in Sides : FlyingIn(g)' = FlyingIn(g)
    PROVE  NothingSkipped'
  <1> SUFFICES ASSUME NEW g \in Sides
               PROVE  /\ sent'[g] = ((taken'[g] \o input'[g]) \o FlyingIn(g)') \o rest'[g]
                      /\ wasLast'[g] => FlyingIn(g)' = <<>> /\ rest'[g] = <<>>
    BY DEF NothingSkipped
  <1>1. FlyingIn(g)' = FlyingIn(g)
    OBVIOUS
  <1> QED  BY <1>1 DEF NothingSkipped

LEMMA AskedStep == ConnTypeOK /\ AskedEmpty /\ [ConnNext]_connVars => AskedEmpty'
  <1> SUFFICES ASSUME ConnTypeOK, AskedEmpty, [ConnNext]_connVars PROVE AskedEmpty'
    OBVIOUS
  <1> USE DEF AskedEmpty
  <1>1. CASE Start \/ BufferRead \/ WriteBuffer \/ Confirmed \/ SendFinished
             \/ SendFinishedAgain \/ Raise \/ Die
    BY <1>1 DEF Start, BufferRead, WriteBuffer, Confirmed, SendFinished, SendFinishedAgain,
                Raise, Die
  <1>2. ASSUME NEW g \in Sides, ReadBuffer(g) \/ Read(g) PROVE AskedEmpty'
    BY <1>2 DEF ReadBuffer, Read
  <1>3. ASSUME NEW m \in Messages, Write(m) PROVE AskedEmpty'
    BY <1>3 DEF Write
  <1>4. CASE TaskStep \/ Vanish
    BY <1>4 DEF TaskStep, Serve, ServeNone, Collect, Conclude, SeeDeath, Vanish, pyVars
  <1>5. CASE UNCHANGED connVars
    BY <1>5 DEF connVars, pyVars
  <1> QED  BY <1>1, <1>2, <1>3, <1>4, <1>5 DEF ConnNext

LEMMA SkippedStep ==
    ConnTypeOK /\ Shape /\ AskedEmpty /\ NothingSkipped /\ [ConnNext]_connVars => NothingSkipped'
  <1> SUFFICES ASSUME ConnTypeOK, Shape, AskedEmpty, NothingSkipped, [ConnNext]_connVars PROVE NothingSkipped'
    OBVIOUS
  <1> USE Distinct
  <1>1. CASE Start
    BY <1>1, InAlone DEF Start, javaVars, history, FlyingIn
  <1>2. CASE BufferRead
    <2>1. toPy = <<Meta(Len(mapIn), rest[asked] = <<>>)>>
      BY <1>2, Answered DEF BufferRead
    <2>2. /\ Head(toPy).n = Len(mapIn) /\ Head(toPy).last = (rest[asked] = <<>>)
          /\ Head(toPy) # Ack /\ toPy # <<>> /\ toPy' = <<>>
      BY <1>2, <2>1, Single DEF Meta, BufferRead
    <2>3. SubSeq(mapIn, 1, Head(toPy).n) = mapIn
      BY <2>2, SubSeqFull DEF ConnTypeOK
    <2>4. /\ input' = [input EXCEPT ![asked] = mapIn]
          /\ wasLast' = [wasLast EXCEPT ![asked] = (rest[asked] = <<>>)]
          /\ UNCHANGED <<sent, taken, rest, asked>>
      BY <1>2, <2>2, <2>3 DEF BufferRead, history
    <2> SUFFICES ASSUME NEW g \in Sides
                 PROVE  /\ sent[g] = ((taken[g] \o input'[g]) \o FlyingIn(g)') \o rest[g]
                        /\ wasLast'[g] => FlyingIn(g)' = <<>> /\ rest[g] = <<>>
      BY <2>4 DEF NothingSkipped
    <2>5. FlyingIn(g)' = <<>>
      BY <2>2 DEF FlyingIn
    <2>6. /\ taken[g] \in Seq(Elements) /\ input[g] \in Seq(Elements) /\ mapIn \in Seq(Elements)
          /\ taken[g] \o mapIn \in Seq(Elements) /\ taken[g] \o input[g] \in Seq(Elements)
      BY ConcatProperties DEF ConnTypeOK
    <2>7. CASE g = asked
      <3>1. FlyingIn(g) = mapIn /\ input[g] = <<>> /\ input'[g] = mapIn /\ wasLast'[g] = (rest[g] = <<>>)
        BY <1>2, <2>2, <2>4, <2>7 DEF FlyingIn, ConnTypeOK, AskedEmpty, BufferRead
      <3>2. (taken[g] \o input[g]) \o FlyingIn(g) = taken[g] \o mapIn
        BY <2>6, <3>1, ConcatEmptySeq
      <3>3. (taken[g] \o input'[g]) \o FlyingIn(g)' = taken[g] \o mapIn
        BY <2>5, <2>6, <3>1, ConcatEmptySeq
      <3> QED  BY <2>5, <3>1, <3>2, <3>3 DEF NothingSkipped
    <2>8. CASE g # asked
      <3>1. FlyingIn(g) = <<>> /\ input'[g] = input[g] /\ wasLast'[g] = wasLast[g]
        BY <2>4, <2>8 DEF FlyingIn, ConnTypeOK
      <3> QED  BY <2>5, <3>1 DEF NothingSkipped
    <2> QED  BY <2>7, <2>8
  <1>3. CASE WriteBuffer \/ SendFinished \/ SendFinishedAgain \/ Raise \/ Die
    BY <1>3, InAlone DEF WriteBuffer, SendFinished, SendFinishedAgain, Raise, Die, javaVars,
                         history, FlyingIn
  <1>4. CASE Confirmed
    <2>1. toPy = <<Ack>> /\ toPy' = <<>>
      BY <1>4, Single DEF Confirmed, Shape
    <2>2. \A g \in Sides : FlyingIn(g) = <<>> /\ FlyingIn(g)' = <<>>
      BY <2>1, Single DEF FlyingIn
    <2> QED  BY <1>4, <2>2, InAlone DEF Confirmed, history
  <1>5. ASSUME NEW h \in Sides, ReadBuffer(h) PROVE NothingSkipped'
    <2>1. toPy = <<>> /\ toPy' = <<>>
      BY <1>5, Quiet DEF ReadBuffer, javaVars
    <2>2. \A g \in Sides : FlyingIn(g) = <<>> /\ FlyingIn(g)' = <<>>
      BY <2>1 DEF FlyingIn
    <2> QED  BY <1>5, <2>2, InAlone DEF ReadBuffer, javaVars, history
  <1>6. ASSUME NEW h \in Sides, Read(h) PROVE NothingSkipped'
    <2> SUFFICES ASSUME NEW g \in Sides
                 PROVE  /\ sent'[g] = ((taken'[g] \o input'[g]) \o FlyingIn(g)') \o rest'[g]
                        /\ wasLast'[g] => FlyingIn(g)' = <<>> /\ rest'[g] = <<>>
      BY DEF NothingSkipped
    <2>1. UNCHANGED <<sent, rest, wasLast>> /\ FlyingIn(g)' = FlyingIn(g)
      BY <1>6 DEF Read, javaVars, FlyingIn
    <2>2. taken'[g] \o input'[g] = taken[g] \o input[g]
      <3>1. CASE g = h
        <4>1. /\ taken[g] \in Seq(Elements) /\ input[g] \in Seq(Elements) /\ input[g] # <<>>
              /\ taken'[g] = Append(taken[g], Head(input[g])) /\ input'[g] = Tail(input[g])
          BY <1>6, <3>1 DEF Read, ConnTypeOK
        <4> QED  BY <4>1, Moved
      <3>2. CASE g # h
        BY <1>6, <3>2 DEF Read, ConnTypeOK
      <3> QED  BY <3>1, <3>2
    <2> QED  BY <2>1, <2>2 DEF NothingSkipped
  <1>7. ASSUME NEW m \in Messages, Write(m) PROVE NothingSkipped'
    BY <1>7, InAlone DEF Write, javaVars, FlyingIn
  <1>8. CASE Serve
    <2>1. toJava = <<Request(asked)>> /\ toPy = <<>> /\ Head(toJava).n = asked
      BY <1>8, Requested, Single DEF Serve, Request
    <2>2. PICK k \in 1 .. Len(rest[asked]) :
            /\ mapIn' = SubSeq(rest[asked], 1, k)
            /\ rest' = [rest EXCEPT ![asked] = SubSeq(@, k + 1, Len(@))]
            /\ toPy' = Append(toPy, Meta(k, k = Len(rest[asked])))
      BY <1>8, <2>1 DEF Serve
    <2>3. rest[asked] # <<>> /\ UNCHANGED <<sent, taken, input, wasLast, asked>>
      BY <1>8, <2>1 DEF Serve, pyVars, history
    <2>4. toPy' # <<>> /\ Head(toPy') # Ack
      BY <2>1, <2>2, Single
    <2> SUFFICES ASSUME NEW g \in Sides
                 PROVE  /\ sent[g] = ((taken[g] \o input[g]) \o FlyingIn(g)') \o rest'[g]
                        /\ wasLast[g] => FlyingIn(g)' = <<>> /\ rest'[g] = <<>>
      BY <2>3 DEF NothingSkipped
    <2>5. FlyingIn(g) = <<>>
      BY <2>1 DEF FlyingIn
    <2>6. CASE g = asked
      <3>1. FlyingIn(g)' = SubSeq(rest[g], 1, k) /\ rest'[g] = SubSeq(rest[g], k + 1, Len(rest[g]))
        BY <2>2, <2>3, <2>4, <2>6 DEF FlyingIn, ConnTypeOK
      <3> DEFINE a == SubSeq(rest[g], 1, k)
                 b == SubSeq(rest[g], k + 1, Len(rest[g]))
      <3>2. a \in Seq(Elements) /\ b \in Seq(Elements) /\ a \o b = rest[g]
        <4>1. rest[g] \in Seq(Elements) /\ k \in 1 .. Len(rest[g])
          BY <2>2, <2>6 DEF ConnTypeOK
        <4> QED  BY <4>1, Split
      <3> HIDE DEF a, b
      <3>3. taken[g] \o input[g] \in Seq(Elements)
        BY ConcatProperties DEF ConnTypeOK
      <3>4. FlyingIn(g)' = a /\ rest'[g] = b
        BY <3>1 DEF a, b
      <3>5. sent[g] = (taken[g] \o input[g]) \o rest[g]
        BY <2>5, <3>3, ConcatEmptySeq DEF NothingSkipped
      <3>6. ((taken[g] \o input[g]) \o a) \o b = (taken[g] \o input[g]) \o (a \o b)
        <4> DEFINE c == taken[g] \o input[g]
        <4>1. c \in Seq(Elements)
          BY <3>3
        <4> HIDE DEF c
        <4>2. a \in Seq(Elements) /\ b \in Seq(Elements)
          BY <3>2
        <4>3. (c \o a) \o b = c \o (a \o b)
          BY <4>1, <4>2, Reassociate
        <4> QED  BY <4>3 DEF c
      <3>7. ~wasLast[g]
        BY <2>3, <2>6 DEF NothingSkipped
      <3> QED  BY <3>2, <3>5, <3>6, <3>7, <3>4
    <2>7. CASE g # asked
      <3>1. FlyingIn(g)' = <<>> /\ rest'[g] = rest[g]
        BY <2>2, <2>3, <2>7 DEF FlyingIn, ConnTypeOK
      <3> QED  BY <2>5, <3>1 DEF NothingSkipped
    <2> QED  BY <2>6, <2>7
  <1>9. CASE ServeNone
    <2>1. toJava = <<Request(asked)>> /\ toPy = <<>>
      BY <1>9, Requested, Single DEF ServeNone
    <2>2. UNCHANGED <<sent, taken, input, wasLast, asked, rest>>
      BY <1>9 DEF ServeNone, pyVars, history
    <2>3. mapIn' = <<>> \/ toPy' = <<>>
      BY <1>9, <2>1 DEF ServeNone
    <2>4. \A g \in Sides : FlyingIn(g) = <<>> /\ FlyingIn(g)' = <<>>
      BY <2>1, <2>3 DEF FlyingIn
    <2> QED  BY <2>2, <2>4, InAlone
  <1>10. CASE Collect
    <2>1. toPy = <<>> /\ toPy' = <<Ack>>
      BY <1>10, FilledOnly, Single DEF Collect
    <2>2. \A g \in Sides : FlyingIn(g) = <<>> /\ FlyingIn(g)' = <<>>
      BY <2>1, Single DEF FlyingIn
    <2> QED  BY <1>10, <2>2, InAlone DEF Collect, pyVars, history
  <1>11. CASE Conclude \/ SeeDeath \/ Vanish
    BY <1>11, InAlone DEF Conclude, SeeDeath, Vanish, pyVars, history, FlyingIn
  <1>12. CASE UNCHANGED connVars
    BY <1>12, InAlone DEF connVars, javaVars, pyVars, history, FlyingIn
  <1> QED
    BY <1>1, <1>2, <1>3, <1>4, <1>5, <1>6, <1>7, <1>8, <1>9, <1>10, <1>11, <1>12
    DEF ConnNext, TaskStep

-----------------------------------------------------------------------------
(* The theorems.                                                           *)

LEMMA InvStep == ConnInv /\ [ConnNext]_connVars => ConnInv'
  BY TypeStep, ShapeStep, AtEndStep, AskedStep, LostStep, SkippedStep DEF ConnInv

LEMMA InvAlways == ConnSpec => []ConnInv
  BY InitInv, InvStep, PTL DEF ConnSpec

\* The type invariant of both files, the socket and the two ends.
THEOREM ConnectionTypes == ConnSpec => []ConnTypeOK
  BY InvAlways, PTL DEF ConnInv

\* Every message written is collected, in the file or in _out, once and in order.
THEOREM ConnectionLosesNothing == ConnSpec => []NothingLost
  BY InvAlways, PTL DEF ConnInv

\* Every element is read, buffered, in the file or with the task, in order, and
\* _was_last is never set early.
THEOREM ConnectionSkipsNothing == ConnSpec => []NothingSkipped
  BY InvAlways, PTL DEF ConnInv

\* A task that takes the process for finished has all it has written.
THEOREM DoneIsComplete == ConnSpec => []DoneHasAll
  <1>1. ConnInv => DoneHasAll
    BY DEF ConnInv, AtEnd, DoneHasAll
  <1> QED  BY <1>1, InvAlways, PTL

\* A file changes only when the other side is not about to read it.
THEOREM FilesAreHandedOver == ConnSpec => FilesHandedOver
  <1> DEFINE Handed ==
        /\ mapOut' # mapOut => ~\E i \in DOMAIN toJava : toJava[i] = Filled
        /\ mapIn' # mapIn => ~\E i \in DOMAIN toPy : toPy[i].msg = "meta"
  <1>1. ConnInv /\ [ConnNext]_connVars => [Handed]_connVars
    <2> SUFFICES ASSUME ConnInv, ConnNext PROVE Handed
      OBVIOUS
    <2>1. mapOut' # mapOut => toJava = <<>>
      <3>1. mapOut' # mapOut => WriteBuffer
        BY DEF ConnNext, TaskStep, Start, BufferRead, Confirmed, SendFinished, SendFinishedAgain,
               Raise, Die, ReadBuffer, Read, Write, Serve, ServeNone, Collect, Conclude, SeeDeath,
               Vanish, pyVars
      <3> QED  BY <3>1, Quiet DEF WriteBuffer, ConnInv
    <2>2. mapIn' # mapIn => toPy = <<>>
      <3>1. mapIn' # mapIn => Serve \/ ServeNone
        BY DEF ConnNext, TaskStep, Start, BufferRead, WriteBuffer, Confirmed, SendFinished,
               SendFinishedAgain, Raise, Die, ReadBuffer, Read, Write, Collect, Conclude, SeeDeath,
               Vanish, javaVars
      <3> QED  BY <3>1, Requested DEF Serve, ServeNone, ConnInv
    <2> QED  BY <2>1, <2>2
  <1> QED  BY <1>1, InvAlways, PTL DEF ConnSpec, FilesHandedOver
=============================================================================
