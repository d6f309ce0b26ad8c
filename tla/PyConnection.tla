---------------------------- MODULE PyConnection ----------------------------
(***************************************************************************)
(* How a task of Flink (Java) and the Python process that runs its         *)
(* function exchange data (flink/connection/Connection.py): elements pass  *)
(* through two memory mapped files, and a socket says when a file may be   *)
(* read and when it may be written again.  What the function does between  *)
(* two calls of the connection is left open; PyWorker fills it in.         *)
(*                                                                         *)
(* The Java side is not part of the repository: it is the peer Connection  *)
(* expects, one that answers one signal after the other.                   *)
(***************************************************************************)
EXTENDS Integers, Sequences, SequencesExt

CONSTANTS
    Elements,  \* what the task hands to the function
    Messages,  \* what the function writes: serialized values, n units long
    Size       \* of the output file, mmap_size

ASSUME ConnectionAssumption ==
    Size \in Nat \ {0} /\ \A m \in Messages : m.n \in Nat

Sides == {1, 2}   \* a co-group reads two inputs, the other functions the first

VARIABLES
    java,     \* the task: "up", "done", "failed" or "gone" with its machine
    rest,     \* per side, the elements it has not put into the file
    mapIn,    \* the input file
    mapOut,   \* the output file
    toJava,   \* signals on the socket
    toPy,     \* answers to them
    got,      \* messages the task has collected
    py,       \* the process: "boot", "run", "recv" or "ack" (waiting for an
              \* answer), "closing", "ended", "failed" or "dead"
    asked,    \* the side the last request was for
    input,    \* per side, _input from _input_offset on
    wasLast,  \* per side, _was_last
    out,      \* _out
    sent,     \* history: what the task was given, per side
    taken,    \* history: what the function has read, per side
    written   \* history: what it has written

javaVars == <<java, rest, mapIn, toPy, got>>
pyVars   == <<py, asked, input, wasLast, out, mapOut>>
history  == <<sent, taken, written>>
connVars == <<javaVars, pyVars, toJava, history>>

Waiting == {"recv", "ack"}
Running == {"boot", "run", "recv", "ack", "closing"}

Request(g) == [sig |-> "request", n |-> g]
Filled     == [sig |-> "size", n |-> 0]       \* -- the number of bytes
Finished   == [sig |-> "finished", n |-> 0]
Error      == [sig |-> "error", n |-> 0]
Meta(k, b) == [msg |-> "meta", n |-> k, last |-> b]
Ack        == [msg |-> "ack", n |-> 0, last |-> FALSE]

OutSize(ms) == FoldLeft(LAMBDA k, m : k + m.n, 0, ms)

-----------------------------------------------------------------------------
(* The Python process.                                                     *)

\* has_next: true as long as nothing was read.
HasNext(g) == ~wasLast[g] \/ input[g] # <<>>

\* Broadcast variables were read from the socket, the function starts.
Start ==
    /\ py = "boot"
    /\ py' = "run"
    /\ UNCHANGED <<javaVars, toJava, asked, input, wasLast, out, mapOut, history>>

\* _read_buffer up to recv_all: read finds the buffer empty.
ReadBuffer(g) ==
    /\ py = "run"
    /\ input[g] = <<>>
    /\ py' = "recv"
    /\ asked' = g
    /\ toJava' = Append(toJava, Request(g))
    /\ UNCHANGED <<javaVars, input, wasLast, out, mapOut, history>>

\* Slip: Connection's code for both sides, which marks the first.
BugBufferRead ==
    /\ py = "recv"
    /\ toPy # <<>>
    /\ input' = [input EXCEPT ![asked] = SubSeq(mapIn, 1, Head(toPy).n)]
    /\ wasLast' = [wasLast EXCEPT ![1] = Head(toPy).last]
    /\ toPy' = Tail(toPy)
    /\ py' = "run"
    /\ UNCHANGED <<java, rest, mapIn, got, toJava, asked, out, mapOut, history>>

\* Slip: the last buffer is not marked.
BugForgetLast ==
    /\ py = "recv"
    /\ toPy # <<>>
    /\ input' = [input EXCEPT ![asked] = SubSeq(mapIn, 1, Head(toPy).n)]
    /\ toPy' = Tail(toPy)
    /\ py' = "run"
    /\ UNCHANGED <<java, rest, mapIn, got, wasLast, toJava, asked, out, mapOut, history>>

\* The rest of _read_buffer: the answer says how much of the file to read.
BufferRead ==
    /\ py = "recv"
    /\ toPy # <<>>
    /\ input' = [input EXCEPT ![asked] = SubSeq(mapIn, 1, Head(toPy).n)]
    /\ wasLast' = [wasLast EXCEPT ![asked] = Head(toPy).last]
    /\ toPy' = Tail(toPy)
    /\ py' = "run"
    /\ UNCHANGED <<java, rest, mapIn, got, toJava, asked, out, mapOut, history>>

\* read and the deserializers: one element.
Read(g) ==
    /\ py = "run"
    /\ input[g] # <<>>
    /\ input' = [input EXCEPT ![g] = Tail(@)]
    /\ taken' = [taken EXCEPT ![g] = Append(@, Head(input[g]))]
    /\ UNCHANGED <<javaVars, toJava, py, asked, wasLast, out, mapOut, sent, written>>

\* write: the message fits.
Write(m) ==
    /\ py = "run"
    /\ OutSize(out) + m.n <= Size
    /\ out' = Append(out, m)
    /\ written' = Append(written, m)
    /\ UNCHANGED <<javaVars, toJava, py, asked, input, wasLast, mapOut, sent, taken>>

\* Slip: the next buffer is filled without waiting for the confirmation.
BugWriteBuffer ==
    /\ py = "run"
    /\ out # <<>>
    /\ mapOut' = out
    /\ toJava' = Append(toJava, Filled)
    /\ out' = <<>>
    /\ UNCHANGED <<javaVars, py, asked, input, wasLast, history>>

\* _write_buffer: the file is filled, the signal sent, the confirmation awaited.
WriteBuffer ==
    /\ py = "run"
    /\ out # <<>>
    /\ mapOut' = out
    /\ toJava' = Append(toJava, Filled)
    /\ out' = <<>>
    /\ py' = "ack"
    /\ UNCHANGED <<javaVars, asked, input, wasLast, history>>

Confirmed ==
    /\ py = "ack"
    /\ toPy # <<>>
    /\ toPy' = Tail(toPy)
    /\ py' = "run"
    /\ UNCHANGED <<java, rest, mapIn, got, toJava, asked, input, wasLast, out, mapOut, history>>

\* send_end_signal, from the function's _run once _out is written ...
SendFinished ==
    /\ py = "run"
    /\ out = <<>>
    /\ py' = "closing"
    /\ toJava' = Append(toJava, Finished)
    /\ UNCHANGED <<javaVars, asked, input, wasLast, out, mapOut, history>>

\* ... and once more from execute, which may find the socket closed: its handler's
\* send fails as well.
SendFinishedAgain ==
    /\ py = "closing"
    /\ \/ py' = "ended" /\ toJava' = Append(toJava, Finished)
       \/ java # "up" /\ py' = "failed" /\ UNCHANGED toJava
    /\ UNCHANGED <<javaVars, asked, input, wasLast, out, mapOut, history>>

\* The handler of execute: whatever is raised is signalled.
Raise ==
    /\ py \in {"boot", "run"}
    /\ py' = "failed"
    /\ toJava' = Append(toJava, Error)
    /\ UNCHANGED <<javaVars, asked, input, wasLast, out, mapOut, history>>

\* The process is killed.
Die ==
    /\ py \in Running
    /\ py' = "dead"
    /\ UNCHANGED <<javaVars, toJava, asked, input, wasLast, out, mapOut, history>>

-----------------------------------------------------------------------------
(* The task.                                                               *)

\* A request is answered by the next elements of its side, as many as fit.
Serve ==
    /\ java = "up"
    /\ toJava # <<>> /\ Head(toJava).sig = "request"
    /\ LET g == Head(toJava).n IN
         /\ rest[g] # <<>>
         /\ \E k \in 1 .. Len(rest[g]) :
              /\ mapIn' = SubSeq(rest[g], 1, k)
              /\ rest' = [rest EXCEPT ![g] = SubSeq(@, k + 1, Len(@))]
              /\ toPy' = Append(toPy, Meta(k, k = Len(rest[g])))
    /\ toJava' = Tail(toJava)
    /\ UNCHANGED <<java, got, pyVars, history>>

\* What a request is answered when nothing is left is up to the task: an empty
\* last buffer, or nothing.
ServeNone ==
    /\ java = "up"
    /\ toJava # <<>> /\ Head(toJava).sig = "request"
    /\ rest[Head(toJava).n] = <<>>
    /\ \/ mapIn' = <<>> /\ toPy' = Append(toPy, Meta(0, TRUE))
       \/ UNCHANGED <<mapIn, toPy>>
    /\ toJava' = Tail(toJava)
    /\ UNCHANGED <<java, rest, got, pyVars, history>>

Collect ==
    /\ java = "up"
    /\ toJava # <<>> /\ Head(toJava) = Filled
    /\ got' = got \o mapOut
    /\ toPy' = Append(toPy, Ack)
    /\ toJava' = Tail(toJava)
    /\ UNCHANGED <<java, rest, mapIn, pyVars, history>>

\* Finished or failed; what follows on the socket is not read.
Conclude ==
    /\ java = "up"
    /\ toJava # <<>> /\ Head(toJava) \in {Finished, Error}
    /\ java' = IF Head(toJava) = Finished THEN "done" ELSE "failed"
    /\ toJava' = Tail(toJava)
    /\ UNCHANGED <<rest, mapIn, toPy, got, pyVars, history>>

\* The process is gone and has said nothing.
SeeDeath ==
    /\ java = "up"
    /\ toJava = <<>> /\ py = "dead"
    /\ java' = "failed"
    /\ UNCHANGED <<rest, mapIn, toPy, got, pyVars, toJava, history>>

\* The task's machine fails and leaves the process behind.
Vanish ==
    /\ java = "up"
    /\ java' = "gone"
    /\ UNCHANGED <<rest, mapIn, toPy, got, pyVars, toJava, history>>

-----------------------------------------------------------------------------
\* Nothing was exchanged yet.
Fresh ==
    /\ java = "up"
    /\ mapIn = <<>> /\ mapOut = <<>> /\ toJava = <<>> /\ toPy = <<>> /\ got = <<>>
    /\ py = "boot" /\ asked = 1
    /\ input = [g \in Sides |-> <<>>] /\ wasLast = [g \in Sides |-> FALSE]
    /\ out = <<>>
    /\ sent = rest /\ taken = [g \in Sides |-> <<>>] /\ written = <<>>

ConnInit == rest \in [Sides -> Seq(Elements)] /\ Fresh

TaskStep == Serve \/ ServeNone \/ Collect \/ Conclude \/ SeeDeath

ConnNext ==
    \/ Start \/ BufferRead \/ WriteBuffer \/ Confirmed \/ SendFinished
    \/ SendFinishedAgain \/ Raise \/ Die
    \/ \E g \in Sides : ReadBuffer(g) \/ Read(g)
    \/ \E m \in Messages : Write(m)
    \/ TaskStep \/ Vanish

ConnSpec == ConnInit /\ [][ConnNext]_connVars

-----------------------------------------------------------------------------
(* Properties.                                                             *)

Signals == [sig : {"request"}, n : Sides] \cup {Filled, Finished, Error}
Answers == [msg : {"meta"}, n : Nat, last : BOOLEAN] \cup {Ack}

\* Type invariant.
ConnTypeOK ==
    /\ java \in {"up", "done", "failed", "gone"}
    /\ py \in Running \cup {"ended", "failed", "dead"}
    /\ rest \in [Sides -> Seq(Elements)] /\ mapIn \in Seq(Elements)
    /\ mapOut \in Seq(Messages) /\ out \in Seq(Messages) /\ got \in Seq(Messages)
    /\ toJava \in Seq(Signals) /\ toPy \in Seq(Answers)
    /\ asked \in Sides
    /\ input \in [Sides -> Seq(Elements)] /\ wasLast \in [Sides -> BOOLEAN]
    /\ sent \in [Sides -> Seq(Elements)] /\ taken \in [Sides -> Seq(Elements)]
    /\ written \in Seq(Messages)

\* What a signal or an answer says is in a file.
FlyingOut   == IF toJava # <<>> /\ Head(toJava) = Filled THEN mapOut ELSE <<>>
FlyingIn(g) == IF toPy # <<>> /\ Head(toPy) # Ack /\ asked = g THEN mapIn ELSE <<>>

\* Whatever the function does, and wherever either side stops, every message it
\* has written is collected, in the file or in _out, once and in order.
NothingLost == written = (got \o FlyingOut) \o out

\* Every element of the task is read, buffered, in the file or still with the task,
\* in order, and _was_last is set only when none is left.
NothingSkipped ==
    \A g \in Sides : /\ sent[g] = ((taken[g] \o input[g]) \o FlyingIn(g)) \o rest[g]
                     /\ wasLast[g] => FlyingIn(g) = <<>> /\ rest[g] = <<>>

\* A task that is done has collected all that was written.
DoneHasAll == java = "done" => got = written

\* Action property: a file is written only when the other side is not about to read it.
FilesHandedOver ==
    [][/\ mapOut' # mapOut => ~\E i \in DOMAIN toJava : toJava[i] = Filled
       /\ mapIn' # mapIn => ~\E i \in DOMAIN toPy : toPy[i].msg = "meta"]_connVars
=============================================================================
