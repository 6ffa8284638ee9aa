---------------------------- MODULE ClientWriter ----------------------------
(***************************************************************************)
(* The request side of a client-streaming or bidirectional call:           *)
(* RawClientWriterImpl and the generator that nghttp2 pulls DATA from.     *)
(* Write and WritesDone run on the user's executor and post to the channel *)
(* strand; the generator and the close callback run inside the session, on *)
(* that strand.  Frame n is FrameSize[n] units of bytes, each the smallest *)
(* amount one pull may take.                                               *)
(***************************************************************************)
EXTENDS Naturals, Sequences

CONSTANTS
    MaxFrames,   \* bound: messages the user writes
    FrameSize    \* units of each frame: its 5-byte prefix makes it at least 1

ASSUME MaxFramesAssumption == MaxFrames \in Nat

Frame == 1..MaxFrames

ASSUME FrameSizeAssumption == FrameSize \in [Frame -> Nat \ {0}]

VARIABLES
    written,      \* messages Write has accepted
    doneAsked,    \* WritesDone has been called
    strand,       \* tasks posted to strand_
    pending,      \* pending_, frames by their number
    offset,       \* offset_
    writesDone,   \* writes_done_
    req,          \* req_ is not null
    stream,       \* the stream is "open" or "closed"
    deferred,     \* the generator has returned NGHTTP2_ERR_DEFERRED
    wire,         \* units sent, as <<frame, unit>>
    eof           \* END_STREAM has been sent

writerVars == <<pending, offset, writesDone, req>>
wireVars   == <<stream, deferred, wire, eof>>
vars == <<written, doneAsked, strand, writerVars, wireVars>>

(* The submit has succeeded and the user holds the handle.                 *)
Init ==
    /\ written = 0 /\ doneAsked = FALSE /\ strand = <<>>
    /\ pending = <<>> /\ offset = 0 /\ writesDone = FALSE /\ req = TRUE
    /\ stream = "open" /\ deferred = FALSE /\ wire = <<>> /\ eof = FALSE

Task(k, n) == [kind |-> k, frame |-> n]

(* RawClientWriter::Write: Enqueue frames the message and posts it.  A     *)
(* message that is too large to frame is refused and changes nothing.  The *)
(* user does not write after WritesDone: nothing in the code checks it.    *)
Write ==
    /\ ~doneAsked
    /\ written < MaxFrames
    /\ written' = written + 1
    /\ strand' = Append(strand, Task("frame", written'))
    /\ UNCHANGED <<doneAsked, writerVars, wireVars>>

(* RawClientWriter::WritesDone: MarkWritesDone posts.                      *)
WritesDone ==
    /\ ~doneAsked
    /\ doneAsked' = TRUE
    /\ strand' = Append(strand, Task("done", 0))
    /\ UNCHANGED <<written, writerVars, wireVars>>

StartTask(k) ==
    /\ strand # <<>> /\ Head(strand).kind = k
    /\ strand' = Tail(strand)

(* if (req_) req_->resume(): wake the generator if it is deferred.         *)
(* Once the stream has closed nothing is pulled any more.                  *)
Resume == deferred' = (deferred /\ ~(req /\ stream = "open"))

(* Mutant: the frame is put in front of the queue.                         *)
RunFrame_AtFront ==
    /\ StartTask("frame")
    /\ pending' = <<Head(strand).frame>> \o pending
    /\ Resume
    /\ UNCHANGED <<written, doneAsked, offset, writesDone, req, stream, wire, eof>>

(* The task Enqueue posted.                                                *)
RunFrame ==
    /\ StartTask("frame")
    /\ pending' = Append(pending, Head(strand).frame)
    /\ Resume
    /\ UNCHANGED <<written, doneAsked, offset, writesDone, req, stream, wire, eof>>

(* Mutant: a deferred generator is not told of the end.                    *)
RunDone_NoResume ==
    /\ StartTask("done")
    /\ writesDone' = TRUE
    /\ UNCHANGED deferred
    /\ UNCHANGED <<written, doneAsked, pending, offset, req, stream, wire, eof>>

(* The task MarkWritesDone posted.                                         *)
RunDone ==
    /\ StartTask("done")
    /\ writesDone' = TRUE
    /\ Resume
    /\ UNCHANGED <<written, doneAsked, pending, offset, req, stream, wire, eof>>

(* The session pulls and the queue is empty: the end, or not now.          *)
GenerateEnd ==
    /\ stream = "open" /\ ~deferred /\ ~eof
    /\ pending = <<>>
    /\ IF writesDone
       THEN eof' = TRUE /\ UNCHANGED deferred
       ELSE deferred' = TRUE /\ UNCHANGED eof
    /\ UNCHANGED <<written, doneAsked, strand, writerVars, stream, wire>>

Least(a, b) == IF a < b THEN a ELSE b

(* Mutant: the offset stays at the end of a frame that is sent.            *)
GenerateData_KeepsOffset(len) ==
    /\ stream = "open" /\ ~deferred /\ ~eof
    /\ pending # <<>>
    /\ LET size == FrameSize[Head(pending)]
           n    == Least(size - offset, len) IN
           /\ wire' = wire \o [i \in 1..n |-> <<Head(pending), offset + i>>]
           /\ offset' = (offset + n) % (size + 1)
           /\ pending' = IF offset + n = size THEN Tail(pending) ELSE pending
    /\ UNCHANGED <<written, doneAsked, strand, writesDone, req, stream, deferred,
                   eof>>

(* The session pulls at most len units of the front frame.                 *)
GenerateData(len) ==
    /\ stream = "open" /\ ~deferred /\ ~eof
    /\ pending # <<>>
    /\ LET size == FrameSize[Head(pending)]
           n    == Least(size - offset, len) IN
           /\ wire' = wire \o [i \in 1..n |-> <<Head(pending), offset + i>>]
           /\ offset' = IF offset + n = size THEN 0 ELSE offset + n
           /\ pending' = IF offset + n = size THEN Tail(pending) ELSE pending
    /\ UNCHANGED <<written, doneAsked, strand, writesDone, req, stream, deferred,
                   eof>>

(* on_close posts to the strand; the session then frees the request.       *)
StreamCloses ==
    /\ stream = "open"
    /\ stream' = "closed"
    /\ strand' = Append(strand, Task("close", 0))
    /\ UNCHANGED <<written, doneAsked, writerVars, deferred, wire, eof>>

(* OnStreamClose forgets the request.                                      *)
RunClose ==
    /\ StartTask("close")
    /\ req' = FALSE
    /\ UNCHANGED <<written, doneAsked, pending, offset, writesDone, wireVars>>

RunTask == RunFrame \/ RunDone \/ RunClose

(* A pull for more than the front frame gets no more than the frame.       *)
Generate ==
    \/ GenerateEnd
    \/ pending # <<>> /\ \E len \in 1..FrameSize[Head(pending)] : GenerateData(len)

Next == Write \/ WritesDone \/ RunTask \/ Generate \/ StreamCloses

Safety == Init /\ [][Next]_vars

(* The strand runs what is posted to it, and the session pulls as long as  *)
(* the generator is not deferred and the peer's window is open.            *)
Spec == Safety /\ WF_vars(RunTask) /\ WF_vars(Generate)

-----------------------------------------------------------------------------
TaskType == [kind : {"frame"}, frame : Frame] \cup [kind : {"done", "close"}, frame : {0}]

(* The offset stays inside the front frame, as the generator's memcpy     *)
(* needs it to.                                                            *)
TypeOK ==
    /\ written \in 0..MaxFrames /\ doneAsked \in BOOLEAN
    /\ strand \in Seq(TaskType)
    /\ pending \in Seq(Frame) /\ offset \in Nat
    /\ offset < IF pending = <<>> THEN 1 ELSE FrameSize[Head(pending)]
    /\ writesDone \in BOOLEAN /\ req \in BOOLEAN
    /\ stream \in {"open", "closed"} /\ deferred \in BOOLEAN
    /\ wire \in Seq(Frame \X Nat) /\ eof \in BOOLEAN

UnitAfter(u) == IF u[2] < FrameSize[u[1]] THEN <<u[1], u[2] + 1>> ELSE <<u[1] + 1, 1>>

(* What is on the wire is the frames in the order they were written, each  *)
(* whole before the next begins, wherever the pulls cut them, and          *)
(* END_STREAM follows the last unit of the last message the user wrote.    *)
WireInOrder ==
    /\ \A j \in 1..Len(wire) : wire[j] = IF j = 1 THEN <<1, 1>> ELSE UnitAfter(wire[j - 1])
    /\ eof => /\ doneAsked
              /\ IF wire = <<>> THEN written = 0
                                ELSE wire[Len(wire)] = <<written, FrameSize[written]>>

(* A deferred generator has nothing to send: whatever is queued while the  *)
(* stream is open, the session has been told to pull.                      *)
NoFrameStuck == deferred /\ stream = "open" => pending = <<>> /\ ~writesDone
=============================================================================
