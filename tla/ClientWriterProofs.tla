------------------------ MODULE ClientWriterProofs ------------------------
(***************************************************************************)
(* The writer's types, that no queued frame is ever left behind a deferred  *)
(* generator, and that the bytes on the wire are the frames in order, for  *)
(* every number and size of frames.                                        *)
(***************************************************************************)
EXTENDS ClientWriter, TLAPS

(* The inductive invariant: req_ is forgotten by a task that on_close has  *)
(* posted, so every resume() of an open stream reaches its request.        *)
ReqOfOpenStream ==
    stream = "open" =>
        req /\ \A i \in 1..Len(strand) : strand[i].kind # "close"

Inv == TypeOK /\ ReqOfOpenStream /\ NoFrameStuck

(* The task that starts has its type, and those behind it keep their place. *)
LEMMA StartTaskType ==
    ASSUME NEW k, strand \in Seq(TaskType), StartTask(k)
    PROVE  /\ Head(strand) \in TaskType /\ strand' \in Seq(TaskType)
           /\ strand[1].kind = k /\ 1 \in 1..Len(strand)
           /\ Len(strand') = Len(strand) - 1
           /\ \A i \in 1..Len(strand') : strand'[i] = strand[i + 1]
  BY DEF StartTask

(* A task other than "close" leaves the invariant's part on req_ alone.    *)
LEMMA StartTaskReq ==
    ASSUME NEW k, TypeOK, StartTask(k), ReqOfOpenStream, UNCHANGED <<stream, req>>
    PROVE  ReqOfOpenStream'
  <1>1. strand \in Seq(TaskType) /\ Len(strand) \in Nat
    BY DEF TypeOK
  <1>2. \A i \in 1..Len(strand') : i + 1 \in 1..Len(strand) /\ strand'[i] = strand[i + 1]
    BY <1>1, StartTaskType
  <1> QED BY <1>2 DEF ReqOfOpenStream

(* A posted task joins the strand with its type, and is the last of it.    *)
LEMMA PostType ==
    ASSUME NEW t \in TaskType, strand \in Seq(TaskType), strand' = Append(strand, t)
    PROVE  /\ strand' \in Seq(TaskType) /\ Len(strand') = Len(strand) + 1
           /\ \A i \in 1..Len(strand) : strand'[i] = strand[i]
           /\ strand'[Len(strand) + 1] = t
  OBVIOUS

(* The generator's pulls keep the types: what it sends is units of the     *)
(* front frame, and the offset stays inside the frame that is in front.    *)
LEMMA PullType ==
    ASSUME NEW len \in Nat \ {0}, TypeOK, GenerateData(len)
    PROVE  TypeOK'
  <1> USE FrameSizeAssumption, MaxFramesAssumption
  <1> DEFINE size  == FrameSize[Head(pending)]
             n     == Least(size - offset, len)
             units == [i \in 1..n |-> <<Head(pending), offset + i>>]
  <1>1. Head(pending) \in Frame /\ Tail(pending) \in Seq(Frame) /\ pending # <<>>
    BY DEF GenerateData, TypeOK
  <1>2. size \in Nat \ {0} /\ offset \in Nat /\ offset < size
    BY <1>1 DEF TypeOK
  <1>3. n \in Nat /\ n \in 1..(size - offset)
    BY <1>2 DEF Least
  <1>4. units \in Seq(Frame \X Nat)
    <2> HIDE DEF n
    <2>1. \A i \in 1..n : <<Head(pending), offset + i>> \in Frame \X Nat
      BY <1>1, <1>2, <1>3
    <2>2. QED  BY <2>1, <1>3
  <1>5. /\ wire' = wire \o units
        /\ offset' = IF offset + n = size THEN 0 ELSE offset + n
        /\ pending' = IF offset + n = size THEN Tail(pending) ELSE pending
    BY DEF GenerateData
  <1>6. wire' \in Seq(Frame \X Nat)
    <2> HIDE DEF units
    <2> QED  BY <1>4, <1>5 DEF TypeOK
  <1>7. pending' \in Seq(Frame)
    BY <1>1, <1>5 DEF TypeOK
  <1>8. offset' \in Nat /\ offset' < IF pending' = <<>> THEN 1 ELSE FrameSize[Head(pending')]
    <2> HIDE DEF n, size
    <2>1. CASE offset + n = size
      <3>1. offset' = 0
        BY <2>1, <1>5
      <3>2. pending' # <<>> => FrameSize[Head(pending')] \in Nat \ {0}
        BY <1>7
      <3>3. QED  BY <3>1, <3>2
    <2>2. CASE offset + n # size
      <3>1. offset' = offset + n /\ pending' = pending
        BY <2>2, <1>5
      <3>2. offset + n < size
        BY <2>2, <1>2, <1>3
      <3>3. offset' \in Nat /\ offset' < size
        BY <3>1, <3>2, <1>2, <1>3
      <3>4. QED  BY <3>1, <3>3, <1>1 DEF size
    <2>3. QED  BY <2>1, <2>2
  <1>9. QED
    BY <1>6, <1>7, <1>8 DEF GenerateData, TypeOK

(* Every step keeps the invariant.                                         *)
LEMMA InvStep == Inv /\ [Next]_vars => Inv'
  <1> SUFFICES ASSUME Inv, [Next]_vars PROVE Inv'
    OBVIOUS
  <1> USE FrameSizeAssumption, MaxFramesAssumption
  <1>1. CASE Write
    <2>1. Task("frame", written') \in TaskType /\ Task("frame", written').kind = "frame"
      BY <1>1 DEF Write, Inv, TypeOK, Task, TaskType, Frame
    <2>2. TypeOK'
      BY <1>1, <2>1, PostType DEF Write, Inv, TypeOK, writerVars, wireVars
    <2>3. ReqOfOpenStream'
      <3>1. strand \in Seq(TaskType)
        BY DEF Inv, TypeOK
      <3>2. QED
        BY <1>1, <2>1, <3>1, PostType DEF Write, Inv, ReqOfOpenStream, writerVars, wireVars
    <2>4. QED
      BY <1>1, <2>2, <2>3 DEF Write, Inv, NoFrameStuck, writerVars, wireVars
  <1>2. CASE WritesDone
    <2>1. Task("done", 0) \in TaskType /\ Task("done", 0).kind = "done"
      BY DEF Task, TaskType
    <2>2. TypeOK'
      BY <1>2, <2>1, PostType DEF WritesDone, Inv, TypeOK, writerVars, wireVars
    <2>3. ReqOfOpenStream'
      <3>1. strand \in Seq(TaskType)
        BY DEF Inv, TypeOK
      <3>2. QED
        BY <1>2, <2>1, <3>1, PostType DEF WritesDone, Inv, ReqOfOpenStream, writerVars, wireVars
    <2>4. QED
      BY <1>2, <2>2, <2>3 DEF WritesDone, Inv, NoFrameStuck, writerVars, wireVars
  <1>3. CASE RunFrame
    <2>1. Head(strand) \in TaskType /\ strand' \in Seq(TaskType)
      BY <1>3, StartTaskType DEF RunFrame, Inv, TypeOK
    <2>2. Head(strand).frame \in Frame
      BY <1>3, <2>1 DEF RunFrame, StartTask, TaskType
    <2>3. /\ pending' \in Seq(Frame)
          /\ offset < IF pending' = <<>> THEN 1 ELSE FrameSize[Head(pending')]
      <3>1. pending \in Seq(Frame) /\ pending' = Append(pending, Head(strand).frame)
        BY <1>3 DEF RunFrame, Inv, TypeOK
      <3>2. CASE pending = <<>>
        BY <2>2, <3>1, <3>2 DEF Inv, TypeOK
      <3>3. CASE pending # <<>>
        <4>1. Head(pending') = Head(pending) /\ pending' # <<>> /\ pending' \in Seq(Frame)
          BY <2>2, <3>1, <3>3
        <4>2. QED  BY <4>1, <3>3 DEF Inv, TypeOK
      <3>4. QED  BY <3>2, <3>3
    <2>4. TypeOK'
      BY <1>3, <2>1, <2>3 DEF RunFrame, Resume, Inv, TypeOK
    <2>5. ReqOfOpenStream'
      BY <1>3, StartTaskReq DEF RunFrame, Inv
    <2>6. NoFrameStuck'
      BY <1>3 DEF RunFrame, Resume, Inv, ReqOfOpenStream, NoFrameStuck
    <2>7. QED
      BY <2>4, <2>5, <2>6 DEF Inv
  <1>4. CASE RunDone
    <2>1. strand' \in Seq(TaskType)
      BY <1>4, StartTaskType DEF RunDone, Inv, TypeOK
    <2>2. TypeOK'
      BY <1>4, <2>1 DEF RunDone, Resume, Inv, TypeOK
    <2>3. ReqOfOpenStream'
      BY <1>4, StartTaskReq DEF RunDone, Inv
    <2>4. NoFrameStuck'
      BY <1>4 DEF RunDone, Resume, Inv, ReqOfOpenStream, NoFrameStuck
    <2>5. QED
      BY <2>2, <2>3, <2>4 DEF Inv
  <1>5. CASE RunClose
    <2>1. strand' \in Seq(TaskType) /\ stream # "open"
      BY <1>5, StartTaskType DEF RunClose, Inv, TypeOK, ReqOfOpenStream
    <2>2. TypeOK'
      BY <1>5, <2>1 DEF RunClose, Inv, TypeOK, wireVars
    <2>3. QED
      BY <1>5, <2>1, <2>2 DEF RunClose, Inv, ReqOfOpenStream, NoFrameStuck, wireVars
  <1>6. CASE GenerateEnd
    BY <1>6 DEF GenerateEnd, Inv, TypeOK, ReqOfOpenStream, NoFrameStuck, writerVars
  <1>7. ASSUME NEW len \in Nat \ {0}, GenerateData(len) PROVE Inv'
    BY <1>7, PullType DEF GenerateData, Inv, ReqOfOpenStream, NoFrameStuck
  <1>8. CASE StreamCloses
    <2>1. Task("close", 0) \in TaskType
      BY DEF Task, TaskType
    <2>2. TypeOK'
      BY <1>8, <2>1, PostType DEF StreamCloses, Inv, TypeOK, writerVars
    <2>3. QED
      BY <1>8, <2>2 DEF StreamCloses, Inv, ReqOfOpenStream, NoFrameStuck, writerVars
  <1>9. CASE UNCHANGED vars
    BY <1>9 DEF vars, writerVars, wireVars, Inv, TypeOK, ReqOfOpenStream, NoFrameStuck
  <1>10. CASE pending # <<>> /\ \E len \in 1..FrameSize[Head(pending)] : GenerateData(len)
    <2>1. FrameSize[Head(pending)] \in Nat
      BY <1>10 DEF Inv, TypeOK
    <2>2. QED  BY <1>7, <1>10, <2>1
  <1>11. QED
    BY <1>1, <1>2, <1>3, <1>4, <1>5, <1>6, <1>8, <1>9, <1>10
    DEF Next, RunTask, Generate

(* The initial state, the handle just delivered, satisfies the invariant.  *)
LEMMA InvInit == Init => Inv
  <1> SUFFICES ASSUME Init PROVE Inv
    OBVIOUS
  <1>1. TypeOK
    <2>1. \A S : <<>> \in Seq(S)
      OBVIOUS
    <2>2. strand \in Seq(TaskType) /\ pending \in Seq(Frame)
          /\ wire \in Seq(Frame \X Nat)
      BY <2>1 DEF Init
    <2>3. written \in 0..MaxFrames /\ offset = 0
      BY MaxFramesAssumption DEF Init
    <2>4. offset < IF pending = <<>> THEN 1 ELSE FrameSize[Head(pending)]
      BY <2>3 DEF Init
    <2>5. doneAsked \in BOOLEAN /\ writesDone \in BOOLEAN /\ req \in BOOLEAN
          /\ stream \in {"open", "closed"} /\ deferred \in BOOLEAN /\ eof \in BOOLEAN
      BY DEF Init
    <2>6. QED  BY <2>2, <2>3, <2>4, <2>5 DEF TypeOK
  <1>2. ReqOfOpenStream
    BY DEF Init, ReqOfOpenStream
  <1>3. NoFrameStuck
    BY DEF Init, NoFrameStuck
  <1>4. QED  BY <1>1, <1>2, <1>3 DEF Inv

(* Every variable of the writer keeps its type: in particular offset_      *)
(* never reaches past the front frame, so the memcpy of the generator      *)
(* reads inside it.                                                        *)
THEOREM WriterTypeCorrect == Safety => []TypeOK
  <1>1. Inv => TypeOK  BY DEF Inv
  <1>2. QED  BY InvInit, InvStep, <1>1, PTL DEF Safety

(* While the stream is open, a generator that has been told to wait has    *)
(* nothing to send: no Write and no WritesDone is left waiting for a       *)
(* resume() that does not come.                                            *)
THEOREM NoWriteIsForgotten == Safety => []NoFrameStuck
  <1>1. Inv => NoFrameStuck  BY DEF Inv
  <1>2. QED  BY InvInit, InvStep, <1>1, PTL DEF Safety

-----------------------------------------------------------------------------
(* The order of the bytes                                                   *)

FrameAt(i) == strand[i].kind = "frame"

(* Frames are numbered as they are written.  Up to frame e they have left  *)
(* the strand, the others are on it in order; those in pending_ are the    *)
(* last ones up to e; and the unit that follows the last one on the wire   *)
(* is the one the generator's offset points at.                            *)
Queued(e) ==
    /\ \A i, j \in 1..Len(strand) :
           i < j /\ FrameAt(i) /\ FrameAt(j) => strand[i].frame < strand[j].frame
    /\ \A i \in 1..Len(strand) : FrameAt(i) => strand[i].frame \in (e + 1)..written
    /\ \A n \in (e + 1)..written : \E i \in 1..Len(strand) : FrameAt(i) /\ strand[i].frame = n
    /\ Len(pending) <= e
    /\ \A i \in 1..Len(pending) : pending[i] = (e - Len(pending)) + i

Pulled(e) ==
    IF wire = <<>>
    THEN e = Len(pending) /\ offset = 0
    ELSE /\ wire[Len(wire)][2] \in 1..FrameSize[wire[Len(wire)][1]]
         /\ UnitAfter(wire[Len(wire)]) = <<(e - Len(pending)) + 1, offset + 1>>

UnitsInOrder ==
    \A j \in 1..Len(wire) : wire[j] = IF j = 1 THEN <<1, 1>> ELSE UnitAfter(wire[j - 1])

(* Nothing is posted behind the task of WritesDone but the close, and the  *)
(* generator ends the stream only behind everything.                       *)
EndInv ==
    /\ ~doneAsked => ~writesDone /\ \A i \in 1..Len(strand) : strand[i].kind # "done"
    /\ \A i, j \in 1..Len(strand) : strand[i].kind = "done" /\ FrameAt(j) => j < i
    /\ writesDone => \A i \in 1..Len(strand) : ~FrameAt(i)
    /\ eof => writesDone /\ pending = <<>>

OrderInv == EndInv /\ UnitsInOrder /\ \E e \in 0..written : Queued(e) /\ Pulled(e)

(* What a step does to the strand: it posts a task, starts one or leaves   *)
(* it alone.                                                               *)
Posted(t) ==
    /\ Len(strand') = Len(strand) + 1 /\ strand'[Len(strand) + 1] = t
    /\ \A i \in 1..Len(strand) : strand'[i] = strand[i]

Started ==
    /\ Len(strand) > 0 /\ Len(strand') = Len(strand) - 1
    /\ \A i \in 1..Len(strand') : strand'[i] = strand[i + 1]

LEMMA EndStep == Inv /\ EndInv /\ [Next]_vars => EndInv'
  <1> SUFFICES ASSUME Inv, EndInv, [Next]_vars PROVE EndInv'
    OBVIOUS
  <1> USE DEF EndInv, FrameAt, writerVars, wireVars
  <1>0. strand \in Seq(TaskType) /\ Len(strand) \in Nat
    BY DEF Inv, TypeOK
  <1>1. CASE Write
    <2>1. /\ Task("frame", written') \in TaskType
          /\ Task("frame", written').kind = "frame"
      BY <1>1, MaxFramesAssumption DEF Write, Inv, TypeOK, Task, TaskType, Frame
    <2>2. Posted(Task("frame", written'))
      BY <1>0, <1>1, <2>1, PostType DEF Write, Posted
    <2> QED BY <1>0, <1>1, <2>1, <2>2 DEF Write, Posted
  <1>2. CASE WritesDone
    <2>1. Task("done", 0) \in TaskType /\ Task("done", 0).kind = "done"
      BY DEF Task, TaskType
    <2>2. Posted(Task("done", 0))
      BY <1>0, <1>2, <2>1, PostType DEF WritesDone, Posted
    <2> QED BY <1>0, <1>2, <2>1, <2>2 DEF WritesDone, Posted
  <1>3. CASE RunFrame
    <2>1. Started /\ FrameAt(1) /\ 1 \in 1..Len(strand)
      BY <1>0, <1>3, StartTaskType DEF RunFrame, Started
    <2>2. ~writesDone
      BY <2>1
    <2>3. /\ \A i \in 1..Len(strand') : i + 1 \in 1..Len(strand) /\ strand'[i] = strand[i + 1]
          /\ UNCHANGED <<doneAsked, writesDone, eof>>
      BY <1>0, <1>3, <2>1 DEF RunFrame, Started
    <2>4. \A i, j \in 1..Len(strand') :
             strand'[i].kind = "done" /\ strand'[j].kind = "frame" => j < i
      BY <1>0, <2>3
    <2> QED BY <2>2, <2>3, <2>4
  <1>4. CASE RunDone
    <2>1. Started /\ strand[1].kind = "done" /\ 1 \in 1..Len(strand)
      BY <1>0, <1>4, StartTaskType DEF RunDone, Started
    <2>2. doneAsked /\ \A i \in 1..Len(strand) : ~FrameAt(i)
      BY <1>0, <2>1
    <2>3. \A i \in 1..Len(strand') : i + 1 \in 1..Len(strand) /\ strand'[i] = strand[i + 1]
      BY <1>0, <2>1 DEF Started
    <2>4. \A i \in 1..Len(strand') : strand'[i].kind # "frame"
      BY <2>2, <2>3
    <2> QED BY <1>4, <2>2, <2>4 DEF RunDone
  <1>5. CASE RunClose
    <2>1. Started
      BY <1>0, <1>5, StartTaskType DEF RunClose, Started
    <2>2. \A i \in 1..Len(strand') : i + 1 \in 1..Len(strand) /\ strand'[i] = strand[i + 1]
      BY <1>0, <2>1 DEF Started
    <2>3. \A i, j \in 1..Len(strand') :
             strand'[i].kind = "done" /\ strand'[j].kind = "frame" => j < i
      BY <1>0, <2>2
    <2>4. UNCHANGED <<doneAsked, writesDone, eof, pending>>
      BY <1>5 DEF RunClose
    <2> QED BY <2>2, <2>3, <2>4
  <1>6. CASE GenerateEnd
    BY <1>6 DEF GenerateEnd
  <1>7. ASSUME NEW len, GenerateData(len) PROVE EndInv'
    BY <1>7 DEF GenerateData
  <1>8. CASE StreamCloses
    <2>1. Task("close", 0) \in TaskType /\ Task("close", 0).kind = "close"
      BY DEF Task, TaskType
    <2>2. Posted(Task("close", 0))
      BY <1>0, <1>8, <2>1, PostType DEF StreamCloses, Posted
    <2> QED BY <1>0, <1>8, <2>1, <2>2 DEF StreamCloses, Posted
  <1>9. CASE UNCHANGED vars
    BY <1>9 DEF vars
  <1> QED
    BY <1>1, <1>2, <1>3, <1>4, <1>5, <1>6, <1>7, <1>8, <1>9 DEF Next, RunTask, Generate

(* Starting the front task leaves the frames behind it in order.           *)
LEMMA StillAscending ==
    ASSUME NEW e, Len(strand) \in Nat, Queued(e), Started
    PROVE  \A i, j \in 1..Len(strand') :
               i < j /\ strand'[i].kind = "frame" /\ strand'[j].kind = "frame"
                   => strand'[i].frame < strand'[j].frame
  <1> SUFFICES ASSUME NEW i \in 1..Len(strand'), NEW j \in 1..Len(strand'), i < j,
                      strand'[i].kind = "frame", strand'[j].kind = "frame"
               PROVE  strand'[i].frame < strand'[j].frame
    OBVIOUS
  <1>1. /\ i + 1 \in 1..Len(strand) /\ strand'[i] = strand[i + 1]
        /\ j + 1 \in 1..Len(strand) /\ strand'[j] = strand[j + 1]
        /\ i + 1 < j + 1
    BY DEF Started
  <1>2. FrameAt(i + 1) /\ FrameAt(j + 1)
    BY <1>1 DEF FrameAt
  <1> QED BY <1>1, <1>2 DEF Queued

(* A task that carries no frame comes and goes without disturbing the      *)
(* frames on the strand.                                                   *)
LEMMA QueuedStays ==
    ASSUME NEW e \in Nat, Inv, Queued(e), UNCHANGED <<written, pending>>,
           \/ UNCHANGED strand
           \/ Started /\ ~FrameAt(1)
           \/ \E t \in TaskType : Posted(t) /\ t.kind # "frame"
    PROVE  Queued(e)'
  <1> USE DEF Queued, FrameAt
  <1>0. Len(strand) \in Nat /\ written \in Nat
    BY MaxFramesAssumption DEF Inv, TypeOK
  <1>1. CASE UNCHANGED strand
    BY <1>1
  <1>2. CASE Started /\ ~FrameAt(1)
    <2>1. \A i \in 1..Len(strand) : FrameAt(i) => (i - 1) \in 1..Len(strand')
      <3> HIDE DEF Queued
      <3> QED BY <1>0, <1>2 DEF Started
    <2>2. \A n \in (e + 1)..written :
             \E i \in 1..Len(strand') : strand'[i].kind = "frame" /\ strand'[i].frame = n
      <3> SUFFICES ASSUME NEW n \in (e + 1)..written
                   PROVE  \E i \in 1..Len(strand') :
                              strand'[i].kind = "frame" /\ strand'[i].frame = n
        OBVIOUS
      <3>1. PICK i \in 1..Len(strand) : strand[i].kind = "frame" /\ strand[i].frame = n
        OBVIOUS
      <3> HIDE DEF Queued
      <3>2. (i - 1) \in 1..Len(strand')
        BY <2>1, <3>1
      <3>3. strand'[i - 1] = strand[i]
        BY <1>0, <1>2, <3>2 DEF Started
      <3> QED BY <3>1, <3>2, <3>3
    <2>3. \A i \in 1..Len(strand') : i + 1 \in 1..Len(strand) /\ strand'[i] = strand[i + 1]
      BY <1>0, <1>2 DEF Started
    <2>4. \A i, j \in 1..Len(strand') :
             i < j /\ strand'[i].kind = "frame" /\ strand'[j].kind = "frame"
                 => strand'[i].frame < strand'[j].frame
      BY <1>0, <1>2, StillAscending
    <2>5. \A i \in 1..Len(strand') :
             strand'[i].kind = "frame" => strand'[i].frame \in (e + 1)..written
      BY <2>3
    <2>6. Len(pending') <= e /\ \A i \in 1..Len(pending') : pending'[i] = (e - Len(pending')) + i
      OBVIOUS
    <2> QED BY <2>2, <2>4, <2>5, <2>6
  <1>3. ASSUME NEW t \in TaskType, Posted(t), t.kind # "frame" PROVE Queued(e)'
    <2>1. \A n \in (e + 1)..written :
             \E i \in 1..Len(strand') : strand'[i].kind = "frame" /\ strand'[i].frame = n
      <3> SUFFICES ASSUME NEW n \in (e + 1)..written
                   PROVE  \E i \in 1..Len(strand') :
                              strand'[i].kind = "frame" /\ strand'[i].frame = n
        OBVIOUS
      <3>1. PICK i \in 1..Len(strand) : strand[i].kind = "frame" /\ strand[i].frame = n
        OBVIOUS
      <3> HIDE DEF Queued
      <3>2. i \in 1..Len(strand') /\ strand'[i] = strand[i]
        BY <1>0, <1>3 DEF Posted
      <3> QED BY <3>1, <3>2
    <2>2. \A i \in 1..Len(strand') :
             strand'[i].kind = "frame" => i \in 1..Len(strand) /\ strand'[i] = strand[i]
      BY <1>0, <1>3 DEF Posted
    <2>3. \A i, j \in 1..Len(strand') :
             i < j /\ strand'[i].kind = "frame" /\ strand'[j].kind = "frame"
                 => strand'[i].frame < strand'[j].frame
      BY <2>2
    <2>4. \A i \in 1..Len(strand') :
             strand'[i].kind = "frame" => strand'[i].frame \in (e + 1)..written
      BY <2>2
    <2>5. Len(pending') <= e /\ \A i \in 1..Len(pending') : pending'[i] = (e - Len(pending')) + i
      OBVIOUS
    <2> QED BY <2>1, <2>3, <2>4, <2>5
  <1> QED BY <1>1, <1>2, <1>3

(* A frame that is written goes behind those on the strand.                *)
LEMMA QueuedWrite ==
    ASSUME NEW e \in 0..written, Inv, Queued(e), Write
    PROVE  Queued(e)'
  <1> USE DEF Queued, FrameAt
  <1>0. strand \in Seq(TaskType) /\ Len(strand) \in Nat /\ written \in Nat
    BY MaxFramesAssumption DEF Inv, TypeOK
  <1>1. /\ Task("frame", written') \in TaskType
        /\ Task("frame", written').kind = "frame" /\ Task("frame", written').frame = written + 1
    BY MaxFramesAssumption DEF Write, Inv, TypeOK, Task, TaskType, Frame
  <1>2. Posted(Task("frame", written')) /\ written' = written + 1 /\ UNCHANGED pending
    BY <1>0, <1>1, PostType DEF Write, Posted, writerVars
  <1>3. \A n \in (e + 1)..(written + 1) :
           \E i \in 1..Len(strand') : strand'[i].kind = "frame" /\ strand'[i].frame = n
    <2> SUFFICES ASSUME NEW n \in (e + 1)..(written + 1)
                 PROVE  \E i \in 1..Len(strand') :
                            strand'[i].kind = "frame" /\ strand'[i].frame = n
      OBVIOUS
    <2>1. CASE n = written + 1
      <3>1. Len(strand) + 1 \in 1..Len(strand')
        BY <1>0, <1>2 DEF Posted
      <3> QED BY <1>1, <1>2, <2>1, <3>1 DEF Posted
    <2>2. CASE n # written + 1
      <3>1. n \in (e + 1)..written
        BY <1>0, <2>2
      <3>2. PICK i \in 1..Len(strand) : FrameAt(i) /\ strand[i].frame = n
        BY <3>1
      <3> QED BY <1>0, <1>2, <3>2 DEF Posted
    <2> QED BY <2>1, <2>2
  <1>4. \A i, j \in 1..Len(strand') :
           i < j /\ strand'[i].kind = "frame" /\ strand'[j].kind = "frame"
               => strand'[i].frame < strand'[j].frame
    <2> SUFFICES ASSUME NEW i \in 1..Len(strand'), NEW j \in 1..Len(strand'), i < j,
                        strand'[i].kind = "frame", strand'[j].kind = "frame"
                 PROVE  strand'[i].frame < strand'[j].frame
      OBVIOUS
    <2>1. i \in 1..Len(strand) /\ strand'[i] = strand[i] /\ strand[i].frame <= written
      BY <1>0, <1>2 DEF Posted
    <2>2. CASE j \in 1..Len(strand)
      BY <1>2, <2>1, <2>2 DEF Posted
    <2>3. CASE j = Len(strand) + 1
      BY <1>0, <1>1, <1>2, <2>1, <2>3 DEF Posted
    <2> QED BY <1>0, <1>2, <2>2, <2>3 DEF Posted
  <1>5. \A i \in 1..Len(strand') :
           strand'[i].kind = "frame" => strand'[i].frame \in (e + 1)..(written + 1)
    <2> SUFFICES ASSUME NEW i \in 1..Len(strand'), strand'[i].kind = "frame"
                 PROVE  strand'[i].frame \in (e + 1)..(written + 1)
      OBVIOUS
    <2>1. CASE i \in 1..Len(strand)
      <3>1. strand'[i] = strand[i] /\ strand[i].frame \in (e + 1)..written
        BY <1>2, <2>1 DEF Posted
      <3> QED BY <1>0, <3>1
    <2>2. CASE i = Len(strand) + 1
      <3>1. strand'[i].frame = written + 1
        BY <1>1, <1>2, <2>2 DEF Posted
      <3> QED BY <1>0, <3>1
    <2> QED BY <1>0, <1>2, <2>1, <2>2 DEF Posted
  <1> QED BY <1>2, <1>3, <1>4, <1>5

(* The frame that leaves the strand is the next one of pending_.           *)
LEMMA QueuedRun ==
    ASSUME NEW e \in 0..written, Inv, Queued(e), RunFrame
    PROVE  e + 1 \in 0..written' /\ Queued(e + 1)'
  <1> USE DEF Queued, FrameAt
  <1>0. /\ strand \in Seq(TaskType) /\ Len(strand) \in Nat /\ written \in Nat
        /\ pending \in Seq(Frame) /\ Len(pending) \in Nat
    BY MaxFramesAssumption DEF Inv, TypeOK
  <1>1. /\ Started /\ FrameAt(1) /\ 1 \in 1..Len(strand) /\ Head(strand) = strand[1]
        /\ written' = written /\ pending' = Append(pending, strand[1].frame)
    BY <1>0, StartTaskType DEF RunFrame, Started, StartTask
  <1>2. strand[1].frame = e + 1
    <2>1. strand[1].frame \in (e + 1)..written
      BY <1>1
    <2>2. e + 1 \in (e + 1)..written
      BY <1>0, <2>1
    <2>3. PICK i \in 1..Len(strand) : FrameAt(i) /\ strand[i].frame = e + 1
      BY <2>2
    <2>4. i # 1 => strand[1].frame < strand[i].frame
      BY <1>0, <1>1, <2>3
    <2> QED BY <1>0, <2>1, <2>3, <2>4
  <1>3. e + 1 \in 0..written'
    BY <1>0, <1>1, <1>2
  <1>4. /\ Len(pending') = Len(pending) + 1 /\ pending'[Len(pending) + 1] = e + 1
        /\ \A i \in 1..Len(pending) : pending'[i] = pending[i]
    <2>1. e + 1 \in Frame
      BY <1>0, <1>1, <1>2, MaxFramesAssumption DEF Inv, TypeOK, Frame
    <2> QED BY <1>0, <1>1, <1>2, <2>1
  <1>5. \A i \in 1..Len(pending') : pending'[i] = ((e + 1) - Len(pending')) + i
    <2> SUFFICES ASSUME NEW i \in 1..Len(pending')
                 PROVE  pending'[i] = ((e + 1) - Len(pending')) + i
      OBVIOUS
    <2>1. CASE i \in 1..Len(pending)
      <3>1. pending'[i] = (e - Len(pending)) + i
        BY <1>4, <2>1
      <3> QED BY <1>0, <1>4, <2>1, <3>1
    <2>2. CASE i = Len(pending) + 1
      BY <1>0, <1>4, <2>2
    <2> QED BY <1>0, <1>4, <2>1, <2>2
  <1>6. \A n \in (e + 2)..written :
           \E i \in 1..Len(strand') : strand'[i].kind = "frame" /\ strand'[i].frame = n
    <2> SUFFICES ASSUME NEW n \in (e + 2)..written
                 PROVE  \E i \in 1..Len(strand') :
                            strand'[i].kind = "frame" /\ strand'[i].frame = n
      OBVIOUS
    <2>0. n \in (e + 1)..written
      BY <1>0
    <2>1. PICK i \in 1..Len(strand) : FrameAt(i) /\ strand[i].frame = n
      BY <2>0
    <2>2. i # 1
      BY <1>0, <1>2, <2>1
    <2>3. (i - 1) \in 1..Len(strand') /\ strand'[i - 1] = strand[i]
      BY <1>0, <1>1, <2>2 DEF Started
    <2> QED BY <2>1, <2>3
  <1>7. \A i \in 1..Len(strand') :
           strand'[i].kind = "frame" => strand'[i].frame \in (e + 2)..written
    <2> SUFFICES ASSUME NEW i \in 1..Len(strand'), strand'[i].kind = "frame"
                 PROVE  strand'[i].frame \in (e + 2)..written
      OBVIOUS
    <2>1. i + 1 \in 1..Len(strand) /\ strand'[i] = strand[i + 1]
      BY <1>0, <1>1 DEF Started
    <2>2. strand[1].frame < strand[i + 1].frame /\ strand[i + 1].frame \in (e + 1)..written
      BY <1>0, <1>1, <2>1
    <2> QED BY <1>0, <1>2, <2>1, <2>2
  <1>8. \A i, j \in 1..Len(strand') :
           i < j /\ strand'[i].kind = "frame" /\ strand'[j].kind = "frame"
               => strand'[i].frame < strand'[j].frame
    <2> HIDE DEF Queued
    <2> QED BY <1>0, <1>1, StillAscending
  <1>9. Len(pending') <= e + 1
    BY <1>0, <1>4
  <1>10. (e + 1) + 1 = e + 2 /\ written' = written
    BY <1>0, <1>1
  <1>11. Queued(e + 1)'
    <2> HIDE DEF Queued
    <2> SUFFICES /\ \A i, j \in 1..Len(strand') :
                       i < j /\ strand'[i].kind = "frame" /\ strand'[j].kind = "frame"
                           => strand'[i].frame < strand'[j].frame
                 /\ \A i \in 1..Len(strand') : strand'[i].kind = "frame"
                       => strand'[i].frame \in ((e + 1) + 1)..written'
                 /\ \A n \in ((e + 1) + 1)..written' : \E i \in 1..Len(strand') :
                       strand'[i].kind = "frame" /\ strand'[i].frame = n
                 /\ Len(pending') <= e + 1
                 /\ \A i \in 1..Len(pending') : pending'[i] = ((e + 1) - Len(pending')) + i
      BY DEF Queued
    <2> QED BY <1>5, <1>6, <1>7, <1>8, <1>9, <1>10
  <1> QED BY <1>3, <1>11

(* Where the elements of a concatenation come from.                        *)
LEMMA Concatenation ==
    ASSUME NEW S, NEW a \in Seq(S), NEW b \in Seq(S)
    PROVE  /\ Len(a \o b) = Len(a) + Len(b)
           /\ \A j \in 1..Len(a) : (a \o b)[j] = a[j]
           /\ \A i \in 1..Len(b) : (a \o b)[Len(a) + i] = b[i]
  OBVIOUS

(* A pull takes the units at the offset, and leaves the offset behind them. *)
LEMMA PullStep ==
    ASSUME NEW len \in Nat \ {0}, NEW e \in 0..written, Inv, UnitsInOrder, Queued(e), Pulled(e),
           GenerateData(len)
    PROVE  UnitsInOrder' /\ Queued(e)' /\ Pulled(e)'
  <1> DEFINE h    == Head(pending)
             size == FrameSize[h]
             n    == Least(size - offset, len)
             L    == Len(wire)
  <1>0. /\ strand \in Seq(TaskType) /\ Len(strand) \in Nat /\ written \in Nat /\ e \in Nat
        /\ pending \in Seq(Frame) /\ Len(pending) \in Nat /\ pending # <<>>
        /\ Len(pending) > 0 /\ h = pending[1] /\ h \in Frame /\ h \in Nat
        /\ wire \in Seq(Frame \X Nat) /\ L \in Nat
    <2>1. /\ strand \in Seq(TaskType) /\ Len(strand) \in Nat /\ written \in Nat
          /\ pending \in Seq(Frame) /\ wire \in Seq(Frame \X Nat)
      BY MaxFramesAssumption DEF Inv, TypeOK
    <2>2. pending # <<>>
      BY DEF GenerateData
    <2>3. e \in Nat /\ L \in Nat
      BY <2>1
    <2>4. Len(pending) \in Nat /\ Len(pending) > 0 /\ h = pending[1] /\ h \in Frame
      BY <2>1, <2>2
    <2>5. h \in Nat
      BY <2>4, MaxFramesAssumption DEF Frame
    <2> QED BY <2>1, <2>2, <2>3, <2>4, <2>5
  <1>1. size \in Nat \ {0} /\ offset \in Nat /\ offset < size
    BY <1>0, FrameSizeAssumption DEF Inv, TypeOK
  <1>2. n \in Nat /\ n \in 1..(size - offset)
    BY <1>1 DEF Least
  <1>3. /\ wire' = wire \o [i \in 1..n |-> <<h, offset + i>>]
        /\ offset' = IF offset + n = size THEN 0 ELSE offset + n
        /\ pending' = IF offset + n = size THEN Tail(pending) ELSE pending
        /\ UNCHANGED <<written, strand>>
    BY DEF GenerateData
  <1> HIDE DEF n
  <1>4. h = (e - Len(pending)) + 1
    BY <1>0 DEF Queued
  <1>5. /\ Len(wire') = L + n /\ wire' # <<>>
        /\ \A j \in 1..L : wire'[j] = wire[j]
        /\ \A i \in 1..n : wire'[L + i] = <<h, offset + i>>
    <2> DEFINE units == [i \in 1..n |-> <<h, offset + i>>]
    <2>1. units \in Seq(Frame \X Nat)
      <3>1. \A i \in 1..n : <<h, offset + i>> \in Frame \X Nat
        BY <1>0, <1>1, <1>2
      <3> QED BY <1>2, <3>1
    <2>2. Len(units) = n /\ \A i \in 1..n : units[i] = <<h, offset + i>>
      BY <1>2
    <2> HIDE DEF units
    <2>3. wire' = wire \o units
      BY <1>3 DEF units
    <2>4. /\ Len(wire') = L + Len(units)
          /\ \A j \in 1..L : wire'[j] = wire[j]
          /\ \A i \in 1..Len(units) : wire'[L + i] = units[i]
      BY <1>0, <2>1, <2>3, Concatenation
    <2>5. wire' # <<>>
      BY <1>0, <1>2, <2>2, <2>4
    <2> QED BY <2>2, <2>4, <2>5
  <1>6. UnitsInOrder'
    <2> SUFFICES ASSUME NEW j \in 1..Len(wire')
                 PROVE  wire'[j] = IF j = 1 THEN <<1, 1>> ELSE UnitAfter(wire'[j - 1])
      BY DEF UnitsInOrder, UnitAfter
    <2>1. CASE j \in 1..L
      <3>1. j # 1 => j - 1 \in 1..L
        BY <1>0, <2>1
      <3> QED BY <1>5, <2>1, <3>1 DEF UnitsInOrder
    <2>2. CASE j = L + 1
      <3>1. wire'[j] = <<h, offset + 1>>
        BY <1>2, <1>5, <2>2
      <3>2. CASE wire = <<>>
        BY <1>0, <1>4, <2>2, <3>1, <3>2 DEF Pulled
      <3>3. CASE wire # <<>>
        <4>1. j # 1 /\ j - 1 = L /\ L \in 1..L
          BY <1>0, <2>2, <3>3
        <4> QED BY <1>4, <1>5, <3>1, <3>3, <4>1 DEF Pulled
      <3> QED BY <3>2, <3>3
    <2>3. CASE j > L + 1
      <3>1. j - L \in 1..n /\ (j - L) - 1 \in 1..n /\ j = L + (j - L) /\ j - 1 = L + ((j - L) - 1)
        BY <1>0, <1>2, <1>5, <2>3
      <3>2. wire'[j] = <<h, offset + (j - L)>> /\ wire'[j - 1] = <<h, offset + ((j - L) - 1)>>
        BY <1>5, <3>1
      <3>3. /\ offset + ((j - L) - 1) < size
            /\ offset + ((j - L) - 1) + 1 = offset + (j - L)
        <4>1. \A k, o, s, m \in Nat :
                 k \in 1..m /\ m \in 1..(s - o) => o + (k - 1) < s /\ o + (k - 1) + 1 = o + k
          OBVIOUS
        <4>2. j - L \in Nat /\ size \in Nat
          BY <1>1, <1>2, <3>1
        <4> HIDE DEF size, L
        <4> QED BY <1>1, <1>2, <3>1, <4>1, <4>2
      <3>4. UnitAfter(wire'[j - 1]) = <<h, offset + (j - L)>>
        BY <3>2, <3>3 DEF UnitAfter
      <3>5. j # 1
        BY <1>0, <2>3
      <3> QED BY <3>2, <3>4, <3>5
    <2> QED BY <1>0, <1>2, <1>5, <2>1, <2>2, <2>3
  <1>7. wire'[Len(wire')] = <<h, offset + n>>
    BY <1>2, <1>5
  <1>8. CASE offset + n = size
    <2>1. /\ offset' = 0 /\ pending' = Tail(pending) /\ Len(pending') = Len(pending) - 1
          /\ \A i \in 1..Len(pending') : i + 1 \in 1..Len(pending) /\ pending'[i] = pending[i + 1]
      BY <1>0, <1>3, <1>8
    <2>2. Queued(e)'
      <3>1. \A i \in 1..Len(pending') : pending'[i] = (e - Len(pending')) + i
        <4> SUFFICES ASSUME NEW i \in 1..Len(pending')
                     PROVE  pending'[i] = (e - Len(pending')) + i
          OBVIOUS
        <4>1. pending'[i] = (e - Len(pending)) + (i + 1)
          BY <2>1 DEF Queued
        <4> QED BY <1>0, <2>1, <4>1
      <3>2. Len(pending') <= e
        BY <1>0, <2>1 DEF Queued
      <3> QED BY <1>3, <3>1, <3>2 DEF Queued, FrameAt
    <2>3. UnitAfter(wire'[Len(wire')]) = <<h + 1, 1>>
      BY <1>1, <1>7, <1>8 DEF UnitAfter
    <2>4. h + 1 = (e - Len(pending')) + 1
      BY <1>0, <1>4, <2>1
    <2>5. Pulled(e)'
      <3>1. wire'[Len(wire')][1] = h /\ wire'[Len(wire')][2] = offset + n /\ offset + n \in 1..size
        BY <1>1, <1>2, <1>7, <1>8
      <3>2. UnitAfter(wire[Len(wire)])' = <<(e - Len(pending')) + 1, offset' + 1>>
        BY <2>1, <2>3, <2>4 DEF UnitAfter
      <3> QED BY <1>5, <3>1, <3>2 DEF Pulled
    <2> QED BY <1>6, <2>2, <2>5
  <1>9. CASE offset + n # size
    <2>1. offset' = offset + n /\ pending' = pending
      BY <1>3, <1>9
    <2>2. Queued(e)'
      BY <1>3, <2>1 DEF Queued, FrameAt
    <2>3. offset + n < size
      BY <1>1, <1>2, <1>9
    <2>4. UnitAfter(wire'[Len(wire')]) = <<h, (offset + n) + 1>>
      BY <1>7, <2>3 DEF UnitAfter
    <2>5. Pulled(e)'
      BY <1>1, <1>2, <1>4, <1>5, <1>7, <2>1, <2>3, <2>4 DEF Pulled, UnitAfter
    <2> QED BY <1>6, <2>2, <2>5
  <1> QED BY <1>8, <1>9

LEMMA OrderStep == Inv /\ OrderInv /\ [Next]_vars => OrderInv'
  <1> SUFFICES ASSUME Inv, OrderInv, [Next]_vars PROVE OrderInv'
    OBVIOUS
  <1> USE DEF writerVars, wireVars
  <1>0. strand \in Seq(TaskType) /\ written \in Nat /\ written' \in Nat /\ EndInv'
    BY MaxFramesAssumption, EndStep, InvStep DEF Inv, TypeOK, OrderInv
  <1>1. PICK e \in 0..written : Queued(e) /\ Pulled(e)
    BY DEF OrderInv
  <1>2. SUFFICES UnitsInOrder' /\ \E f \in 0..written' : Queued(f)' /\ Pulled(f)'
    BY <1>0 DEF OrderInv
  <1>3. UNCHANGED wire => UnitsInOrder'
    BY DEF OrderInv, UnitsInOrder, UnitAfter
  <1>4. UNCHANGED <<wire, pending, offset>> => Pulled(e)'
    BY <1>1 DEF Pulled, UnitAfter
  <1>5. CASE Write
    <2>1. e \in 0..written'
      BY <1>0, <1>5 DEF Write
    <2> QED BY <1>1, <1>3, <1>4, <1>5, <2>1, QueuedWrite DEF Write
  <1>6. CASE RunFrame
    <2>1. e + 1 \in 0..written' /\ Queued(e + 1)'
      BY <1>1, <1>6, QueuedRun
    <2>2. /\ UNCHANGED <<wire, offset>> /\ Len(pending') = Len(pending) + 1
          /\ Len(pending) \in Nat /\ e \in Nat
      <3>1. Head(strand).frame \in Frame
        BY <1>0, <1>6, StartTaskType DEF RunFrame, StartTask, TaskType
      <3> QED BY <1>0, <1>6, <3>1 DEF RunFrame, Inv, TypeOK
    <2>3. Pulled(e + 1)'
      BY <1>1, <2>2 DEF Pulled, UnitAfter
    <2> QED BY <1>3, <2>1, <2>2, <2>3
  <1>7. CASE WritesDone \/ StreamCloses
    <2>1. PICK k \in {"done", "close"} : strand' = Append(strand, Task(k, 0))
      BY <1>7 DEF WritesDone, StreamCloses
    <2>2. Task(k, 0) \in TaskType /\ Task(k, 0).kind # "frame"
      BY DEF Task, TaskType
    <2>3. Posted(Task(k, 0))
      BY <1>0, <2>1, <2>2, PostType DEF Posted
    <2>4. UNCHANGED <<written, pending, wire, offset>>
      BY <1>7 DEF WritesDone, StreamCloses
    <2>5. Queued(e)'
      BY <1>0, <1>1, <2>2, <2>3, <2>4, QueuedStays
    <2> QED BY <1>1, <1>3, <1>4, <2>4, <2>5
  <1>8. CASE RunDone \/ RunClose
    <2>1. Started /\ ~FrameAt(1)
      BY <1>0, <1>8, StartTaskType DEF RunDone, RunClose, Started, FrameAt
    <2>2. UNCHANGED <<written, pending, wire, offset>>
      BY <1>8 DEF RunDone, RunClose
    <2>3. Queued(e)'
      BY <1>0, <1>1, <2>1, <2>2, QueuedStays
    <2> QED BY <1>1, <1>3, <1>4, <2>2, <2>3
  <1>9. CASE GenerateEnd \/ UNCHANGED vars
    <2>1. UNCHANGED <<written, strand, pending, wire, offset>>
      BY <1>9 DEF GenerateEnd, vars
    <2>2. Queued(e)'
      BY <1>0, <1>1, <2>1, QueuedStays
    <2> QED BY <1>1, <1>3, <1>4, <2>1, <2>2
  <1>10. CASE pending # <<>> /\ \E len \in 1..FrameSize[Head(pending)] : GenerateData(len)
    <2>1. FrameSize[Head(pending)] \in Nat
      BY <1>10, FrameSizeAssumption DEF Inv, TypeOK
    <2>2. PICK len \in Nat \ {0} : GenerateData(len)
      BY <1>10, <2>1
    <2>3. UnitsInOrder' /\ Queued(e)' /\ Pulled(e)'
      BY <1>1, <2>2, PullStep DEF OrderInv
    <2>4. e \in 0..written'
      BY <1>1, <2>2 DEF GenerateData
    <2> QED BY <2>3, <2>4
  <1> QED
    BY <1>5, <1>6, <1>7, <1>8, <1>9, <1>10 DEF Next, RunTask, Generate

(* At the end of the stream every frame has left the queue, so the unit    *)
(* that would be next belongs to a frame nobody has written.               *)
LEMMA OrderInvImplies == Inv /\ OrderInv => WireInOrder
  <1> SUFFICES ASSUME Inv, OrderInv PROVE WireInOrder
    OBVIOUS
  <1>0. written \in Nat /\ wire \in Seq(Frame \X Nat) /\ Len(wire) \in Nat
    BY MaxFramesAssumption DEF Inv, TypeOK
  <1>1. PICK e \in 0..written : Queued(e) /\ Pulled(e)
    BY DEF OrderInv
  <1>2. ASSUME eof
        PROVE  /\ doneAsked
               /\ IF wire = <<>> THEN written = 0
                                 ELSE wire[Len(wire)] = <<written, FrameSize[written]>>
    <2>1. /\ doneAsked /\ pending = <<>> /\ Len(pending) = 0 /\ offset = 0
          /\ \A i \in 1..Len(strand) : ~FrameAt(i)
      BY <1>2 DEF OrderInv, EndInv, Inv, TypeOK
    <2>2. e = written
      <3>1. ~(e + 1 \in (e + 1)..written)
        BY <1>1, <2>1 DEF Queued
      <3> QED BY <1>0, <3>1
    <2>3. CASE wire = <<>>
      BY <1>1, <2>1, <2>2, <2>3 DEF Pulled
    <2>4. CASE wire # <<>>
      <3> DEFINE u == wire[Len(wire)]
      <3>1. u \in Frame \X Nat
        BY <1>0, <2>4
      <3>2. /\ u = <<u[1], u[2]>> /\ u[1] \in Nat /\ u[2] \in Nat
            /\ FrameSize[u[1]] \in Nat /\ u[2] \in 1..FrameSize[u[1]]
            /\ UnitAfter(u) = <<written + 1, 1>>
        <4>1. u[2] \in 1..FrameSize[u[1]] /\ UnitAfter(u) = <<(e - Len(pending)) + 1, offset + 1>>
          BY <1>1, <2>4 DEF Pulled
        <4>2. (e - Len(pending)) + 1 = written + 1 /\ offset + 1 = 1
          BY <1>0, <2>1, <2>2
        <4> HIDE DEF u
        <4>3. u = <<u[1], u[2]>> /\ u[1] \in Frame /\ u[2] \in Nat
          BY <3>1
        <4>4. u[1] \in Nat /\ FrameSize[u[1]] \in Nat
          BY <4>3, FrameSizeAssumption, MaxFramesAssumption DEF Frame
        <4> QED BY <4>1, <4>2, <4>3, <4>4
      <3>3. u[2] = FrameSize[u[1]] /\ u[1] = written
        BY <1>0, <3>2 DEF UnitAfter
      <3> QED BY <2>1, <2>4, <3>2, <3>3
    <2> QED BY <2>1, <2>3, <2>4
  <1> QED BY <1>2 DEF WireInOrder, OrderInv, UnitsInOrder

LEMMA OrderInit == Init => OrderInv
  <1> SUFFICES ASSUME Init PROVE OrderInv
    OBVIOUS
  <1>1. strand = <<>> /\ pending = <<>> /\ wire = <<>> /\ Len(strand) = 0 /\ Len(pending) = 0
        /\ Len(wire) = 0 /\ written = 0 /\ offset = 0
    BY DEF Init
  <1>2. EndInv /\ UnitsInOrder
    BY <1>1 DEF Init, EndInv, UnitsInOrder
  <1>3. 0 \in 0..written /\ Queued(0) /\ Pulled(0)
    BY <1>1 DEF Queued, Pulled
  <1> QED BY <1>2, <1>3 DEF OrderInv

(* However the pulls cut the frames, the bytes on the wire are the frames  *)
(* in the order of the Writes, each whole before the next begins, and      *)
(* END_STREAM comes behind the last byte of the last message written.      *)
THEOREM WireKeepsOrder == Safety => []WireInOrder
  BY InvInit, InvStep, OrderInit, OrderStep, OrderInvImplies, PTL DEF Safety
=============================================================================
