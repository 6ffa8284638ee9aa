-------------------------- MODULE StreamCallProofs --------------------------
(***************************************************************************)
(* Theorems about StreamCall for any number of messages, one thread or     *)
(* several, with a message queue and with a single response.               *)
(***************************************************************************)
EXTENDS StreamCall, SequenceTheorems, TLAPS

USE DEF peerVars

-----------------------------------------------------------------------------
(* A function on 1..n is a sequence.                                       *)
LEMMA FunctionSeq ==
    ASSUME NEW S, NEW n \in Nat, NEW f \in [1..n -> S]
    PROVE  f \in Seq(S) /\ Len(f) = n
  OBVIOUS

(* What the bytes of on_data complete is a sequence of messages.           *)
LEMMA CompletedType ==
    ASSUME NEW t, t.lo \in 1..(MaxMsgs + 1), t.hi \in 0..MaxMsgs, t.lo <= t.hi,
           partial \in 0..MaxMsgs
    PROVE  /\ Completed(t) \in Seq(Msg)
           /\ Completed(t)[t.hi + 1 - t.lo] \in 0..MaxMsgs
  <1> DEFINE m == t.hi + 1 - t.lo
             e(i) == IF i = 1 /\ partial # 0 THEN partial ELSE t.lo + i - 1
             f == [i \in 1..m |-> e(i)]
  <1>1. m \in Nat /\ m \in 1..m
    BY MaxMsgsAssumption
  <1>2. \A i \in 1..m : e(i) \in Msg
    BY MaxMsgsAssumption DEF Msg
  <1>3. f = Completed(t)
    BY DEF Completed
  <1>4. Msg \subseteq 0..MaxMsgs
    BY MaxMsgsAssumption DEF Msg
  <1> HIDE DEF m, e
  <1>5. f \in [1..m -> Msg] /\ f[m] \in Msg
    BY <1>1, <1>2
  <1> HIDE DEF f
  <1>6. f \in Seq(Msg)
    BY <1>1, <1>5, FunctionSeq
  <1> QED BY <1>3, <1>4, <1>5, <1>6 DEF m

(* A parser between messages, or inside the first message of t, completes  *)
(* the messages from t.lo to t.hi.                                         *)
Between(lo, hi) == [i \in 1..(hi + 1 - lo) |-> lo + i - 1]

LEMMA CompletedIs ==
    ASSUME NEW t, t.lo \in Nat, t.hi \in Nat, t.lo <= t.hi, partial \in {0, t.lo}
    PROVE  /\ Completed(t) = Between(t.lo, t.hi)
           /\ Completed(t)[t.hi + 1 - t.lo] = t.hi
  <1> DEFINE m == t.hi + 1 - t.lo
             e(i) == IF i = 1 /\ partial # 0 THEN partial ELSE t.lo + i - 1
  <1>1. m \in Nat /\ m \in 1..m /\ t.lo + m - 1 = t.hi
    OBVIOUS
  <1>2. \A i \in 1..m : e(i) = t.lo + i - 1
    OBVIOUS
  <1>3. Completed(t) = [i \in 1..m |-> e(i)] /\ Between(t.lo, t.hi) = [i \in 1..m |-> t.lo + i - 1]
    BY DEF Completed, Between
  <1> HIDE DEF m, e
  <1>4. [i \in 1..m |-> e(i)] = [i \in 1..m |-> t.lo + i - 1]
    BY <1>2
  <1>5. [i \in 1..m |-> t.lo + i - 1][m] = t.hi
    BY <1>1
  <1> QED BY <1>3, <1>4, <1>5 DEF m

(* Messages handed over in two batches arrive as in one.                   *)
LEMMA Associative ==
    \A x, y, z \in Seq(Msg) : x \o (y \o z) = (x \o y) \o z
  <1> SUFFICES ASSUME NEW x \in Seq(Msg), NEW y \in Seq(Msg), NEW z \in Seq(Msg)
               PROVE  x \o (y \o z) = (x \o y) \o z
    OBVIOUS
  <1> DEFINE l == x \o (y \o z)
             r == (x \o y) \o z
  <1>1. /\ Len(x) \in Nat /\ Len(y) \in Nat /\ Len(z) \in Nat
        /\ Len(x \o y) = Len(x) + Len(y) /\ x \o y \in Seq(Msg)
        /\ Len(y \o z) = Len(y) + Len(z) /\ y \o z \in Seq(Msg)
    OBVIOUS
  <1>2. l \in Seq(Msg) /\ r \in Seq(Msg) /\ Len(l) = Len(r) /\ Len(l) \in Nat
    BY <1>1
  <1>3. ASSUME NEW i \in 1..Len(l) PROVE l[i] = r[i]
    <2>1. CASE i <= Len(x)
      BY <1>1, <2>1
    <2>2. CASE i > Len(x) /\ i <= Len(x) + Len(y)
      BY <1>1, <2>2
    <2>3. CASE i > Len(x) + Len(y)
      BY <1>1, <2>3
    <2>4. \/ i <= Len(x)
          \/ i > Len(x) /\ i <= Len(x) + Len(y)
          \/ i > Len(x) + Len(y)
      <3>1. i \in Nat
        BY <1>2
      <3> HIDE DEF l
      <3> QED BY <1>1, <3>1
    <2> QED BY <2>1, <2>2, <2>3, <2>4, Zenon
  <1> HIDE DEF l, r
  <1>4. l = r
    BY <1>2, <1>3, SeqEqual
  <1> QED BY <1>4 DEF l, r

-----------------------------------------------------------------------------
(* The inductive invariant                                                  *)

Tasks == {strand[i] : i \in 1..Len(strand)}

(* The last message that a task of on_data has a header of.                *)
Top(t) == IF t.s = "none" THEN t.hi ELSE t.hi + 1

(* What may be posted behind what: one submission, the messages in their   *)
(* order, and no message behind the trailers.                              *)
MayFollow(s, t) ==
    /\ s.kind = "submit" => t.kind # "submit"
    /\ s.kind = "data" /\ t.kind = "data" => Top(s) < t.lo
    /\ s.kind = "trailers" => t.kind # "data"

Ordered ==
    \A i, j \in 1..Len(strand) : i < j => MayFollow(strand[i], strand[j])

(* A call is submitted once, the peer answers an open stream, and what is  *)
(* posted about a status or a cancellation says what happened.             *)
CallInv ==
    /\ \A t \in Tasks : t.kind = "submit" => call = "submitted" /\ ~pending
    /\ pending => call = "submitted"
    /\ call # "handle" => stream = "none"
    /\ stream \in {"none", "open"} => peerStatus = "none" /\ sent = 0
    /\ \A t \in Tasks : t.kind = "trailers" => t.s \in PeerStatus \cap {peerStatus}
    /\ \A t \in Tasks : t.kind = "cancel" => cancelAsked
    /\ \A t \in Tasks :
           t.kind = "close" => t.s \in CloseStatus /\ (t.s = "CANCELLED" => stream = "cancelled")
    /\ \A t \in Tasks : t.kind = "data" =>
           stream \notin {"none", "open"} /\ \A c \in ioc : c.kind # "trailersOnly"
    /\ \A c \in ioc : c.kind = "trailersOnly" =>
           c.s \in PeerStatus \cap {peerStatus} /\ sent = 0 /\ stream # "attached"

(* The messages that have left the strand towards the user, and those that *)
(* are still on it.                                                        *)
Got == received \o buffer

Taken == IF hasReader THEN Len(Got) ELSE response

DataTasks == {t \in Tasks : t.kind = "data"}

(* While the call is not closed, the messages the peer has completed are   *)
(* those taken and those on the strand, and the parser is inside the next  *)
(* one or inside none.                                                     *)
DataInv ==
    /\ \A t \in DataTasks :
           /\ t.s \in {"none", "BAD_RESPONSE"} /\ t.part \in {0, Top(t) + 1}
           /\ t.lo <= Top(t) + 1 /\ Top(t) <= sent
    /\ Taken <= sent
    /\ ~closed =>
           /\ partial \in {0, Taken + 1}
           /\ \A t \in DataTasks : Taken < t.lo
           /\ \A m \in (Taken + 1)..sent : \E t \in DataTasks : t.lo <= m /\ m <= Top(t)
    /\ hasReader \/ Got = <<>>

Reports == {c \in ioc : c.kind # "trailersOnly"}

(* One failure or close passes closed_, and a local status is written only *)
(* by its closure.                                                         *)
GateInv ==
    /\ \A c \in Reports : c.s \in LocalStatus \cup {"none"}
    /\ \A c, d \in Reports : c = d
    /\ ~closed \/ final \in LocalStatus => Reports = {}
    /\ ~closed => final \notin LocalStatus

(* A status of the peer's is written behind all its messages, and whoever  *)
(* knows of it has it from there.                                          *)
StatusInv ==
    /\ trailersDone => peerStatus \in PeerStatus /\ Taken = sent /\ DataTasks = {}
    /\ eos => trailersDone /\ hasReader /\ peerStatus = "OK"
    /\ {error, final, readEnd, finish} \cap PeerStatus \subseteq {peerStatus}
    /\ final \in PeerStatus => trailersDone
    /\ readEnd = "eos" => eos /\ buffer = <<>>
    /\ ~hasReader /\ finish = "OK" => trailersDone /\ response # 0

(* A cancellation that is reported, or about to be, has its reason.        *)
Cancelled == cancelAsked \/ conn = "kShutdown" \/ stream = "cancelled"

CancelInv ==
    "CANCELLED" \in {error, final, readEnd, finish} \cup {c.s : c \in ioc} => Cancelled

OrderInv == \A i \in 1..Len(Got) : Got[i] = i

Inv == Ordered /\ CallInv /\ DataInv /\ OrderInv /\ GateInv /\ StatusInv /\ CancelInv

-----------------------------------------------------------------------------
(* The strand                                                               *)

(* Starting the front task takes it away and leaves the others in order.   *)
LEMMA StartStep ==
    ASSUME NEW k, strand \in Seq(TaskType), StartTask(k)
    PROVE  /\ strand' \in Seq(TaskType)
           /\ Head(strand) \in Tasks /\ Head(strand) \in TaskType /\ Head(strand).kind = k
           /\ Tasks' \cup {Head(strand)} = Tasks
           /\ Ordered => Ordered' /\ \A t \in Tasks' : MayFollow(Head(strand), t)
  <1>1. /\ strand # <<>> /\ Len(strand) \in Nat /\ Len(strand) > 0 /\ Head(strand) = strand[1]
        /\ strand' = Tail(strand) /\ Len(strand') = Len(strand) - 1 /\ strand' \in Seq(TaskType)
        /\ Head(strand) \in TaskType /\ Head(strand).kind = k
    BY DEF StartTask
  <1>2. \A i \in 1..Len(strand') : i + 1 \in 1..Len(strand) /\ strand'[i] = strand[i + 1]
    BY <1>1
  <1>3. Tasks' \cup {Head(strand)} = Tasks
    <2>1. \A i \in 1..Len(strand) : i # 1 => i - 1 \in 1..Len(strand') /\ strand[i] = strand'[i - 1]
      BY <1>1, <1>2
    <2>2. 1 \in 1..Len(strand)
      BY <1>1
    <2> QED BY <1>1, <1>2, <2>1, <2>2 DEF Tasks
  <1>4. ASSUME Ordered PROVE Ordered'
    <2> SUFFICES ASSUME NEW i \in 1..Len(strand'), NEW j \in 1..Len(strand'), i < j
                 PROVE  MayFollow(strand'[i], strand'[j])
      BY DEF Ordered, MayFollow, Top
    <2>1. i + 1 < j + 1
      BY <1>1
    <2> QED BY <1>2, <1>4, <2>1 DEF Ordered
  <1>5. ASSUME Ordered, NEW t \in Tasks' PROVE MayFollow(Head(strand), t)
    <2>1. PICK i \in 1..Len(strand') : t = strand'[i]
      BY <1>5 DEF Tasks
    <2>2. 1 \in 1..Len(strand) /\ i + 1 \in 1..Len(strand) /\ 1 < i + 1 /\ t = strand[i + 1]
      BY <1>1, <1>2, <2>1
    <2> QED BY <1>1, <1>5, <2>2 DEF Ordered
  <1> QED BY <1>1, <1>3, <1>4, <1>5 DEF Tasks

(* A posted task goes behind all the others.                               *)
LEMMA PostStep ==
    ASSUME NEW t \in TaskType, strand \in Seq(TaskType), strand' = Append(strand, t)
    PROVE  /\ strand' \in Seq(TaskType)
           /\ Tasks' = Tasks \cup {t}
           /\ Ordered /\ (\A s \in Tasks : MayFollow(s, t)) => Ordered'
  <1>1. /\ strand' \in Seq(TaskType) /\ Len(strand) \in Nat /\ Len(strand') = Len(strand) + 1
        /\ \A i \in 1..Len(strand) : i \in 1..Len(strand') /\ strand'[i] = strand[i]
        /\ strand'[Len(strand) + 1] = t
    OBVIOUS
  <1>2. \A i \in 1..Len(strand') : i \in 1..Len(strand) \/ i = Len(strand) + 1
    BY <1>1
  <1>3. Len(strand) + 1 \in 1..Len(strand')
    BY <1>1
  <1>4. Tasks' = Tasks \cup {t}
    BY <1>1, <1>2, <1>3 DEF Tasks
  <1>5. ASSUME Ordered, \A s \in Tasks : MayFollow(s, t) PROVE Ordered'
    <2> SUFFICES ASSUME NEW i \in 1..Len(strand'), NEW j \in 1..Len(strand'), i < j
                 PROVE  MayFollow(strand'[i], strand'[j])
      BY DEF Ordered, MayFollow, Top
    <2>1. i \in 1..Len(strand) /\ strand'[i] = strand[i] /\ strand[i] \in Tasks
      BY <1>1, <1>2 DEF Tasks
    <2>2. CASE j \in 1..Len(strand)
      BY <1>1, <1>5, <2>1, <2>2 DEF Ordered
    <2>3. CASE j = Len(strand) + 1
      BY <1>1, <1>5, <2>1, <2>3
    <2> QED BY <1>2, <2>2, <2>3
  <1> QED BY <1>1, <1>4, <1>5

(* The tasks without a message have their type.                            *)
LEMMA TaskTypes ==
    /\ \A k \in {"submit", "cancel", "deadline"} : Task(k) \in TaskType /\ Task(k).kind = k
    /\ \A s \in CloseStatus : LET t == [Task("close") EXCEPT !.s = s] IN
           t \in TaskType /\ t.kind = "close" /\ t.s = s
  BY MaxMsgsAssumption DEF Task, TaskType, CloseStatus, Status, LocalStatus

-----------------------------------------------------------------------------
(* Types                                                                    *)

Reader == {"idle", "check", "arm", "waiting"}

Closing == \E s \in CloseStatus : StreamCloses(s)

(* A group of variables that does not change keeps its type.               *)
LEMMA Unchanged ==
    /\ ConnOK /\ UNCHANGED connVars => ConnOK'
    /\ GateOK /\ UNCHANGED gateVars => GateOK'
    /\ QueueOK /\ UNCHANGED queueVars => QueueOK'
    /\ StatusOK /\ UNCHANGED statusVars => StatusOK'
    /\ UserOK /\ UNCHANGED <<hasReader, userVars>> /\ reader' \in Reader => UserOK'
    /\ UserOK => reader \in Reader
    /\ WireOK /\ UNCHANGED wireVars => WireOK'
  <1>1. ConnOK /\ UNCHANGED connVars => ConnOK'
    BY DEF ConnOK, connVars
  <1>2. GateOK /\ UNCHANGED gateVars => GateOK'
    BY DEF GateOK, gateVars
  <1>3. QueueOK /\ UNCHANGED queueVars => QueueOK'
    BY DEF QueueOK, queueVars
  <1>4. StatusOK /\ UNCHANGED statusVars => StatusOK'
    BY DEF StatusOK, statusVars
  <1>5. UserOK /\ UNCHANGED <<hasReader, userVars>> /\ reader' \in Reader => UserOK'
    BY DEF UserOK, userVars, Reader
  <1>6. UserOK => reader \in Reader
    BY DEF UserOK, Reader
  <1>7. WireOK /\ UNCHANGED wireVars => WireOK'
    BY DEF WireOK, wireVars
  <1> QED BY <1>1, <1>2, <1>3, <1>4, <1>5, <1>6, <1>7

LEMMA Literals ==
    /\ PeerStatus \subseteq Status /\ LocalStatus \subseteq Status
    /\ PeerStatus \cap LocalStatus = {}
    /\ "none" \notin Status /\ "eos" \notin Status /\ "polling" \notin Status
    /\ {"CANCELLED", "DEADLINE", "UNAVAILABLE", "INVALID_ARGUMENT", "NOT_SENT",
        "BAD_RESPONSE", "NO_TRAILERS", "INTERNAL"} \subseteq LocalStatus
    /\ {"OK", "APP"} \subseteq PeerStatus /\ CloseStatus \subseteq LocalStatus
  BY DEF Status, PeerStatus, LocalStatus, CloseStatus

LEMMA FailType == ASSUME NEW s \in Status, GateOK, Fail(s) PROVE GateOK'
  <1>1. CASE closed
    BY <1>1 DEF Fail, gateVars, GateOK
  <1>2. CASE ~closed
    BY <1>2 DEF Fail, Closure, GateOK
  <1> QED BY <1>1, <1>2

LEMMA WakeType == reader \in Reader /\ Wake => reader' \in Reader
  BY DEF Wake, Reader

LEMMA RefuseType ==
    ASSUME NEW s \in Status, GateOK, Refuse(s)
    PROVE  GateOK' /\ UNCHANGED <<active, stream>> /\ call' = "handle"
  BY FailType DEF Refuse

LEMMA OnReadyType ==
    ASSUME GateOK, OnReady
    PROVE  /\ GateOK' /\ call' = "handle"
           /\ UNCHANGED <<active, stream>> \/ (active' = TRUE /\ stream' = "open")
  BY RefuseType, Literals DEF OnReady, Open, GateOK

LEMMA DeliverType ==
    ASSUME NEW s \in Status, QueueOK, StatusOK, reader \in Reader, MaybeDeliverStatus(s),
           UNCHANGED <<partial, buffer, response>>
    PROVE  QueueOK' /\ StatusOK' /\ reader' \in Reader
  <1>1. CASE hasReader
    BY <1>1, WakeType DEF MaybeDeliverStatus, QueueOK, StatusOK
  <1>2. CASE ~hasReader
    BY <1>2 DEF MaybeDeliverStatus, QueueOK, StatusOK
  <1> QED BY <1>1, <1>2

(* The task that on_data posts.                                            *)
DataTask(n, more, s) ==
    [kind |-> "data", lo |-> sent + 1, hi |-> IF s = "none" THEN sent + n ELSE sent + n - 1,
     part |-> IF more THEN sent + n + 1 ELSE 0, s |-> s]

LEMMA DataTaskType ==
    ASSUME NEW n \in 0..MaxMsgs, NEW more \in BOOLEAN, NEW s \in {"none", "BAD_RESPONSE"},
           WireOK, PeerData(n, more, s)
    PROVE  LET t == DataTask(n, more, s) IN
           /\ t \in TaskType /\ t.kind = "data" /\ t.s = s
           /\ t.lo = sent + 1 /\ Top(t) = sent' /\ t.part \in {0, sent' + 1}
           /\ sent \in Nat /\ sent' = sent + n /\ n \in Nat
           /\ sent' \in 0..MaxMsgs /\ cut' \in 0..MaxMsgs
           /\ strand' = Append(strand, t)
  <1> DEFINE t == DataTask(n, more, s)
  <1>1. /\ sent \in Nat /\ n \in Nat /\ sent + n + (IF more THEN 1 ELSE 0) <= MaxMsgs
        /\ sent' = sent + n /\ cut' = IF more THEN sent + n + 1 ELSE 0
        /\ n > 0 \/ more
        /\ more => s = "none"
    BY MaxMsgsAssumption DEF PeerData, WireOK
  <1>2. strand' = Append(strand, t)
    BY <1>1 DEF PeerData, DataTask
  <1>3. sent' \in 0..MaxMsgs /\ cut' \in 0..MaxMsgs
    BY <1>1, MaxMsgsAssumption
  <1>4. CASE s = "none"
    <2>1. t.lo = sent + 1 /\ t.hi = sent + n /\ t.kind = "data" /\ t.s = s
          /\ t.part = (IF more THEN sent + n + 1 ELSE 0) /\ t \in TaskType
      BY <1>1, <1>4, MaxMsgsAssumption DEF DataTask, TaskType
    <2> HIDE DEF t
    <2> QED BY <1>1, <1>2, <1>3, <1>4, <2>1 DEF Top, t
  <1>5. CASE s = "BAD_RESPONSE"
    <2>1. t.lo = sent + 1 /\ t.hi = sent + n - 1 /\ t.kind = "data" /\ t.s = s
          /\ t.part = 0 /\ t \in TaskType
      BY <1>1, <1>5, MaxMsgsAssumption, Literals DEF DataTask, TaskType
    <2> HIDE DEF t
    <2> QED BY <1>1, <1>2, <1>3, <1>5, <2>1 DEF Top, t
  <1> QED BY <1>4, <1>5

LEMMA TrailersTaskType ==
    ASSUME NEW s \in PeerStatus
    PROVE  LET t == [Task("trailers") EXCEPT !.s = s] IN
               t \in TaskType /\ t.kind = "trailers" /\ t.s = s
  BY MaxMsgsAssumption, Literals DEF Task, TaskType

LEMMA TypeStep == TypeOK /\ [Next]_vars => TypeOK'
  <1> SUFFICES ASSUME TypeOK, [Next]_vars PROVE TypeOK'
    OBVIOUS
  <1> USE Unchanged, Literals DEF TypeOK
  <1>1. CASE StartCall \/ UserCancel \/ TimerExpires \/ Closing
    <2>1. strand' \in Seq(TaskType)
      BY <1>1, TaskTypes, PostStep DEF StartCall, UserCancel, TimerExpires, Closing, StreamCloses
    <2>2. CASE StartCall \/ UserCancel
      <3>1. UserOK'
        BY <2>2 DEF StartCall, UserCancel, UserOK
      <3> QED BY <2>1, <2>2, <3>1 DEF StartCall, UserCancel
    <2>3. CASE TimerExpires
      <3>1. GateOK'
        BY <2>3 DEF TimerExpires, GateOK
      <3> QED BY <2>1, <2>3, <3>1 DEF TimerExpires
    <2>4. CASE Closing
      <3>1. WireOK'
        BY <2>4 DEF Closing, StreamCloses, WireOK, Ended
      <3> QED BY <2>1, <2>4, <3>1 DEF Closing, StreamCloses
    <2> QED BY <1>1, <2>2, <2>3, <2>4
  <1>2. CASE Read \/ PopArm
    BY <1>2 DEF Read, PopArm, Reader
  <1>3. CASE Finish \/ FinishReturns
    <2>1. UserOK'
      BY <1>3 DEF Finish, FinishReturns, UserOK, StatusOK
    <2> QED BY <1>3, <2>1 DEF Finish, FinishReturns
  <1>4. CASE PopCheck
    <2>1. buffer \in Seq(Msg) /\ received \in Seq(Msg) /\ error \in Status \cup {"none"}
      BY DEF QueueOK, UserOK
    <2>2. buffer' \in Seq(Msg) /\ received' \in Seq(Msg)
      <3>1. CASE buffer # <<>> /\ buffer' = Tail(buffer) /\ received' = Append(received, Head(buffer))
        BY <2>1, <3>1
      <3>2. CASE UNCHANGED <<buffer, received>>
        BY <2>1, <3>2
      <3> QED BY <1>4, <3>1, <3>2 DEF PopCheck
    <2>3. reader' \in Reader /\ readEnd' \in Status \cup {"none", "eos"}
      BY <1>4, <2>1 DEF PopCheck, Reader, UserOK
    <2>4. QueueOK'
      BY <1>4, <2>2 DEF PopCheck, QueueOK
    <2>5. UserOK'
      BY <1>4, <2>2, <2>3 DEF PopCheck, UserOK, Reader
    <2> QED BY <1>4, <2>4, <2>5 DEF PopCheck
  <1>5. CASE SubmitQueued
    <2>1. ConnOK' /\ strand' \in Seq(TaskType)
      BY <1>5, StartStep DEF SubmitQueued, ConnOK
    <2> QED BY <1>5, <2>1 DEF SubmitQueued
  <1>6. CASE SubmitMisconfigured
    <2>1. strand' \in Seq(TaskType)
      BY <1>6, StartStep DEF SubmitMisconfigured
    <2>2. GateOK' /\ UNCHANGED <<active, stream>> /\ call' = "handle"
      BY <1>6, RefuseType DEF SubmitMisconfigured
    <2>3. ConnOK' /\ UserOK' /\ WireOK'
      BY <1>6, <2>2 DEF SubmitMisconfigured, ConnOK, UserOK, WireOK
    <2> QED BY <1>6, <2>1, <2>2, <2>3 DEF SubmitMisconfigured
  <1>7. CASE SubmitSettled
    <2>1. strand' \in Seq(TaskType)
      BY <1>7, StartStep DEF SubmitSettled
    <2>2. /\ GateOK' /\ call' = "handle"
          /\ UNCHANGED <<active, stream>> \/ (active' = TRUE /\ stream' = "open")
      BY <1>7, RefuseType, OnReadyType DEF SubmitSettled
    <2>3. ConnOK' /\ UserOK' /\ WireOK'
      <3>1. ConnOK'
        BY <1>7, <2>2 DEF SubmitSettled, ConnOK
      <3>2. UserOK'
        BY <1>7, <2>2 DEF SubmitSettled, UserOK
      <3>3. WireOK'
        BY <1>7, <2>2 DEF SubmitSettled, WireOK, Alive
      <3> QED BY <3>1, <3>2, <3>3
    <2> QED BY <1>7, <2>1, <2>2, <2>3 DEF SubmitSettled
  <1>8. CASE RunDeadline
    <2>1. strand' \in Seq(TaskType) /\ GateOK'
      BY <1>8, StartStep, FailType DEF RunDeadline
    <2> QED BY <1>8, <2>1 DEF RunDeadline
  <1>9. CASE RunCancel
    <2>1. strand' \in Seq(TaskType) /\ GateOK'
      BY <1>9, StartStep, FailType DEF RunCancel
    <2>2. WireOK'
      BY <1>9 DEF RunCancel, WireOK
    <2> QED BY <1>9, <2>1, <2>2 DEF RunCancel
  <1>10. CASE RunData
    <2> DEFINE t == Head(strand)
    <2>1. t \in TaskType /\ strand' \in Seq(TaskType)
      BY <1>10, StartStep DEF RunData
    <2>2. /\ t.lo \in 1..(MaxMsgs + 1) /\ t.hi \in 0..MaxMsgs /\ t.part \in 0..MaxMsgs
          /\ t.s \in Status \cup {"none"}
      BY <2>1 DEF TaskType
    <2> HIDE DEF t
    <2>3. buffer' \in Seq(Msg)
      <3>1. t.lo <= t.hi => Completed(t) \in Seq(Msg)
        BY <2>2, CompletedType DEF QueueOK
      <3>2. buffer \in Seq(Msg)
        BY DEF QueueOK
      <3> HIDE DEF TypeOK
      <3>3. buffer' = buffer \/ (t.lo <= t.hi /\ buffer' = buffer \o Completed(t))
        BY <1>10 DEF RunData, t
      <3>4. CASE buffer' = buffer
        BY <3>2, <3>4
      <3>5. CASE t.lo <= t.hi /\ buffer' = buffer \o Completed(t)
        <4>1. Completed(t) \in Seq(Msg)
          BY <3>1, <3>5
        <4> HIDE <3>1
        <4> QED BY <3>2, <3>5, <4>1
      <3> QED BY <3>3, <3>4, <3>5
    <2>4. partial' \in 0..MaxMsgs /\ response' \in 0..MaxMsgs /\ reader' \in Reader
      <3>1. partial \in 0..MaxMsgs /\ response \in 0..MaxMsgs
        BY DEF QueueOK
      <3>2. t.lo <= t.hi => Completed(t)[t.hi + 1 - t.lo] \in 0..MaxMsgs
        BY <2>2, <3>1, CompletedType
      <3>3. /\ partial' \in {partial, t.part}
            /\ response' \in {response} \/ (t.lo <= t.hi /\ response' = Completed(t)[t.hi + 1 - t.lo])
            /\ Wake \/ UNCHANGED reader
        BY <1>10 DEF RunData, t
      <3> QED BY <2>2, <3>1, <3>2, <3>3, WakeType
    <2>5. GateOK'
      BY <1>10, <2>2, FailType DEF RunData, t
    <2>6. QueueOK'
      BY <1>10, <2>3, <2>4 DEF RunData, QueueOK
    <2> QED BY <1>10, <2>1, <2>4, <2>5, <2>6 DEF RunData
  <1>11. CASE RunTrailers
    <2> DEFINE t == Head(strand)
    <2>1. t \in TaskType /\ strand' \in Seq(TaskType)
      BY <1>11, StartStep DEF RunTrailers
    <2>2. CASE closed
      <3>1. QueueOK' /\ StatusOK'
        BY <1>11, <2>2 DEF RunTrailers, QueueOK, StatusOK
      <3> QED BY <1>11, <2>1, <2>2, <3>1 DEF RunTrailers
    <2>3. CASE ~closed /\ t.s \in Status
      <3>1. QueueOK' /\ StatusOK' /\ reader' \in Reader
        BY <1>11, <2>3, DeliverType DEF RunTrailers
      <3> QED BY <1>11, <2>1, <3>1 DEF RunTrailers
    <2>4. CASE ~closed /\ t.s = "none"
      <3>1. QueueOK' /\ StatusOK' /\ reader' \in Reader
        BY <1>11, <2>4, WakeType DEF RunTrailers, MaybeDeliverStatus, QueueOK, StatusOK
      <3> QED BY <1>11, <2>1, <3>1 DEF RunTrailers
    <2>5. t.s \in Status \cup {"none"}
      BY <2>1 DEF TaskType
    <2> QED BY <2>2, <2>3, <2>4, <2>5
  <1>12. CASE RunClose
    <2>1. strand' \in Seq(TaskType) /\ ConnOK'
      BY <1>12, StartStep DEF RunClose, ConnOK
    <2>2. GateOK'
      <3>1. CASE closed
        BY <1>12, <3>1 DEF RunClose
      <3>2. CASE ~closed
        <4>1. Head(strand).s \in Status \cup {"none"}
          BY <1>12, StartStep DEF RunClose, TaskType
        <4> QED BY <1>12, <3>2, <4>1 DEF RunClose, Closure, GateOK
      <3> QED BY <3>1, <3>2
    <2> QED BY <1>12, <2>1, <2>2 DEF RunClose
  <1>13. CASE RunReport
    <2>1. PICK c \in ioc : /\ ioc' = ioc \ {c}
                           /\ IF c.s = "none"
                              THEN UNCHANGED <<error, reader, final>>
                              ELSE Report(c.s)
      BY <1>13 DEF RunReport
    <2>2. c.s \in Status \cup {"none"} /\ GateOK'
      BY <1>13, <2>1 DEF RunReport, GateOK
    <2>3. error' \in Status \cup {"none"} /\ final' \in Status \cup {"none"} /\ reader' \in Reader
      BY <2>1, <2>2, WakeType DEF Report, QueueOK, StatusOK
    <2>4. QueueOK' /\ StatusOK'
      BY <1>13, <2>3 DEF RunReport, QueueOK, StatusOK
    <2> QED BY <1>13, <2>2, <2>3, <2>4 DEF RunReport
  <1>14. CASE RunTrailersOnly
    <2>1. PICK c \in ioc :
             /\ ioc' = ioc \ {c} /\ closed' = TRUE
             /\ IF closed
                THEN UNCHANGED <<timer, trailersDone, final, eos, error, reader>>
                ELSE /\ timer' = IF timer = "armed" THEN "off" ELSE timer
                     /\ MaybeDeliverStatus(c.s)
      BY <1>14 DEF RunTrailersOnly
    <2>2. GateOK' /\ c.s \in Status \cup {"none"}
      BY <2>1 DEF GateOK
    <2>3. UNCHANGED <<partial, buffer, response>>
      BY <1>14 DEF RunTrailersOnly
    <2>4. QueueOK' /\ StatusOK' /\ reader' \in Reader
      <3>1. CASE closed
        BY <2>1, <2>3, <3>1 DEF QueueOK, StatusOK
      <3>2. CASE ~closed /\ c.s \in Status
        BY <2>1, <2>3, <3>2, DeliverType
      <3>3. CASE ~closed /\ c.s = "none"
        BY <2>1, <2>3, <3>3, WakeType DEF MaybeDeliverStatus, QueueOK, StatusOK
      <3> QED BY <2>2, <3>1, <3>2, <3>3
    <2> QED BY <1>14, <2>2, <2>4 DEF RunTrailersOnly
  <1>15. CASE Connected
    <2>1. CASE ~pending
      <3>1. ConnOK' /\ UserOK' /\ WireOK'
        <4>1. ConnOK'
          BY <1>15, <2>1 DEF Connected, ConnOK
        <4>2. UserOK'
          BY <1>15, <2>1 DEF Connected, UserOK
        <4>3. WireOK'
          BY <1>15, <2>1 DEF Connected, WireOK
        <4> QED BY <4>1, <4>2, <4>3
      <3> QED BY <1>15, <2>1, <3>1 DEF Connected
    <2>2. CASE pending
      <3>1. /\ GateOK' /\ call' = "handle"
            /\ UNCHANGED <<active, stream>> \/ (active' = TRUE /\ stream' = "open")
        BY <1>15, <2>2, OnReadyType DEF Connected
      <3>2. ConnOK' /\ UserOK' /\ WireOK'
        <4>1. ConnOK'
          BY <1>15, <3>1 DEF Connected, ConnOK
        <4>2. UserOK'
          BY <1>15, <3>1 DEF Connected, UserOK
        <4>3. WireOK'
          BY <1>15, <3>1 DEF Connected, WireOK, Alive
        <4> QED BY <4>1, <4>2, <4>3
      <3> QED BY <1>15, <3>1, <3>2 DEF Connected
    <2> QED BY <2>1, <2>2
  <1>16. CASE ConnectFails
    <2>1. GateOK' /\ UNCHANGED <<active, stream>> /\ call' \in {call, "handle"}
      BY <1>16, RefuseType DEF ConnectFails
    <2>2. ConnOK' /\ UserOK' /\ WireOK'
      <3>1. ConnOK'
        BY <1>16, <2>1 DEF ConnectFails, ConnOK
      <3>2. UserOK'
        BY <1>16, <2>1 DEF ConnectFails, UserOK
      <3>3. WireOK'
        BY <1>16, <2>1 DEF ConnectFails, WireOK
      <3> QED BY <3>1, <3>2, <3>3
    <2> QED BY <1>16, <2>1, <2>2 DEF ConnectFails
  <1>17. CASE Goaway
    <2>1. GateOK' /\ ConnOK'
      BY <1>17, FailType DEF Goaway, ConnOK
    <2> QED BY <1>17, <2>1 DEF Goaway
  <1>18. CASE DoShutdown
    <2>1. GateOK'
      BY <1>18, FailType DEF DoShutdown
    <2>2. ConnOK' /\ UserOK'
      BY <1>18 DEF DoShutdown, ConnOK, UserOK
    <2> QED BY <1>18, <2>1, <2>2 DEF DoShutdown
  <1>19. CASE AttachRejects \/ Attach
    <2>1. GateOK' /\ WireOK'
      BY <1>19, FailType DEF AttachRejects, Attach, WireOK, Alive
    <2> QED BY <1>19, <2>1 DEF AttachRejects, Attach
  <1>20. ASSUME NEW s \in PeerStatus, AttachTrailersOnly(s) PROVE TypeOK'
    <2>1. GateOK' /\ WireOK'
      BY <1>20 DEF AttachTrailersOnly, Closure, GateOK, WireOK, Alive
    <2> QED BY <1>20, <2>1 DEF AttachTrailersOnly
  <1>21. ASSUME NEW s \in PeerStatus, PeerTrailers(s) PROVE TypeOK'
    <2>1. [Task("trailers") EXCEPT !.s = s] \in TaskType
      BY TrailersTaskType
    <2>2. strand' \in Seq(TaskType) /\ WireOK'
      BY <1>21, <2>1, PostStep DEF PeerTrailers, WireOK
    <2> QED BY <1>21, <2>2 DEF PeerTrailers
  <1>22. ASSUME NEW n \in 0..MaxMsgs, NEW more \in BOOLEAN,
                NEW s \in {"none", "BAD_RESPONSE"}, PeerData(n, more, s)
         PROVE  TypeOK'
    <2>1. DataTask(n, more, s) \in TaskType /\ strand' = Append(strand, DataTask(n, more, s))
      BY <1>22, DataTaskType
    <2>2. strand' \in Seq(TaskType)
      BY <2>1, PostStep
    <2>3. WireOK'
      BY <1>22, DataTaskType DEF PeerData, WireOK
    <2> QED BY <1>22, <2>2, <2>3 DEF PeerData
  <1>23. CASE UNCHANGED vars
    BY <1>23 DEF vars
  <1> HIDE DEF TypeOK
  <1> QED
    BY <1>1, <1>2, <1>3, <1>4, <1>5, <1>6, <1>7, <1>8, <1>9, <1>10, <1>11, <1>12, <1>13,
       <1>14, <1>15, <1>16, <1>17, <1>18, <1>19, <1>20, <1>21, <1>22, <1>23
    DEF Closing, Next, Pop, RunTask, Submit, RunClosure, ChannelEvent, Peer

LEMMA TypeInit == Init => TypeOK
  <1> SUFFICES ASSUME Init PROVE TypeOK
    OBVIOUS
  <1>1. \A S : <<>> \in Seq(S)
    OBVIOUS
  <1>2. strand \in Seq(TaskType) /\ buffer \in Seq(Msg) /\ received \in Seq(Msg)
    BY <1>1 DEF Init
  <1>3. ConnOK /\ GateOK /\ StatusOK
    BY DEF Init, ConnOK, GateOK, StatusOK
  <1>4. QueueOK
    <2>1. partial \in 0..MaxMsgs /\ response \in 0..MaxMsgs
      BY MaxMsgsAssumption DEF Init
    <2>2. error \in Status \cup {"none"} /\ eos \in BOOLEAN
      BY DEF Init
    <2> QED BY <1>2, <2>1, <2>2 DEF QueueOK
  <1>5. UserOK
    BY <1>2 DEF Init, UserOK
  <1>6. WireOK
    <2>1. sent \in 0..MaxMsgs /\ cut \in 0..MaxMsgs
      BY MaxMsgsAssumption DEF Init
    <2>2. /\ stream \in Alive \cup Ended \cup {"none"} /\ rst \in BOOLEAN
          /\ peerStatus \in PeerStatus \cup {"none"}
      BY DEF Init
    <2> QED BY <2>1, <2>2 DEF WireOK
  <1> QED BY <1>2, <1>3, <1>4, <1>5, <1>6 DEF TypeOK

(* Every variable of a streaming call keeps its type: in particular every  *)
(* message that reaches the queue is one the peer may have sent.           *)
THEOREM StreamTypeCorrect == Safety => []TypeOK
  BY TypeInit, TypeStep, PTL DEF Safety

-----------------------------------------------------------------------------
(* What steps do to the strand, the gate and the messages                   *)

Sending ==
    \E n \in 0..MaxMsgs, more \in BOOLEAN, s \in {"none", "BAD_RESPONSE"} : PeerData(n, more, s)

Posting ==
    \/ StartCall \/ UserCancel \/ TimerExpires \/ Closing
    \/ \E s \in PeerStatus : PeerTrailers(s)
    \/ Sending

Starting == Submit \/ RunDeadline \/ RunCancel \/ RunData \/ RunTrailers \/ RunClose

(* A step that neither posts nor starts a task leaves the strand alone.    *)
LEMMA StrandStays == [Next]_vars /\ ~Posting /\ ~Starting => UNCHANGED strand
  BY DEF Next, Posting, Closing, Sending, Starting, RunTask, Pop, RunClosure, ChannelEvent, Peer, Read, PopCheck,
         PopArm, Finish, FinishReturns, RunReport, RunTrailersOnly, Connected, ConnectFails,
         Goaway, DoShutdown, AttachRejects, Attach, AttachTrailersOnly, vars

(* Without a post there is nothing new on the strand.                      *)
LEMMA QuietStep ==
    ASSUME TypeOK, Ordered, Starting \/ UNCHANGED strand
    PROVE  Tasks' \subseteq Tasks /\ Ordered'
  <1>1. CASE Starting
    <2>1. PICK k \in {"submit", "deadline", "cancel", "data", "trailers", "close"} : StartTask(k)
      BY <1>1 DEF Starting, Submit, SubmitQueued, SubmitMisconfigured, SubmitSettled, RunDeadline,
                  RunCancel, RunData, RunTrailers, RunClose
    <2> QED BY <2>1, StartStep DEF TypeOK
  <1>2. CASE UNCHANGED strand
    BY <1>2 DEF Tasks, Ordered
  <1> QED BY <1>1, <1>2

(* What is posted without a message or a status.                           *)
LEMMA PlainPost ==
    ASSUME TypeOK, StartCall \/ UserCancel \/ TimerExpires \/ Closing
    PROVE  \E t \in TaskType :
              /\ strand' = Append(strand, t)
              /\ t.kind \in {"submit", "cancel", "deadline", "close"}
              /\ t.kind = "submit" <=> StartCall
              /\ t.kind = "cancel" <=> UserCancel
              /\ t.kind = "close" =>
                     Closing /\ t.s \in CloseStatus /\ (t.s = "CANCELLED" => stream' = "cancelled")
  <1>1. CASE StartCall
    <2>1. ~UserCancel
      BY <1>1 DEF StartCall, UserCancel
    <2> QED BY <1>1, <2>1, TaskTypes DEF StartCall
  <1>2. CASE UserCancel
    <2>1. ~StartCall
      BY <1>2 DEF StartCall, UserCancel
    <2> QED BY <1>2, <2>1, TaskTypes DEF UserCancel
  <1>3. CASE TimerExpires
    <2>1. ~StartCall /\ ~UserCancel
      BY <1>3 DEF StartCall, UserCancel, TimerExpires, gateVars
    <2> QED BY <1>3, <2>1, TaskTypes DEF TimerExpires
  <1>4. CASE Closing
    <2>1. PICK s \in CloseStatus : StreamCloses(s)
      BY <1>4 DEF Closing
    <2>2. ~StartCall /\ ~UserCancel
      BY <2>1 DEF StartCall, UserCancel, StreamCloses, wireVars, Alive
    <2> DEFINE t == [Task("close") EXCEPT !.s = s]
    <2>3. t \in TaskType /\ t.kind = "close" /\ t.s = s
      BY TaskTypes
    <2>4. strand' = Append(strand, t) /\ (s = "CANCELLED" => stream' = "cancelled")
      BY <2>1 DEF StreamCloses
    <2> HIDE DEF t
    <2> QED BY <1>4, <2>2, <2>3, <2>4
  <1> QED BY <1>1, <1>2, <1>3, <1>4

(* Tasks are posted in their order.                                        *)
LEMMA OrderedStep ==
    ASSUME TypeOK, Ordered, CallInv, DataInv, [Next]_vars
    PROVE  Ordered'
  <1>1. CASE Starting \/ UNCHANGED strand
    BY <1>1, QuietStep
  <1>2. CASE StartCall \/ UserCancel \/ TimerExpires \/ Closing
    <2>1. PICK t \in TaskType :
              /\ strand' = Append(strand, t)
              /\ t.kind \in {"submit", "cancel", "deadline", "close"}
              /\ t.kind = "submit" <=> StartCall
      BY <1>2, PlainPost
    <2>2. \A s \in Tasks : MayFollow(s, t)
      BY <2>1 DEF MayFollow, CallInv, StartCall
    <2> QED BY <2>1, <2>2, PostStep DEF TypeOK
  <1>3. ASSUME NEW s \in PeerStatus, PeerTrailers(s) PROVE Ordered'
    <2> DEFINE t == [Task("trailers") EXCEPT !.s = s]
    <2>1. t \in TaskType /\ t.kind = "trailers"
      BY TrailersTaskType
    <2>2. strand' = Append(strand, t)
      BY <1>3 DEF PeerTrailers
    <2> HIDE DEF t
    <2>3. \A r \in Tasks : MayFollow(r, t)
      BY <2>1 DEF MayFollow
    <2> QED BY <2>1, <2>2, <2>3, PostStep DEF TypeOK
  <1>4. ASSUME NEW n \in 0..MaxMsgs, NEW more \in BOOLEAN,
               NEW s \in {"none", "BAD_RESPONSE"}, PeerData(n, more, s)
        PROVE  Ordered'
    <2> DEFINE t == DataTask(n, more, s)
    <2>1. t \in TaskType /\ t.kind = "data" /\ t.lo = sent + 1 /\ sent \in Nat
          /\ strand' = Append(strand, t)
      BY <1>4, DataTaskType DEF TypeOK
    <2> HIDE DEF t
    <2>2. ASSUME NEW r \in Tasks PROVE MayFollow(r, t)
      <3>1. r.kind # "trailers"
        BY <1>4, <2>2, Literals DEF PeerData, CallInv
      <3>2. r.kind = "data" => Top(r) < t.lo
        <4> SUFFICES ASSUME r.kind = "data" PROVE Top(r) < t.lo
          OBVIOUS
        <4>1. r \in TaskType
          BY <2>2 DEF TypeOK, Tasks
        <4>2. Top(r) \in Nat
          BY <4>1, MaxMsgsAssumption DEF Top, TaskType
        <4>3. Top(r) <= sent
          BY <2>2 DEF DataInv, DataTasks
        <4> QED BY <2>1, <4>2, <4>3
      <3> QED BY <2>1, <3>1, <3>2 DEF MayFollow
    <2> QED BY <2>1, <2>2, PostStep DEF TypeOK
  <1> QED BY <1>1, <1>2, <1>3, <1>4, StrandStays DEF Posting, Sending

(* The gate is passed once, by a failure or by the close, and a failure    *)
(* with CANCELLED has its reason.                                          *)
Passes(k, s) == ~closed /\ closed' = TRUE /\ ioc' = ioc \cup {Closure(k, s)}

Reason(s) == s = "CANCELLED" => Cancelled'

GateStep ==
    \/ UNCHANGED <<closed, ioc>>
    \/ \E k \in {"fail", "close"}, s \in LocalStatus \cup {"none"} : Passes(k, s) /\ Reason(s)
    \/ RunReport
    \/ RunTrailersOnly
    \/ \E s \in PeerStatus : AttachTrailersOnly(s)

LEMMA FailPasses ==
    ASSUME NEW s \in LocalStatus, Fail(s), Reason(s)
    PROVE  GateStep
  BY DEF Fail, gateVars, GateStep, Passes

LEMMA StepIsGateStep == TypeOK /\ CallInv /\ DataInv /\ [Next]_vars => GateStep
  <1> SUFFICES ASSUME TypeOK, CallInv, DataInv, [Next]_vars PROVE GateStep
    OBVIOUS
  <1>1. CASE UNCHANGED <<closed, ioc>>
    BY <1>1 DEF GateStep
  <1>2. ASSUME NEW s \in {"DEADLINE", "NOT_SENT", "UNAVAILABLE", "BAD_RESPONSE",
                          "INVALID_ARGUMENT"}, Fail(s)
        PROVE  GateStep
    BY <1>2, FailPasses, Literals DEF Reason, Cancelled
  <1>3. OnReady => GateStep
    BY <1>1, <1>2 DEF OnReady, Refuse, Open
  <1>4. CASE Submit
    <2>1. conn' = "kShutdown" /\ Fail("CANCELLED") => GateStep
      BY FailPasses, Literals DEF Reason, Cancelled
    <2> QED BY <1>1, <1>2, <1>3, <1>4, <2>1
            DEF Submit, SubmitQueued, SubmitMisconfigured, SubmitSettled, Refuse, gateVars
  <1>5. CASE RunDeadline
    BY <1>2, <1>5 DEF RunDeadline
  <1>6. CASE RunCancel
    <2>1. cancelAsked' = cancelAsked /\ cancelAsked
      BY <1>6, StartStep DEF RunCancel, userVars, TypeOK, CallInv
    <2>2. Reason("CANCELLED")
      BY <2>1 DEF Reason, Cancelled
    <2> QED BY <1>1, <1>6, <2>2, FailPasses, Literals DEF RunCancel, gateVars
  <1>7. CASE RunData
    <2>1. Head(strand) \in Tasks /\ Head(strand).kind = "data"
      BY <1>7, StartStep DEF RunData, TypeOK
    <2>2. Head(strand).s \in {"none", "BAD_RESPONSE"}
      BY <1>7, <2>1 DEF DataInv, DataTasks
    <2> QED BY <1>1, <1>2, <1>7, <2>2 DEF RunData, gateVars
  <1>8. CASE RunClose
    <2>1. PICK s \in {"none", Head(strand).s} :
              IF closed THEN UNCHANGED gateVars
                        ELSE closed' = TRUE /\ ioc' = ioc \cup {Closure("close", s)}
      BY <1>8 DEF RunClose
    <2>2. Head(strand) \in Tasks /\ Head(strand).kind = "close" /\ stream' = stream
      BY <1>8, StartStep DEF RunClose, TypeOK, wireVars
    <2>3. /\ Head(strand).s \in CloseStatus
          /\ Head(strand).s = "CANCELLED" => stream' = "cancelled"
      BY <2>2 DEF CallInv
    <2>4. Reason(s) /\ s \in LocalStatus \cup {"none"}
      BY <2>3, Literals DEF Reason, Cancelled
    <2> QED BY <1>1, <2>1, <2>4 DEF GateStep, Passes, gateVars
  <1>9. CASE ChannelEvent
    <2>1. CASE Connected \/ ConnectFails
      BY <1>1, <1>2, <1>3, <2>1 DEF Connected, ConnectFails, Refuse, gateVars
    <2>2. CASE Goaway
      BY <1>1, <1>2, <2>2 DEF Goaway, gateVars
    <2>3. CASE DoShutdown
      <3>1. Reason("CANCELLED")
        BY <2>3 DEF DoShutdown, Reason, Cancelled
      <3> QED BY <1>1, <2>3, <3>1, FailPasses, Literals DEF DoShutdown, gateVars
    <2> QED BY <1>9, <2>1, <2>2, <2>3 DEF ChannelEvent
  <1>10. CASE Peer
    BY <1>1, <1>2, <1>10 DEF Peer, GateStep, AttachRejects, Attach, StreamCloses, PeerTrailers,
                             PeerData, gateVars
  <1>11. ~(\/ Submit \/ RunDeadline \/ RunCancel \/ RunData \/ RunClose \/ ChannelEvent \/ Peer
           \/ RunClosure)
            => UNCHANGED <<closed, ioc>>
    BY DEF Next, RunTask, Pop, StartCall, UserCancel, Read, PopCheck, PopArm, Finish,
           FinishReturns, RunTrailers, TimerExpires, gateVars, vars
  <1>12. CASE RunClosure
    BY <1>12 DEF RunClosure, GateStep
  <1> QED
    BY <1>1, <1>4, <1>5, <1>6, <1>7, <1>8, <1>9, <1>10, <1>11, <1>12

(* What a closure of a trailers-only response says was said by Attach.     *)
LEMMA TrailersOnlyStays ==
    ASSUME GateStep, \A s \in PeerStatus : ~AttachTrailersOnly(s)
    PROVE  \A c \in ioc' : c.kind = "trailersOnly" => c \in ioc
  <1>1. ASSUME NEW k \in {"fail", "close"}, NEW s, Passes(k, s)
        PROVE  \A c \in ioc' : c.kind = "trailersOnly" => c \in ioc
    BY <1>1 DEF Passes, Closure
  <1> QED BY <1>1 DEF GateStep, RunReport, RunTrailersOnly

(* The call, its stream and its peer                                        *)
callState == <<call, pending, stream, peerStatus, sent, cancelAsked>>

LEMMA SubmitFinds ==
    ASSUME TypeOK, Ordered, CallInv, StartTask("submit")
    PROVE  /\ call = "submitted" /\ ~pending
           /\ \A t \in Tasks' : t \in Tasks /\ t.kind # "submit"
  BY StartStep DEF TypeOK, CallInv, MayFollow

LEMMA CallStep ==
    ASSUME TypeOK, Ordered, CallInv, DataInv, [Next]_vars
    PROVE  CallInv'
  <1>0. GateStep
    BY StepIsGateStep
  <1>1. (\A s \in PeerStatus : ~AttachTrailersOnly(s))
            => \A c \in ioc' : c.kind = "trailersOnly" => c \in ioc
    BY <1>0, TrailersOnlyStays
  <1> USE DEF wireVars, userVars, connVars
  <1>2. CASE Tasks' \subseteq Tasks /\ UNCHANGED callState
             /\ \A s \in PeerStatus : ~AttachTrailersOnly(s)
    BY <1>1, <1>2 DEF CallInv, callState
  <1>3. CASE StartCall \/ UserCancel \/ TimerExpires \/ Closing
    <2>1. PICK t \in TaskType :
              /\ strand' = Append(strand, t)
              /\ t.kind \in {"submit", "cancel", "deadline", "close"}
              /\ t.kind = "submit" <=> StartCall
              /\ t.kind = "cancel" <=> UserCancel
              /\ t.kind = "close" =>
                     Closing /\ t.s \in CloseStatus /\ (t.s = "CANCELLED" => stream' = "cancelled")
      BY <1>3, PlainPost
    <2>2. Tasks' = Tasks \cup {t}
      BY <2>1, PostStep DEF TypeOK
    <2>3. ioc' = ioc
      BY <1>3 DEF StartCall, UserCancel, TimerExpires, Closing, StreamCloses, gateVars
    <2>4. CASE StartCall
      BY <2>1, <2>2, <2>3, <2>4 DEF StartCall, CallInv
    <2>5. CASE UserCancel
      BY <2>1, <2>2, <2>3, <2>5 DEF UserCancel, CallInv
    <2>6. CASE TimerExpires
      <3>1. t.kind \in {"deadline", "close"}
        BY <2>1, <2>6 DEF TimerExpires, StartCall, UserCancel, gateVars
      <3> QED BY <2>1, <2>2, <2>3, <2>6, <3>1 DEF TimerExpires, CallInv
    <2>7. CASE Closing
      <3>1. t.kind \in {"deadline", "close"}
        BY <2>1, <2>7 DEF Closing, StreamCloses, StartCall, UserCancel, Alive
      <3>2. /\ UNCHANGED <<call, pending, cancelAsked, peerVars>>
            /\ stream \in Alive /\ stream' \in Ended
        BY <2>7 DEF Closing, StreamCloses, Ended
      <3> QED BY <2>1, <2>2, <2>3, <3>1, <3>2 DEF CallInv, Alive, Ended
    <2> QED BY <1>3, <2>4, <2>5, <2>6, <2>7
  <1>4. ASSUME NEW s \in PeerStatus, PeerTrailers(s) PROVE CallInv'
    <2> DEFINE t == [Task("trailers") EXCEPT !.s = s]
    <2>1. t \in TaskType /\ t.kind = "trailers" /\ t.s = s
      BY TrailersTaskType
    <2>2. strand' = Append(strand, t)
      BY <1>4 DEF PeerTrailers
    <2> HIDE DEF t
    <2>3. Tasks' = Tasks \cup {t}
      BY <2>1, <2>2, PostStep DEF TypeOK
    <2> QED BY <1>4, <2>1, <2>3, Literals DEF PeerTrailers, CallInv, gateVars
  <1>5. ASSUME NEW n \in 0..MaxMsgs, NEW more \in BOOLEAN,
               NEW s \in {"none", "BAD_RESPONSE"}, PeerData(n, more, s)
        PROVE  CallInv'
    <2> DEFINE t == DataTask(n, more, s)
    <2>1. t \in TaskType /\ t.kind = "data" /\ strand' = Append(strand, t)
      BY <1>5, DataTaskType DEF TypeOK
    <2> HIDE DEF t
    <2>2. Tasks' = Tasks \cup {t}
      BY <2>1, PostStep DEF TypeOK
    <2> QED BY <1>5, <2>1, <2>2, Literals DEF PeerData, CallInv, gateVars
  <1>6. CASE Submit
    <2>1. StartTask("submit")
      BY <1>6 DEF Submit, SubmitQueued, SubmitMisconfigured, SubmitSettled
    <2>2. /\ call = "submitted" /\ ~pending /\ stream = "none"
          /\ \A t \in Tasks' : t \in Tasks /\ t.kind # "submit"
      BY <2>1, SubmitFinds DEF CallInv
    <2>3. /\ UNCHANGED <<peerStatus, sent, cancelAsked>>
          /\ \/ UNCHANGED <<call, stream>> /\ pending' = TRUE
             \/ call' = "handle" /\ stream' \in {"none", "open"} /\ UNCHANGED pending
      BY <1>6, <2>2 DEF Submit, SubmitQueued, SubmitMisconfigured, SubmitSettled, Refuse,
                        OnReady, Open
    <2>4. \A s \in PeerStatus : ~AttachTrailersOnly(s)
      BY <2>2 DEF AttachTrailersOnly
    <2> QED BY <1>1, <2>2, <2>3, <2>4 DEF CallInv
  <1>7. CASE Connected \/ ConnectFails \/ DoShutdown
    <2>1. UNCHANGED <<strand, peerStatus, sent, cancelAsked>> /\ ~pending'
      BY <1>7 DEF Connected, ConnectFails, DoShutdown
    <2>2. CASE ~pending
      <3>1. UNCHANGED <<call, stream>>
        BY <1>7, <2>2 DEF Connected, ConnectFails, DoShutdown
      <3>2. \A s \in PeerStatus : ~AttachTrailersOnly(s)
        BY <3>1 DEF AttachTrailersOnly
      <3> QED BY <1>1, <2>1, <2>2, <3>1, <3>2 DEF CallInv, Tasks
    <2>3. CASE pending
      <3>1. stream = "none" /\ call' = "handle" /\ stream' \in {"none", "open"}
        BY <1>7, <2>3 DEF Connected, ConnectFails, DoShutdown, CallInv, Refuse, OnReady, Open
      <3>2. \A t \in Tasks : t.kind # "submit"
        BY <2>3 DEF CallInv
      <3>3. \A s \in PeerStatus : ~AttachTrailersOnly(s)
        BY <3>1 DEF AttachTrailersOnly
      <3> QED BY <1>1, <2>1, <3>1, <3>2, <3>3 DEF CallInv, Tasks
    <2> QED BY <2>2, <2>3
  <1>8. CASE AttachRejects \/ Attach
    <2>1. UNCHANGED <<strand, call, pending, peerStatus, sent, cancelAsked>>
          /\ stream = "open" /\ stream' \in {"deaf", "attached"}
      BY <1>8 DEF AttachRejects, Attach
    <2>2. peerStatus = "none" /\ call = "handle"
      BY <2>1 DEF CallInv
    <2>3. \A s \in PeerStatus : ~AttachTrailersOnly(s)
      BY <2>1, <2>2, Literals DEF AttachTrailersOnly
    <2>4. \A c \in ioc : c.kind # "trailersOnly"
      BY <2>2, Literals DEF CallInv
    <2> QED BY <1>1, <2>1, <2>2, <2>3, <2>4 DEF CallInv, Tasks
  <1>9. ASSUME NEW s \in PeerStatus, AttachTrailersOnly(s) PROVE CallInv'
    <2>1. peerStatus = "none" /\ sent = 0 /\ call = "handle"
      BY <1>9 DEF AttachTrailersOnly, CallInv
    <2>2. /\ \A c \in ioc : c.kind # "trailersOnly"
          /\ \A t \in Tasks : t.kind # "trailers"
      BY <2>1, Literals DEF CallInv
    <2> QED BY <1>9, <2>1, <2>2 DEF AttachTrailersOnly, CallInv, Closure, Tasks
  <1>10. CASE RunDeadline \/ RunCancel \/ RunData \/ RunTrailers \/ RunClose \/ RunClosure \/ Pop
              \/ Read \/ Finish \/ FinishReturns \/ Goaway \/ UNCHANGED vars
    <2>1. UNCHANGED callState
      BY <1>10 DEF RunDeadline, RunCancel, RunData, RunTrailers, RunClose, RunClosure, RunReport,
                   RunTrailersOnly, Pop, PopCheck, PopArm, Read, Finish, FinishReturns, Goaway,
                   callState, vars
    <2>2. \A s \in PeerStatus : ~AttachTrailersOnly(s)
      BY <2>1, Literals DEF AttachTrailersOnly, callState
    <2>3. Starting \/ UNCHANGED strand
      BY <1>10 DEF Starting, RunClosure, RunReport, RunTrailersOnly, Pop, PopCheck, PopArm, Read,
                   Finish, FinishReturns, Goaway, vars
    <2> QED BY <1>2, <2>1, <2>2, <2>3, QuietStep
  <1> QED
    BY <1>3, <1>4, <1>5, <1>6, <1>7, <1>8, <1>9, <1>10
    DEF Next, RunTask, ChannelEvent, Peer, Closing

(* The end of a stream is for good.                                        *)
LEMMA EndedStays ==
    ASSUME TypeOK, CallInv, [Next]_vars, stream \in Ended
    PROVE  UNCHANGED stream
  <1> USE DEF wireVars, Ended
  <1>1. CASE Submit
    <2>1. StartTask("submit") => Head(strand) \in Tasks /\ Head(strand).kind = "submit"
      BY StartStep DEF TypeOK
    <2>2. StartTask("submit")
      BY <1>1 DEF Submit, SubmitQueued, SubmitMisconfigured, SubmitSettled
    <2> QED BY <2>1, <2>2 DEF CallInv
  <1>2. CASE ChannelEvent
    <2>1. ~pending
      BY DEF CallInv
    <2> QED BY <1>2, <2>1 DEF ChannelEvent, Connected, ConnectFails, Goaway, DoShutdown
  <1>3. CASE Peer
    BY <1>3 DEF Peer, AttachRejects, Attach, StreamCloses, AttachTrailersOnly, PeerTrailers,
                PeerData, Alive
  <1>4. CASE RunDeadline \/ RunCancel \/ RunData \/ RunTrailers \/ RunClose \/ RunClosure
    BY <1>4 DEF RunDeadline, RunCancel, RunData, RunTrailers, RunClose, RunClosure, RunReport,
                RunTrailersOnly
  <1>5. CASE StartCall \/ UserCancel \/ Read \/ Pop \/ Finish \/ FinishReturns \/ TimerExpires
    BY <1>5 DEF StartCall, UserCancel, Read, Pop, PopCheck, PopArm, Finish, FinishReturns,
                TimerExpires
  <1>6. CASE UNCHANGED vars
    BY <1>6 DEF vars
  <1> QED BY <1>1, <1>2, <1>3, <1>4, <1>5, <1>6 DEF Next, RunTask

-----------------------------------------------------------------------------
(* The messages                                                             *)

(* Only the peer and the task of on_data move messages; a Read takes one   *)
(* from the queue without losing count.                                    *)
MessagesStay ==
    /\ UNCHANGED <<hasReader, sent, Got, response, partial>>
    /\ DataTasks' = DataTasks
    /\ closed => closed'

LEMMA PopKeeps == ASSUME TypeOK, PopCheck PROVE UNCHANGED Got
  <1>1. buffer \in Seq(Msg) /\ received \in Seq(Msg)
    BY DEF TypeOK, QueueOK, UserOK
  <1>2. CASE UNCHANGED <<received, buffer>>
    BY <1>2 DEF Got
  <1>3. CASE buffer # <<>> /\ received' = Append(received, Head(buffer)) /\ buffer' = Tail(buffer)
    <2>1. \A S : \A a, b \in Seq(S) : b # <<>> => Append(a, Head(b)) \o Tail(b) = a \o b
      OBVIOUS
    <2> QED BY <1>1, <1>3, <2>1 DEF Got
  <1> QED BY <1>2, <1>3 DEF PopCheck

LEMMA MessagesStayStep ==
    ASSUME TypeOK, CallInv, DataInv, [Next]_vars, ~RunData, ~Sending
    PROVE  MessagesStay
  <1>1. DataTasks' = DataTasks
    <2>1. CASE UNCHANGED strand
      BY <2>1 DEF DataTasks, Tasks
    <2>2. CASE Starting
      <3>1. PICK k \in {"submit", "deadline", "cancel", "trailers", "close"} : StartTask(k)
        BY <2>2 DEF Starting, Submit, SubmitQueued, SubmitMisconfigured, SubmitSettled,
                    RunDeadline, RunCancel, RunTrailers, RunClose
      <3>2. Tasks' \cup {Head(strand)} = Tasks /\ Head(strand).kind # "data"
        BY <3>1, StartStep DEF TypeOK
      <3> QED BY <3>2 DEF DataTasks
    <2>3. CASE StartCall \/ UserCancel \/ TimerExpires \/ Closing
      <3>1. PICK t \in TaskType :
                /\ strand' = Append(strand, t)
                /\ t.kind \in {"submit", "cancel", "deadline", "close"}
        BY <2>3, PlainPost
      <3>2. Tasks' = Tasks \cup {t}
        BY <3>1, PostStep DEF TypeOK
      <3> QED BY <3>1, <3>2 DEF DataTasks
    <2>4. ASSUME NEW s \in PeerStatus, PeerTrailers(s) PROVE DataTasks' = DataTasks
      <3> DEFINE t == [Task("trailers") EXCEPT !.s = s]
      <3>1. t \in TaskType /\ t.kind = "trailers"
        BY TrailersTaskType
      <3>2. strand' = Append(strand, t)
        BY <2>4 DEF PeerTrailers
      <3> HIDE DEF t
      <3>3. Tasks' = Tasks \cup {t}
        BY <3>1, <3>2, PostStep DEF TypeOK
      <3> QED BY <3>1, <3>3 DEF DataTasks
    <2> QED BY <2>1, <2>2, <2>3, <2>4, StrandStays DEF Posting
  <1>2. closed => closed'
    BY StepIsGateStep DEF GateStep, Passes, RunReport, RunTrailersOnly, AttachTrailersOnly
  <1>3. CASE Pop
    <2>1. UNCHANGED Got
      BY <1>3, PopKeeps DEF Pop, PopArm, queueVars, userVars, Got
    <2> QED BY <1>1, <1>2, <1>3, <2>1
            DEF MessagesStay, Pop, PopCheck, PopArm, wireVars, queueVars
  <1>4. CASE ~Pop
    <2>1. UNCHANGED <<hasReader, sent, response, partial, received, buffer>>
      <3> USE DEF wireVars, queueVars, userVars
      <3>1. CASE StartCall \/ UserCancel \/ Read \/ Finish \/ FinishReturns \/ TimerExpires
        BY <3>1 DEF StartCall, UserCancel, Read, Finish, FinishReturns, TimerExpires
      <3>2. CASE RunTask
        BY <3>2 DEF RunTask, Submit, SubmitQueued, SubmitMisconfigured, SubmitSettled,
                    RunDeadline, RunCancel, RunTrailers, RunClose
      <3>3. CASE RunClosure \/ ChannelEvent
        BY <3>3 DEF RunClosure, RunReport, RunTrailersOnly, ChannelEvent, Connected,
                    ConnectFails, Goaway, DoShutdown
      <3>4. CASE Peer
        BY <3>4 DEF Peer, Sending, AttachRejects, Attach, StreamCloses, AttachTrailersOnly,
                    PeerTrailers
      <3>5. CASE UNCHANGED vars
        BY <3>5 DEF vars
      <3> QED BY <1>4, <3>1, <3>2, <3>3, <3>4, <3>5 DEF Next
    <2> QED BY <1>1, <1>2, <2>1 DEF MessagesStay, Got
  <1> QED BY <1>3, <1>4

(* The task of on_data that starts is the one with the next message.       *)
LEMMA DataIsNext ==
    ASSUME TypeOK, Ordered, DataInv, StartTask("data"), ~closed
    PROVE  LET t == Head(strand) IN
           /\ t \in DataTasks /\ t \in TaskType /\ t.lo = Taken + 1 /\ Top(t) \in Nat
           /\ DataTasks' \cup {t} = DataTasks
           /\ \A r \in DataTasks' : r \in DataTasks /\ Top(t) < r.lo
  <1> DEFINE t == Head(strand)
  <1>1. /\ t \in Tasks /\ t.kind = "data" /\ t \in TaskType /\ Tasks' \cup {t} = Tasks
        /\ \A r \in Tasks' : MayFollow(t, r)
    BY StartStep DEF TypeOK
  <1>2. t \in DataTasks /\ DataTasks' \cup {t} = DataTasks
    BY <1>1 DEF DataTasks
  <1>3. \A r \in DataTasks' : r \in DataTasks /\ Top(t) < r.lo
    BY <1>1, <1>2 DEF MayFollow, DataTasks
  <1>4. \A r \in DataTasks : r.lo \in Nat /\ Top(r) \in Nat
    <2>1. \A r \in Tasks : r \in TaskType
      BY DEF Tasks, TypeOK
    <2> QED BY <2>1, MaxMsgsAssumption DEF DataTasks, TaskType, Top
  <1>5. Taken \in Nat /\ sent \in Nat
    <2>1. received \in Seq(Msg) /\ buffer \in Seq(Msg) /\ response \in Nat /\ sent \in Nat
      BY MaxMsgsAssumption DEF TypeOK, UserOK, QueueOK, WireOK
    <2>2. Got \in Seq(Msg)
      BY <2>1 DEF Got
    <2> QED BY <2>1, <2>2 DEF Taken
  <1>6. t.lo = Taken + 1
    <2>1. Taken < t.lo /\ t.lo <= Top(t) + 1 /\ Top(t) <= sent
      BY <1>2 DEF DataInv
    <2> SUFFICES ASSUME t.lo > Taken + 1 PROVE FALSE
      BY <1>2, <1>4, <1>5, <2>1
    <2>2. Taken + 1 \in (Taken + 1)..sent
      BY <1>2, <1>4, <1>5, <2>1
    <2>3. PICK r \in DataTasks : r.lo <= Taken + 1 /\ Taken + 1 <= Top(r)
      BY <2>2 DEF DataInv
    <2>4. r = t \/ Top(t) < r.lo
      BY <1>2, <1>3
    <2> QED BY <1>2, <1>4, <1>5, <2>1, <2>3, <2>4
  <1> QED BY <1>1, <1>2, <1>3, <1>4, <1>6

LEMMA GotType ==
    ASSUME TypeOK
    PROVE  /\ Got \in Seq(Msg) /\ Len(Got) \in Nat /\ Taken \in Nat /\ sent \in Nat
           /\ \A t \in DataTasks : t.lo \in Nat /\ t.hi \in Nat /\ Top(t) \in Nat
  <1>1. received \in Seq(Msg) /\ buffer \in Seq(Msg) /\ response \in Nat /\ sent \in Nat
    BY MaxMsgsAssumption DEF TypeOK, UserOK, QueueOK, WireOK
  <1>2. Got \in Seq(Msg) /\ Len(Got) \in Nat
    BY <1>1 DEF Got
  <1>3. Taken \in Nat
    BY <1>1, <1>2 DEF Taken
  <1>4. \A r \in Tasks : r \in TaskType
    BY DEF Tasks, TypeOK
  <1>5. \A t \in DataTasks : t.lo \in Nat /\ t.hi \in Nat /\ Top(t) \in Nat
    BY <1>4, MaxMsgsAssumption DEF DataTasks, TaskType, Top
  <1> QED BY <1>1, <1>2, <1>3, <1>5

(* What the task of on_data hands over follows what was handed over before. *)
LEMMA PushStep ==
    ASSUME TypeOK, OrderInv, NEW lo \in Nat, NEW hi \in Nat, lo = Len(Got) + 1, lo <= hi,
           hi <= MaxMsgs, UNCHANGED received, buffer' = buffer \o Between(lo, hi)
    PROVE  OrderInv' /\ Len(Got') = hi
  <1> DEFINE m == hi + 1 - lo
             b == [i \in 1..m |-> lo + i - 1]
  <1>1. Got \in Seq(Msg) /\ Len(Got) \in Nat /\ m \in Nat /\ Len(Got) + m = hi
    BY GotType
  <1>2. received \in Seq(Msg) /\ buffer \in Seq(Msg)
    BY DEF TypeOK, UserOK, QueueOK
  <1>3. \A i \in 1..m : lo + i - 1 \in Msg
    BY <1>1, MaxMsgsAssumption DEF Msg
  <1> HIDE DEF m
  <1>4. b \in Seq(Msg) /\ Len(b) = m /\ \A i \in 1..m : b[i] = lo + i - 1
    <2>1. b \in [1..m -> Msg] /\ \A i \in 1..m : b[i] = lo + i - 1
      BY <1>3
    <2> HIDE DEF b
    <2> QED BY <1>1, <2>1, FunctionSeq
  <1>5. b = Between(lo, hi)
    BY DEF Between, m
  <1> HIDE DEF b
  <1>6. Got' = Got \o b
    <2>1. Got' = received \o (buffer \o b)
      BY <1>5 DEF Got
    <2>2. b \in Seq(Msg)
      BY <1>4
    <2>3. (received \o buffer) \o b = received \o (buffer \o b)
      BY <1>2, <2>2, Associative
    <2> QED BY <2>1, <2>3 DEF Got
  <1>7. Len(Got') = hi
    <2>1. Len(Got \o b) = Len(Got) + Len(b)
      BY <1>1, <1>4, ConcatProperties
    <2> QED BY <1>1, <1>4, <1>6, <2>1
  <1>8. ASSUME NEW i \in 1..Len(Got') PROVE Got'[i] = i
    <2>1. CASE i \in 1..Len(Got)
      <3>1. Got'[i] = Got[i]
        BY <1>1, <1>4, <1>6, <2>1
      <3> QED BY <2>1, <3>1 DEF OrderInv, Got
    <2>2. CASE i \notin 1..Len(Got)
      <3>1. i - Len(Got) \in 1..m
        BY <1>1, <1>7, <2>2
      <3>2. Got'[i] = b[i - Len(Got)]
        BY <1>1, <1>4, <1>6, <1>7, <2>2, <3>1
      <3> QED BY <1>1, <1>4, <3>1, <3>2
    <2> QED BY <2>1, <2>2
  <1> QED BY <1>7, <1>8 DEF OrderInv, Got

LEMMA RunDataStep ==
    ASSUME TypeOK, Ordered, DataInv, OrderInv, RunData
    PROVE  DataInv' /\ OrderInv'
  <1> DEFINE t == Head(strand)
  <1>0. StartTask("data") /\ UNCHANGED <<hasReader, sent, received>>
    BY DEF RunData, userVars, wireVars
  <1>1. /\ Taken \in Nat /\ sent \in Nat /\ Len(Got) \in Nat
        /\ \A r \in DataTasks : r.lo \in Nat /\ r.hi \in Nat /\ Top(r) \in Nat
    BY GotType
  <1>2. CASE closed
    <2>1. UNCHANGED <<buffer, response, closed>>
      BY <1>2 DEF RunData, gateVars
    <2>2. DataTasks' \subseteq DataTasks
      BY <1>0, StartStep DEF TypeOK, DataTasks
    <2> QED BY <1>0, <1>2, <2>1, <2>2 DEF DataInv, OrderInv, Got, Taken
  <1>3. CASE ~closed
    <2>1. /\ t \in DataTasks /\ t \in TaskType /\ t.lo = Taken + 1 /\ Top(t) \in Nat
          /\ DataTasks' \cup {t} = DataTasks
          /\ \A r \in DataTasks' : r \in DataTasks /\ Top(t) < r.lo
      BY <1>0, <1>3, DataIsNext
    <2>2. /\ t.lo \in Nat /\ t.hi \in Nat /\ t.hi <= MaxMsgs /\ t.lo <= Top(t) + 1
          /\ Top(t) <= sent /\ t.s \in {"none", "BAD_RESPONSE"} /\ t.hi <= Top(t)
          /\ t.part \in {0, Top(t) + 1}
      BY <1>1, <2>1, MaxMsgsAssumption DEF TaskType, DataInv, Top
    <2>3. /\ t.s # "none" => closed'
          /\ partial' = t.part
      BY <1>3 DEF RunData, Fail
    <2>c. t.lo <= t.hi => /\ Completed(t) = Between(t.lo, t.hi)
                          /\ Completed(t)[t.hi + 1 - t.lo] = t.hi
      BY <1>3, <2>1, <2>2, CompletedIs DEF DataInv
    <2>d. /\ hasReader /\ t.lo <= t.hi => buffer' = buffer \o Completed(t)
          /\ ~(hasReader /\ t.lo <= t.hi) => UNCHANGED buffer
          /\ response' = IF ~hasReader /\ t.lo <= t.hi THEN Completed(t)[t.hi + 1 - t.lo]
                                                       ELSE response
      BY <1>3 DEF RunData
    <2> HIDE DEF t
    <2>4. Taken' = IF t.lo <= t.hi THEN t.hi ELSE Taken
      <3>1. CASE hasReader /\ t.lo <= t.hi
        <4>1. Len(Got') = t.hi
          BY <1>0, <2>1, <2>2, <2>c, <2>d, <3>1, PushStep DEF Taken
        <4> QED BY <1>0, <3>1, <4>1 DEF Taken
      <3>2. CASE ~hasReader /\ t.lo <= t.hi
        BY <1>0, <2>c, <2>d, <3>2 DEF Taken
      <3>3. CASE ~(t.lo <= t.hi)
        BY <1>0, <2>d, <3>3 DEF Taken, Got
      <3> QED BY <3>1, <3>2, <3>3
    <2>5. OrderInv' /\ (hasReader' \/ Got' = <<>>)
      <3>1. CASE hasReader /\ t.lo <= t.hi
        <4>1. t.lo = Len(Got) + 1 /\ buffer' = buffer \o Between(t.lo, t.hi)
          BY <2>1, <2>c, <2>d, <3>1 DEF Taken
        <4>2. OrderInv'
          BY <1>0, <2>2, <3>1, <4>1, PushStep
        <4> QED BY <1>0, <3>1, <4>2
      <3>2. CASE ~(hasReader /\ t.lo <= t.hi)
        BY <1>0, <2>d, <3>2 DEF OrderInv, Got, DataInv
      <3> QED BY <3>1, <3>2
    <2>6. Taken' <= sent'
      <3>1. Taken <= sent
        BY DEF DataInv
      <3>2. CASE t.lo <= t.hi
        BY <1>0, <1>1, <2>1, <2>2, <2>4, <3>2
      <3>3. CASE ~(t.lo <= t.hi)
        BY <1>0, <2>4, <3>1, <3>3
      <3> QED BY <3>2, <3>3
    <2>7. ~closed' => Taken' = Top(t) /\ partial' \in {0, Taken' + 1}
      BY <1>1, <2>1, <2>2, <2>3, <2>4 DEF Top
    <2>8. ~closed' => \A m \in (Taken' + 1)..sent' :
                         \E r \in DataTasks' : r.lo <= m /\ m <= Top(r)
      <3> SUFFICES ASSUME ~closed', NEW m \in (Taken' + 1)..sent'
                   PROVE  \E r \in DataTasks' : r.lo <= m /\ m <= Top(r)
        OBVIOUS
      <3>1. m \in (Taken + 1)..sent /\ m > Top(t)
        BY <1>0, <1>1, <2>1, <2>2, <2>7
      <3>2. PICK r \in DataTasks : r.lo <= m /\ m <= Top(r)
        BY <1>3, <3>1 DEF DataInv
      <3>3. r # t
        BY <1>1, <2>1, <3>1, <3>2
      <3> QED BY <2>1, <3>2, <3>3
    <2>9. ~closed' => \A r \in DataTasks' : Taken' < r.lo
      BY <2>1, <2>7
    <2>10. \A r \in DataTasks' : /\ r.s \in {"none", "BAD_RESPONSE"} /\ r.lo <= Top(r) + 1
                                 /\ r.part \in {0, Top(r) + 1} /\ Top(r) <= sent'
      BY <1>0, <2>1 DEF DataInv
    <2>11. DataInv'
      <3> USE DEF Top
      <3> QED BY <2>5, <2>6, <2>7, <2>8, <2>9, <2>10 DEF DataInv
    <2> QED BY <2>5, <2>11
  <1> QED BY <1>2, <1>3

LEMMA PeerDataStep ==
    ASSUME TypeOK, DataInv, OrderInv,
           NEW n \in 0..MaxMsgs, NEW more \in BOOLEAN, NEW s \in {"none", "BAD_RESPONSE"},
           PeerData(n, more, s)
    PROVE  DataInv' /\ OrderInv'
  <1> DEFINE t == DataTask(n, more, s)
  <1>1. /\ t \in TaskType /\ t.kind = "data" /\ t.s = s /\ t.lo = sent + 1 /\ Top(t) = sent'
        /\ t.part \in {0, sent' + 1}
        /\ sent \in Nat /\ sent' = sent + n /\ n \in Nat /\ strand' = Append(strand, t)
    BY DataTaskType DEF TypeOK
  <1> HIDE DEF t
  <1>2. DataTasks' = DataTasks \cup {t}
    BY <1>1, PostStep DEF TypeOK, DataTasks
  <1>3. UNCHANGED <<hasReader, received, buffer, response, partial, closed>>
    BY DEF PeerData, gateVars, queueVars, userVars
  <1>4. UNCHANGED <<Got, Taken>> /\ Taken \in Nat
    BY <1>3, GotType DEF Got, Taken
  <1>5. \A r \in DataTasks : r.lo \in Nat /\ Top(r) \in Nat
    BY GotType
  <1>6. /\ \A r \in DataTasks' : /\ r.s \in {"none", "BAD_RESPONSE"} /\ r.lo <= Top(r) + 1
                                 /\ r.part \in {0, Top(r) + 1} /\ Top(r) <= sent'
        /\ Taken <= sent'
    BY <1>1, <1>2, <1>4, <1>5 DEF DataInv
  <1>7. ~closed => \A r \in DataTasks' : Taken < r.lo
    BY <1>1, <1>2, <1>4, <1>5 DEF DataInv
  <1>8. ASSUME ~closed, NEW m \in (Taken + 1)..sent'
        PROVE  \E r \in DataTasks' : r.lo <= m /\ m <= Top(r)
    <2>1. CASE m \in (Taken + 1)..sent
      BY <1>2, <1>8, <2>1 DEF DataInv
    <2>2. CASE m \notin (Taken + 1)..sent
      <3>1. t.lo <= m /\ m <= Top(t)
        BY <1>1, <1>4, <2>2
      <3> QED BY <1>2, <3>1
    <2> QED BY <2>1, <2>2
  <1>9. DataInv'
    <2> USE DEF Top
    <2> QED BY <1>3, <1>4, <1>6, <1>7, <1>8 DEF DataInv
  <1> QED BY <1>3, <1>9 DEF OrderInv, Got

LEMMA DataStep ==
    ASSUME TypeOK, Ordered, CallInv, DataInv, OrderInv, [Next]_vars
    PROVE  DataInv' /\ OrderInv'
  <1>1. CASE MessagesStay
    <2>1. UNCHANGED <<Taken, Got>>
      BY <1>1 DEF MessagesStay, Taken
    <2>2. OrderInv'
      BY <2>1 DEF OrderInv, Got
    <2>3. DataInv'
      BY <1>1, <2>1 DEF MessagesStay, DataInv, Top
    <2> QED BY <2>2, <2>3
  <1> QED BY <1>1, RunDataStep, PeerDataStep, MessagesStayStep DEF Sending

-----------------------------------------------------------------------------
(* The status                                                               *)

LEMMA StatusStays ==
    ASSUME [Next]_vars, ~RunReport, ~RunTrailersOnly, ~RunTrailers
    PROVE  UNCHANGED <<trailersDone, final, eos, error>>
  <1> USE DEF statusVars, queueVars
  <1>1. CASE StartCall \/ UserCancel \/ Read \/ Pop \/ Finish \/ FinishReturns \/ TimerExpires
    BY <1>1 DEF StartCall, UserCancel, Read, Pop, PopCheck, PopArm, Finish, FinishReturns,
                TimerExpires
  <1>2. CASE RunTask
    BY <1>2 DEF RunTask, Submit, SubmitQueued, SubmitMisconfigured, SubmitSettled, RunDeadline,
                RunCancel, RunData, RunClose
  <1>3. CASE ChannelEvent
    BY <1>3 DEF ChannelEvent, Connected, ConnectFails, Goaway, DoShutdown
  <1>4. CASE Peer
    BY <1>4 DEF Peer, AttachRejects, Attach, StreamCloses, AttachTrailersOnly, PeerTrailers,
                PeerData
  <1>5. CASE UNCHANGED vars
    BY <1>5 DEF vars
  <1> QED BY <1>1, <1>2, <1>3, <1>4, <1>5 DEF Next, RunClosure

(* The three tasks that write a status, by what they write.                *)
LEMMA ReportWrites ==
    ASSUME TypeOK, GateInv, RunReport
    PROVE  /\ closed /\ UNCHANGED <<closed, trailersDone, eos>> /\ Reports' = {}
           /\ final' \in {final} \cup LocalStatus /\ error' \in {error} \cup LocalStatus
           /\ final' # final => final \notin LocalStatus
           /\ \E c \in ioc : final' \in {final, c.s} /\ error' \in {error, c.s}
  <1>1. PICK c \in ioc : /\ c.kind \in {"fail", "close"} /\ ioc' = ioc \ {c}
                         /\ IF c.s = "none"
                            THEN UNCHANGED <<error, reader, final>>
                            ELSE Report(c.s)
    BY DEF RunReport
  <1>2. c \in Reports /\ Reports = {c} /\ Reports' = {}
    BY <1>1 DEF Reports, GateInv
  <1>3. closed /\ final \notin LocalStatus
    BY <1>2 DEF GateInv
  <1>4. c.s \in LocalStatus \cup {"none"}
    BY <1>2 DEF GateInv
  <1>5. final' \in {final, c.s} /\ error' \in {error, c.s}
    BY <1>1 DEF Report
  <1>6. final' \in {final} \cup LocalStatus /\ error' \in {error} \cup LocalStatus
    <2>1. CASE c.s = "none"
      BY <1>1, <2>1
    <2>2. CASE c.s \in LocalStatus
      BY <1>5, <2>2
    <2> QED BY <1>4, <2>1, <2>2
  <1>7. UNCHANGED <<closed, trailersDone, eos>>
    BY DEF RunReport
  <1> QED BY <1>1, <1>2, <1>3, <1>5, <1>6, <1>7

Delivered ==
    /\ ~closed /\ trailersDone' = TRUE
    /\ final' = peerStatus /\ peerStatus \in PeerStatus
    /\ error' \in {error, peerStatus}
    /\ eos' => eos \/ (hasReader /\ peerStatus = "OK")

LEMMA DeliverWrites ==
    ASSUME NEW s \in PeerStatus \cap {peerStatus}, ~closed, MaybeDeliverStatus(s)
    PROVE  Delivered
  BY DEF MaybeDeliverStatus, Delivered

LEMMA TrailersWrite ==
    ASSUME TypeOK, CallInv, RunTrailers
    PROVE  \/ Delivered
           \/ closed /\ UNCHANGED <<trailersDone, final, eos, error>>
  <1>1. CASE closed
    BY <1>1 DEF RunTrailers
  <1>2. CASE ~closed
    <2>1. Head(strand).s \in PeerStatus \cap {peerStatus}
      BY StartStep DEF RunTrailers, TypeOK, CallInv
    <2> QED BY <1>2, <2>1, DeliverWrites DEF RunTrailers
  <1> QED BY <1>1, <1>2

LEMMA TrailersOnlyWrites ==
    ASSUME CallInv, RunTrailersOnly
    PROVE  /\ Reports' = Reports /\ closed' = TRUE
           /\ \A t \in Tasks : t.kind # "data"
           /\ \/ Delivered /\ sent = 0
              \/ closed /\ UNCHANGED <<trailersDone, final, eos, error>>
  <1>1. PICK c \in ioc :
           /\ c.kind = "trailersOnly" /\ ioc' = ioc \ {c} /\ closed' = TRUE
           /\ IF closed
              THEN UNCHANGED <<timer, trailersDone, final, eos, error, reader>>
              ELSE /\ timer' = IF timer = "armed" THEN "off" ELSE timer
                   /\ MaybeDeliverStatus(c.s)
    BY DEF RunTrailersOnly
  <1>2. c.s \in PeerStatus \cap {peerStatus} /\ sent = 0 /\ \A t \in Tasks : t.kind # "data"
    BY <1>1 DEF CallInv
  <1>3. Reports' = Reports
    BY <1>1 DEF Reports
  <1>4. ~closed => Delivered
    BY <1>1, <1>2, DeliverWrites
  <1> QED BY <1>1, <1>2, <1>3, <1>4

LEMMA GateInvStep ==
    ASSUME TypeOK, CallInv, DataInv, GateInv, [Next]_vars
    PROVE  GateInv'
  <1>1. CASE RunReport
    BY <1>1, ReportWrites DEF GateInv
  <1>2. CASE RunTrailersOnly
    BY <1>2, TrailersOnlyWrites, Literals DEF GateInv, Delivered
  <1>3. CASE RunTrailers
    <2>1. UNCHANGED <<closed, Reports>>
      BY <1>3 DEF RunTrailers, gateVars, Reports
    <2> QED BY <1>3, <2>1, TrailersWrite, Literals DEF GateInv, Delivered
  <1>4. CASE ~RunReport /\ ~RunTrailersOnly /\ ~RunTrailers
    <2>1. UNCHANGED final
      BY <1>4, StatusStays
    <2>2. CASE UNCHANGED <<closed, ioc>>
      BY <2>1, <2>2 DEF GateInv, Reports
    <2>3. ASSUME NEW k \in {"fail", "close"}, NEW s \in LocalStatus \cup {"none"}, Passes(k, s)
          PROVE  GateInv'
      <3>1. Reports = {} /\ final \notin LocalStatus
        BY <2>3 DEF Passes, GateInv
      <3>2. Reports' = {Closure(k, s)} /\ Closure(k, s).s = s
        BY <2>3, <3>1 DEF Passes, Reports, Closure
      <3> QED BY <2>1, <2>3, <3>1, <3>2 DEF Passes, GateInv
    <2>4. ASSUME NEW s \in PeerStatus, AttachTrailersOnly(s) PROVE GateInv'
      <3>1. Reports' = Reports /\ UNCHANGED closed
        BY <2>4 DEF AttachTrailersOnly, Reports, Closure
      <3> QED BY <2>1, <3>1 DEF GateInv
    <2> QED BY <1>4, <2>2, <2>3, <2>4, StepIsGateStep DEF GateStep
  <1> QED BY <1>1, <1>2, <1>3, <1>4

(* The peer's status is final.                                             *)
LEMMA PeerStatusStays ==
    ASSUME CallInv, [Next]_vars, peerStatus # "none"
    PROVE  UNCHANGED peerStatus
  <1> USE DEF wireVars
  <1>1. CASE StartCall \/ UserCancel \/ Read \/ Pop \/ Finish \/ FinishReturns \/ TimerExpires
    BY <1>1 DEF StartCall, UserCancel, Read, Pop, PopCheck, PopArm, Finish, FinishReturns,
                TimerExpires
  <1>2. CASE RunTask
    BY <1>2 DEF RunTask, Submit, SubmitQueued, SubmitMisconfigured, SubmitSettled, RunDeadline,
                RunCancel, RunData, RunTrailers, RunClose
  <1>3. CASE ChannelEvent \/ RunClosure
    BY <1>3 DEF ChannelEvent, Connected, ConnectFails, Goaway, DoShutdown, RunClosure, RunReport,
                RunTrailersOnly
  <1>4. CASE Peer
    BY <1>4 DEF Peer, AttachRejects, Attach, StreamCloses, AttachTrailersOnly, PeerTrailers,
                PeerData, CallInv
  <1>5. CASE UNCHANGED vars
    BY <1>5 DEF vars
  <1> QED BY <1>1, <1>2, <1>3, <1>4, <1>5 DEF Next

(* Behind the trailers there are no messages any more.                     *)
LEMMA EndOfMessages ==
    ASSUME TypeOK, CallInv, DataInv, StatusInv, [Next]_vars, trailersDone
    PROVE  MessagesStay /\ ~RunData
  <1>1. ~RunData
    <2>1. StartTask("data") => Head(strand) \in DataTasks
      BY StartStep DEF TypeOK, DataTasks
    <2> QED BY <2>1 DEF RunData, StatusInv
  <1>2. ~Sending
    BY Literals DEF StatusInv, Sending, PeerData
  <1> QED BY <1>1, <1>2, MessagesStayStep

(* When the trailers are delivered, every message has been.                *)
LEMMA DeliveredAll ==
    ASSUME TypeOK, Ordered, CallInv, DataInv, Delivered, RunTrailers \/ RunTrailersOnly,
           [Next]_vars
    PROVE  MessagesStay /\ Taken = sent /\ DataTasks = {}
  <1>1. ~RunData /\ ~Sending
    <2>1. peerStatus # "none"
      BY Literals DEF Delivered
    <2>2. StartTask("trailers") => ~StartTask("data")
      BY DEF StartTask
    <2>3. StartTask("data") => strand' # strand
      <3> SUFFICES ASSUME StartTask("data"), strand' = strand PROVE FALSE
        OBVIOUS
      <3>1. strand \in Seq(TaskType) /\ strand # <<>> /\ Len(strand) \in Nat
        BY DEF TypeOK, StartTask
      <3>2. Len(Tail(strand)) = Len(strand) - 1
        BY <3>1
      <3> QED BY <3>1, <3>2 DEF StartTask
    <2> QED BY <2>1, <2>2, <2>3 DEF Sending, PeerData, RunData, RunTrailers, RunTrailersOnly
  <1>2. MessagesStay
    BY <1>1, MessagesStayStep
  <1>3. /\ Taken \in Nat /\ sent \in Nat /\ ~closed
        /\ \A r \in DataTasks : r.lo \in Nat /\ Top(r) \in Nat
    BY GotType DEF Delivered
  <1>4. DataTasks = {}
    <2>1. CASE RunTrailers
      <3>1. \A t \in Tasks' : MayFollow(Head(strand), t) /\ Head(strand).kind = "trailers"
        BY <2>1, StartStep DEF RunTrailers, TypeOK
      <3>2. DataTasks' = {}
        BY <3>1 DEF MayFollow, DataTasks
      <3> QED BY <1>2, <3>2 DEF MessagesStay
    <2>2. CASE RunTrailersOnly
      BY <2>2, TrailersOnlyWrites DEF DataTasks
    <2> QED BY <2>1, <2>2
  <1>5. Taken = sent
    <2>1. Taken + 1 \notin (Taken + 1)..sent
      BY <1>3, <1>4 DEF DataInv
    <2> QED BY <1>3, <2>1 DEF DataInv
  <1> QED BY <1>2, <1>4, <1>5

LEMMA UserStays ==
    ASSUME [Next]_vars, ~PopCheck, ~FinishReturns
    PROVE  UNCHANGED readEnd /\ finish' \in {finish, "polling"}
  <1> USE DEF userVars
  <1>1. CASE StartCall \/ UserCancel \/ Read \/ Pop \/ Finish \/ TimerExpires
    BY <1>1 DEF StartCall, UserCancel, Read, Pop, PopArm, Finish, TimerExpires
  <1>2. CASE RunTask
    BY <1>2 DEF RunTask, Submit, SubmitQueued, SubmitMisconfigured, SubmitSettled, RunDeadline,
                RunCancel, RunData, RunTrailers, RunClose
  <1>3. CASE ChannelEvent \/ RunClosure
    BY <1>3 DEF ChannelEvent, Connected, ConnectFails, Goaway, DoShutdown, RunClosure, RunReport,
                RunTrailersOnly
  <1>4. CASE Peer
    BY <1>4 DEF Peer, AttachRejects, Attach, StreamCloses, AttachTrailersOnly, PeerTrailers,
                PeerData
  <1>5. CASE UNCHANGED vars
    BY <1>5 DEF vars
  <1> QED BY <1>1, <1>2, <1>3, <1>4, <1>5 DEF Next

(* What a returning Read or Finish tells the user.                         *)
LEMMA UserIsTold ==
    ASSUME TypeOK, StatusInv, [Next]_vars
    PROVE  /\ readEnd' \in {readEnd, error, "eos"}
           /\ readEnd' = "eos" /\ readEnd # "eos" => eos /\ buffer = <<>> /\ UNCHANGED buffer
           /\ finish' \in {finish, "polling", final, "INTERNAL"}
           /\ ~hasReader /\ finish' = "OK" /\ finish # "OK" => final = "OK" /\ response # 0
  <1>1. CASE PopCheck
    <2>1. error \in Status \cup {"none"}
      BY DEF TypeOK, QueueOK
    <2> QED BY <1>1, <2>1, Literals DEF PopCheck
  <1>2. CASE FinishReturns
    BY <1>2 DEF FinishReturns, userVars
  <1>3. CASE ~PopCheck /\ ~FinishReturns
    BY <1>3, UserStays
  <1> QED BY <1>1, <1>2, <1>3

LEMMA BufferStays ==
    ASSUME TypeOK, [Next]_vars, ~RunData, buffer = <<>>
    PROVE  UNCHANGED buffer
  <1> USE DEF queueVars
  <1>1. CASE StartCall \/ UserCancel \/ Read \/ Pop \/ Finish \/ FinishReturns \/ TimerExpires
    BY <1>1 DEF StartCall, UserCancel, Read, Pop, PopCheck, PopArm, Finish, FinishReturns,
                TimerExpires
  <1>2. CASE RunTask
    BY <1>2 DEF RunTask, Submit, SubmitQueued, SubmitMisconfigured, SubmitSettled, RunDeadline,
                RunCancel, RunTrailers, RunClose
  <1>3. CASE ChannelEvent \/ RunClosure
    BY <1>3 DEF ChannelEvent, Connected, ConnectFails, Goaway, DoShutdown, RunClosure, RunReport,
                RunTrailersOnly
  <1>4. CASE Peer
    BY <1>4 DEF Peer, AttachRejects, Attach, StreamCloses, AttachTrailersOnly, PeerTrailers,
                PeerData
  <1>5. CASE UNCHANGED vars
    BY <1>5 DEF vars
  <1> QED BY <1>1, <1>2, <1>3, <1>4, <1>5 DEF Next

LEMMA StatusInvStep ==
    ASSUME TypeOK, Ordered, CallInv, DataInv, GateInv, StatusInv, [Next]_vars
    PROVE  StatusInv'
  <1>1. \/ RunReport
        \/ Delivered /\ (RunTrailers \/ RunTrailersOnly)
        \/ UNCHANGED <<trailersDone, final, eos, error>>
    BY StatusStays, TrailersWrite, TrailersOnlyWrites
  <1>2. /\ trailersDone => trailersDone'
        /\ eos' /\ ~eos => trailersDone' /\ hasReader /\ peerStatus = "OK"
        /\ {error', final'} \cap PeerStatus \subseteq {error, final, peerStatus} \cap PeerStatus
        /\ final' \in PeerStatus => trailersDone'
        /\ eos => eos'
    <2>1. CASE RunReport
      BY <2>1, ReportWrites, Literals DEF StatusInv
    <2>2. CASE Delivered /\ (RunTrailers \/ RunTrailersOnly)
      <3>1. eos => eos'
        <4>1. eos => hasReader /\ trailersDone
          BY DEF StatusInv
        <4>2. ASSUME NEW s, MaybeDeliverStatus(s) PROVE eos => eos'
          BY <4>2 DEF MaybeDeliverStatus
        <4> QED BY <2>2, <4>2 DEF RunTrailers, RunTrailersOnly
      <3> QED BY <2>2, <3>1 DEF Delivered
    <2>3. CASE UNCHANGED <<trailersDone, final, eos, error>>
      BY <2>3 DEF StatusInv
    <2> QED BY <1>1, <2>1, <2>2, <2>3
  <1>3. trailersDone' => /\ peerStatus \in PeerStatus /\ Taken = sent /\ DataTasks = {}
                         /\ MessagesStay
    <2>1. CASE trailersDone
      BY <2>1, EndOfMessages DEF StatusInv
    <2>2. CASE ~trailersDone /\ trailersDone'
      <3>1. Delivered /\ (RunTrailers \/ RunTrailersOnly)
        BY <1>1, <2>2, ReportWrites
      <3> QED BY <3>1, DeliveredAll DEF Delivered
    <2> QED BY <2>1, <2>2
  <1>4. /\ peerStatus \in PeerStatus => UNCHANGED peerStatus
        /\ peerStatus' \in PeerStatus \cup {"none"}
    BY PeerStatusStays, TypeStep, Literals DEF TypeOK, WireOK
  <1>5. trailersDone' => peerStatus' \in PeerStatus /\ Taken' = sent' /\ DataTasks' = {}
    BY <1>3, <1>4 DEF MessagesStay, Taken
  <1>6. UNCHANGED hasReader
    BY MessagesStayStep DEF MessagesStay, RunData, Sending, PeerData
  <1>7. eos' => trailersDone' /\ hasReader' /\ peerStatus' = "OK"
    BY <1>2, <1>4, <1>6, Literals DEF StatusInv
  <1>8. {error', final', readEnd', finish'} \cap PeerStatus \subseteq {peerStatus'}
    <2>1. {error, final, readEnd, finish} \cap PeerStatus \subseteq {peerStatus}
      BY DEF StatusInv
    <2>2. readEnd' \in {readEnd, error, "eos"} /\ finish' \in {finish, "polling", final, "INTERNAL"}
      BY UserIsTold
    <2>3. \A x \in {error', final', readEnd', finish'} :
              x \in PeerStatus => x \in {error, final, readEnd, finish, peerStatus}
      BY <1>2, <2>2 DEF PeerStatus
    <2> QED BY <1>4, <2>1, <2>3
  <1>9. readEnd' = "eos" => eos' /\ buffer' = <<>>
    <2>1. CASE readEnd = "eos"
      BY <1>2, <2>1, EndOfMessages, BufferStays DEF StatusInv
    <2>2. CASE readEnd # "eos"
      BY <1>2, <2>2, UserIsTold
    <2> QED BY <2>1, <2>2
  <1>10. ~hasReader' /\ finish' = "OK" => trailersDone' /\ response' # 0
    <2> SUFFICES ASSUME ~hasReader, finish' = "OK" PROVE trailersDone' /\ response' # 0
      BY <1>6
    <2>1. trailersDone /\ response # 0
      BY UserIsTold DEF StatusInv, PeerStatus
    <2> QED BY <1>2, <1>3, <2>1 DEF MessagesStay
  <1> QED
    BY <1>2, <1>5, <1>7, <1>8, <1>9, <1>10 DEF StatusInv

LEMMA CancelStep ==
    ASSUME TypeOK, CallInv, DataInv, GateInv, StatusInv, CancelInv, [Next]_vars
    PROVE  CancelInv'
  <1> DEFINE Told == {error, final, readEnd, finish} \cup {c.s : c \in ioc}
  <1>1. Cancelled => Cancelled'
    <2>0. stream = "cancelled" => UNCHANGED stream
      BY EndedStays DEF Ended
    <2> USE DEF connVars, userVars
    <2> SUFFICES ASSUME cancelAsked \/ conn = "kShutdown"
                 PROVE  cancelAsked' \/ conn' = "kShutdown"
      BY <2>0 DEF Cancelled
    <2>1. CASE StartCall \/ UserCancel \/ Read \/ Pop \/ Finish \/ FinishReturns \/ TimerExpires
      BY <2>1 DEF StartCall, UserCancel, Read, Pop, PopCheck, PopArm, Finish, FinishReturns,
                  TimerExpires
    <2>2. CASE RunTask
      BY <2>2 DEF RunTask, Submit, SubmitQueued, SubmitMisconfigured, SubmitSettled, RunDeadline,
                  RunCancel, RunData, RunTrailers, RunClose
    <2>3. CASE ChannelEvent \/ RunClosure
      BY <2>3 DEF ChannelEvent, Connected, ConnectFails, Goaway, DoShutdown, RunClosure,
                  RunReport, RunTrailersOnly
    <2>4. CASE Peer
      BY <2>4 DEF Peer, AttachRejects, Attach, StreamCloses, AttachTrailersOnly, PeerTrailers,
                  PeerData
    <2>5. CASE UNCHANGED vars
      BY <2>5 DEF vars
    <2> QED BY <2>1, <2>2, <2>3, <2>4, <2>5 DEF Next
  <1>2. \A c \in ioc' : c.s = "CANCELLED" =>
            "CANCELLED" \in Told \/ Cancelled'
    <2>1. ASSUME NEW k, NEW s, Passes(k, s), Reason(s), NEW c \in ioc', c.s = "CANCELLED"
          PROVE  "CANCELLED" \in Told \/ Cancelled'
      <3>1. c \in ioc \/ s = "CANCELLED"
        BY <2>1 DEF Passes, Closure
      <3> QED BY <2>1, <3>1 DEF Reason, Cancelled
    <2>2. ASSUME NEW s \in PeerStatus, AttachTrailersOnly(s), NEW c \in ioc', c.s = "CANCELLED"
          PROVE  c \in ioc
      BY <2>2 DEF AttachTrailersOnly, Closure, PeerStatus
    <2>3. RunReport \/ RunTrailersOnly \/ UNCHANGED ioc => ioc' \subseteq ioc
      BY DEF RunReport, RunTrailersOnly
    <2>4. GateStep
      BY StepIsGateStep
    <2> QED BY <2>1, <2>2, <2>3, <2>4 DEF GateStep
  <1>3. "CANCELLED" \in {error', final', readEnd', finish'} => "CANCELLED" \in Told
    <2>1. /\ readEnd' \in {readEnd, error, "eos"}
          /\ finish' \in {finish, "polling", final, "INTERNAL"}
      BY UserIsTold
    <2>2. CASE RunReport
      BY <2>1, <2>2, ReportWrites
    <2>3. CASE Delivered
      BY <2>1, <2>3 DEF Delivered, PeerStatus
    <2>4. CASE UNCHANGED <<final, error>>
      BY <2>1, <2>4
    <2> QED BY <2>2, <2>3, <2>4, StatusStays, TrailersWrite, TrailersOnlyWrites
  <1> QED BY <1>1, <1>2, <1>3 DEF CancelInv

LEMMA InvInit == Init => Inv
  <1> SUFFICES ASSUME Init PROVE Inv
    OBVIOUS
  <1>1. strand = <<>> /\ Len(strand) = 0 /\ Tasks = {} /\ DataTasks = {}
    BY DEF Init, Tasks, DataTasks
  <1>2. Got = <<>> /\ Len(Got) = 0 /\ Taken = 0
    BY DEF Init, Got, Taken
  <1>3. Ordered /\ CallInv
    BY <1>1 DEF Init, Ordered, CallInv
  <1>4. DataInv /\ OrderInv
    BY <1>1, <1>2 DEF Init, DataInv, OrderInv, Got
  <1>5. GateInv /\ CancelInv
    BY Literals DEF Init, GateInv, Reports, CancelInv
  <1>6. StatusInv
    BY <1>1, <1>2, Literals DEF Init, StatusInv
  <1> QED BY <1>3, <1>4, <1>5, <1>6 DEF Inv

LEMMA InvStep == TypeOK /\ Inv /\ [Next]_vars => Inv'
  BY OrderedStep, CallStep, DataStep, GateInvStep, StatusInvStep, CancelStep DEF Inv

(* However DATA cuts them and whatever fails meanwhile, the messages reach *)
(* the user whole and from the first one on, without a gap, a repetition   *)
(* or a swap.                                                              *)
THEOREM MessagesKeepOrder == Safety => []InOrder
  <1>1. TypeOK /\ Inv => InOrder
    <2> SUFFICES ASSUME TypeOK, DataInv, OrderInv PROVE InOrder
      BY DEF Inv
    <2>1. Len(Got) <= sent
      BY GotType DEF DataInv, Taken
    <2> QED BY <2>1 DEF InOrder, OrderInv, Got
  <1> QED BY <1>1, TypeInit, TypeStep, InvInit, InvStep, PTL DEF Safety

(* A clean end comes behind every message the peer completed and with its  *)
(* OK, a single response is the last of them, a status of the peer's is    *)
(* the one it sent, and a cancellation was asked for by one of the ends.   *)
THEOREM StreamEndIsHonest == Safety => []HonestEnd
  <1>1. TypeOK /\ Inv => HonestEnd
    <2> SUFFICES ASSUME TypeOK, StatusInv, CancelInv PROVE HonestEnd
      BY DEF Inv
    <2>1. readEnd = "eos" => peerStatus = "OK" /\ Len(received) = sent
      <3> SUFFICES ASSUME readEnd = "eos" PROVE peerStatus = "OK" /\ Len(received) = sent
        OBVIOUS
      <3>1. eos /\ buffer = <<>> /\ hasReader /\ peerStatus = "OK" /\ Taken = sent
        BY DEF StatusInv
      <3>2. received \in Seq(Msg)
        BY DEF TypeOK, UserOK
      <3>3. Len(received \o <<>>) = Len(received)
        BY <3>2
      <3> QED BY <3>1, <3>3 DEF Taken, Got
    <2>2. ~hasReader /\ finish = "OK" => response = sent /\ sent > 0
      BY GotType DEF StatusInv, Taken
    <2> QED BY <2>1, <2>2 DEF HonestEnd, StatusInv, CancelInv, Cancelled
  <1> QED BY <1>1, TypeInit, TypeStep, InvInit, InvStep, PTL DEF Safety
=============================================================================
