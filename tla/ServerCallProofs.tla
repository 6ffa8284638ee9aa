-------------------------- MODULE ServerCallProofs --------------------------
(***************************************************************************)
(* What TLC checks of ServerCall for two messages each way, proved for any *)
(* number of them: the types, that a call responds once, that what it ends *)
(* with is honest, and that its handler reads the request in order.        *)
(***************************************************************************)
EXTENDS ServerCall, SequenceTheorems, TLAPS

-----------------------------------------------------------------------------
(* The inductive invariants                                                 *)

(* A message is counted with the callback that brings it, and a writer     *)
(* that is finished has trailers unless it was the close that finished it. *)
TypeInv ==
    /\ TypeOK
    /\ sent <= nData
    /\ stream = "closed" <=> closed
    /\ finished => trail # "none" \/ closed
    /\ kind \notin Writing /\ gen # "none" => trail # "none"

(* Headers go out only with responded_ set, and only once Start has run;   *)
(* a generator exists only behind headers.                                 *)
HeadInv ==
    /\ heads \in {0, 1}
    /\ heads = 1 => responded
    /\ stream = "new" => ~responded /\ posted = {} /\ handler = "none"
    /\ gen # "none" => heads = 1

(* A call that has ended has no generator, or one that is exhausted: its   *)
(* frames are gone, and its writer refuses more.                           *)
EndInv ==
    /\ ends = <<>> \/ (Len(ends) = 1 /\ heads = 1 /\ gen \in {"none", "eof"})
    /\ gen \in {"none", "eof"} => out = <<>>
    /\ gen = "eof" /\ kind \in Writing => finished
    /\ kind \in Writing /\ handler # "none" => gen # "none"

GateInv == HeadInv /\ EndInv

(* A status that names a cause has it.                                     *)
Honest(s) ==
    /\ s = "OK" => returned = "OK"
    /\ s = "DEADLINE" => deadline = "passed"
    /\ s = "UNAVAILABLE" => shutdown

EndHonest ==
    \A i \in 1..Len(ends) : Honest(ends[i]) /\ (ends[i] = "OK" => gen = "eof")

(* A cause is there before the function that reports it is queued, so in   *)
(* the trailers and on the wire; only a generator can end with OK, and a   *)
(* handler is spawned once.                                                *)
CauseInv ==
    /\ "deadline" \in posted => deadline = "passed"
    /\ "cancel" \in posted => shutdown
    /\ returned # "none" => handler = "done"
    /\ handler # "none" /\ kind \notin Reading => halfClosed
    /\ Honest(trail)
    /\ EndHonest

(* What is sent and what is queued are together all that was written, each *)
(* frame at the place of its number; SendResponse has one frame.           *)
FrameInv ==
    /\ \A i \in 1..Len(sentOut) : sentOut[i] = i
    /\ \A i \in 1..Len(out) : out[i] = Len(sentOut) + i
    /\ kind \in Writing => Len(sentOut) + Len(out) = written
    /\ kind \notin Writing =>
           Len(sentOut) + Len(out) = (IF gen = "none" THEN 0 ELSE 1)

(* The messages the reader has taken from the parser.                      *)
Got == received \o buffer

(* They are numbered in order, whatever the parser makes of a bad header;  *)
(* without one they are all that was sent, until a response makes the call *)
(* ignore the rest.                                                        *)
GotInv ==
    /\ \A i \in 1..Len(Got) : Got[i] <= sent
    /\ \A i, j \in 1..Len(Got) :
           i < j /\ Got[i] # 0 /\ Got[j] # 0 => Got[i] < Got[j]
    /\ dec # "error" => \A i \in 1..Len(Got) : Got[i] = i
    /\ dec # "error" /\ kind \in Reading /\ (eos \/ ~Ignores) => Len(Got) = sent

(* The end of the request is the half-close, and a bad header's error      *)
(* stands before it in Pop.                                                *)
ReadInv ==
    /\ eos => halfClosed
    /\ dec = "error" /\ kind \in Reading => error # "none"
    /\ handler \in {"check", "waiting"} => kind \in Reading
    /\ readEnd = "eos" => kind \in Reading /\ eos /\ buffer = <<>> /\ dec # "error"

-----------------------------------------------------------------------------
(* Facts about the operators the actions are built from                     *)

(* The statuses the actions use are in Status; "none" is not.              *)
LEMMA Literals ==
    /\ {"OK", "APP", "BAD_REQUEST", "TOO_LARGE", "DEADLINE", "CANCELLED",
        "UNAVAILABLE"} \subseteq Status
    /\ "none" \notin Status
BY DEF Status

(* What the queues do to a sequence keeps the type of its elements.        *)
LEMMA EmptyIsSeq == \A S : <<>> \in Seq(S)
OBVIOUS

LEMMA QueueType ==
    ASSUME NEW S, NEW q \in Seq(S)
    PROVE  /\ \A x \in S : Append(q, x) \in Seq(S)
           /\ \A p \in Seq(S) : q \o p \in Seq(S)
           /\ q # <<>> => Head(q) \in S /\ Tail(q) \in Seq(S)
OBVIOUS

(* The first status a call is ended with is its only one.                  *)
LEMMA FirstEnd == \A s \in Status : Len(Append(<<>>, s)) = 1 /\ Append(<<>>, s) # <<>>
OBVIOUS

(* SendError sets responded_, stops the timer and ends with a status.      *)
LEMMA SendErrorType ==
    ASSUME StateOK, WireOK, NEW s \in Status, SendError(s)
    PROVE  /\ responded' \in BOOLEAN /\ timer' \in {"off", "armed", "fired"}
           /\ heads' \in Nat /\ ends' \in Seq(Status)
<1>1. CASE responded
  BY <1>1 DEF SendError, gateVars, StateOK, WireOK
<1>2. CASE ~responded
  <2>1. ends' \in Seq(Status)
    BY <1>2, QueueType DEF SendError, WireOK
  <2>2. responded' \in BOOLEAN /\ timer' \in {"off", "armed", "fired"} /\ heads' \in Nat
    BY <1>2 DEF SendError, Disarmed, StateOK, WireOK
  <2> QED BY <2>1, <2>2
<1> QED BY <1>1, <1>2

(* EndWith does that, or finishes the writer.                              *)
LEMMA EndWithType ==
    ASSUME StateOK, WriterOK, WireOK, NEW s \in Status, EndWith(s)
    PROVE  /\ responded' \in BOOLEAN /\ timer' \in {"off", "armed", "fired"}
           /\ heads' \in Nat /\ ends' \in Seq(Status)
           /\ finished' \in BOOLEAN /\ trail' \in Status \cup {"none"}
           /\ gen' \in {"none", "ready", "deferred", "eof"}
<1>1. CASE kind \in Writing /\ responded
  BY <1>1 DEF EndWith, WriterFinish, Resumed, gateVars, StateOK, WriterOK, WireOK
<1>2. CASE ~(kind \in Writing /\ responded)
  <2>1. SendError(s) /\ UNCHANGED <<finished, trail, gen>>
    BY <1>2 DEF EndWith
  <2> QED BY <2>1, SendErrorType DEF WriterOK
<1> QED BY <1>1, <1>2

-----------------------------------------------------------------------------
(* Type correctness                                                         *)

LEMMA InitTypes == Init => TypeInv
<1> SUFFICES ASSUME Init PROVE TypeInv
  OBVIOUS
<1>1. StateOK
  BY DEF Init, StateOK
<1>2. QueueOK /\ WriterOK
  BY EmptyIsSeq DEF Init, QueueOK, WriterOK
<1>3. HandlerOK
  BY EmptyIsSeq, MaxOutAssumption DEF Init, HandlerOK
<1>4. PeerOK
  <2>1. nData \in 0..MaxIn /\ sent \in 0..MaxIn
    BY MaxInAssumption DEF Init
  <2>2. deadline \in {"none", "ahead", "passed"}
    BY DEF Init
  <2> QED BY <2>1, <2>2 DEF Init, PeerOK
<1>5. WireOK
  BY EmptyIsSeq DEF Init, WireOK
<1> QED
  BY <1>1, <1>2, <1>3, <1>4, <1>5 DEF TypeInv, TypeOK, Init

(* One step per action; under it the groups of variables it changes.       *)
LEMMA TypeStep == TypeInv /\ [Next]_vars => TypeInv'
<1> SUFFICES ASSUME TypeInv, [Next]_vars PROVE TypeInv'
  OBVIOUS
<1> USE Literals DEF TypeInv, TypeOK, gateVars, queueVars, writerVars,
       handlerVars, peerVars, wireVars
<1>1. CASE StartRefused
  <2>1. /\ QueueOK' /\ WriterOK' /\ HandlerOK'
        /\ (sent <= nData)'
        /\ (finished => trail # "none" \/ closed)'
        /\ (kind \notin Writing /\ gen # "none" => trail # "none")'
    BY <1>1 DEF StartRefused, QueueOK, WriterOK, HandlerOK
  <2>2. StateOK'
    BY <1>1, SendErrorType DEF StartRefused, StateOK
  <2>3. PeerOK'
    BY <1>1 DEF StartRefused, PeerOK
  <2>4. WireOK'
    BY <1>1, SendErrorType DEF StartRefused, WireOK
  <2>5. (stream = "closed" <=> closed)'
    BY <1>1 DEF StartRefused, StateOK
  <2> QED BY <2>1, <2>2, <2>3, <2>4, <2>5
<1>2. CASE Start
  <2>1. /\ QueueOK'
        /\ (sent <= nData)'
        /\ (finished => trail # "none" \/ closed)'
    BY <1>2 DEF Start, QueueOK
  <2>2. StateOK'
    BY <1>2 DEF Start, StateOK
  <2>3. WriterOK'
    BY <1>2 DEF Start, WriterOK
  <2>4. HandlerOK'
    BY <1>2 DEF Start, HandlerOK
  <2>5. PeerOK'
    BY <1>2 DEF Start, PeerOK
  <2>6. WireOK'
    BY <1>2 DEF Start, WireOK
  <2>7. (stream = "closed" <=> closed)'
    BY <1>2 DEF Start, StateOK
  <2>8. (kind \notin Writing /\ gen # "none" => trail # "none")'
    BY <1>2 DEF Start, WriterOK, StateOK, Kinds, Writing
  <2> QED BY <2>1, <2>2, <2>3, <2>4, <2>5, <2>6, <2>7, <2>8
<1>3. ASSUME NEW chunk \in {"part", "rest", "bad"}, OnRequest(chunk)
      PROVE  TypeInv'
  <2>1. /\ QueueOK' /\ WriterOK' /\ HandlerOK'
        /\ (stream = "closed" <=> closed)'
        /\ (finished => trail # "none" \/ closed)'
        /\ (kind \notin Writing /\ gen # "none" => trail # "none")'
    BY <1>3 DEF OnRequest, QueueOK, WriterOK, HandlerOK
  <2>2. StateOK'
    BY <1>3 DEF OnRequest, StateOK, Feed, SendError, Disarmed
  <2>3. PeerOK'
    BY <1>3, MaxInAssumption DEF OnRequest, PeerOK
  <2>4. WireOK'
    <3>1. CASE UNCHANGED <<heads, ends>>
      BY <1>3, <3>1 DEF OnRequest, WireOK
    <3>2. CASE SendError("BAD_REQUEST")
      BY <1>3, <3>2, SendErrorType DEF OnRequest, WireOK
    <3> QED BY <1>3, <3>1, <3>2 DEF OnRequest
  <2>5. (sent <= nData)'
    BY <1>3, MaxInAssumption DEF OnRequest, PeerOK
  <2> QED BY <2>1, <2>2, <2>3, <2>4, <2>5
<1>4. CASE OnRequestEnd
  <2>1. /\ QueueOK'
        /\ (sent <= nData)'
        /\ (stream = "closed" <=> closed)'
        /\ (finished => trail # "none" \/ closed)'
    BY <1>4 DEF OnRequestEnd, QueueOK
  <2>2. StateOK'
    BY <1>4 DEF OnRequestEnd, StateOK, Disarmed
  <2>3. WriterOK'
    BY <1>4 DEF OnRequestEnd, WriterOK
  <2>4. HandlerOK'
    BY <1>4 DEF OnRequestEnd, HandlerOK
  <2>5. PeerOK'
    BY <1>4 DEF OnRequestEnd, PeerOK
  <2>6. WireOK'
    BY <1>4 DEF OnRequestEnd, WireOK
  <2>7. (kind \notin Writing /\ gen # "none" => trail # "none")'
    BY <1>4 DEF OnRequestEnd, WriterOK, StateOK, Kinds, Writing
  <2> QED BY <2>1, <2>2, <2>3, <2>4, <2>5, <2>6, <2>7
<1>5. CASE OnRequestBad
  <2>1. /\ QueueOK' /\ WriterOK' /\ HandlerOK'
        /\ (sent <= nData)'
        /\ (stream = "closed" <=> closed)'
        /\ (finished => trail # "none" \/ closed)'
        /\ (kind \notin Writing /\ gen # "none" => trail # "none")'
    BY <1>5 DEF OnRequestBad, QueueOK, WriterOK, HandlerOK
  <2>2. StateOK'
    BY <1>5, SendErrorType DEF OnRequestBad, StateOK
  <2>3. PeerOK'
    BY <1>5 DEF OnRequestBad, PeerOK
  <2>4. WireOK'
    BY <1>5, SendErrorType DEF OnRequestBad, WireOK
  <2> QED BY <2>1, <2>2, <2>3, <2>4
<1>6. CASE OnMessage
  <2>1. /\ WriterOK' /\ WireOK'
        /\ (stream = "closed" <=> closed)'
        /\ (finished => trail # "none" \/ closed)'
        /\ (kind \notin Writing /\ gen # "none" => trail # "none")'
    BY <1>6 DEF OnMessage, WriterOK, WireOK
  <2>2. StateOK'
    BY <1>6 DEF OnMessage, StateOK
  <2>3. QueueOK'
    <3>1. sent' \in Msg /\ 0 \in Msg
      BY <1>6, MaxInAssumption DEF OnMessage, PeerOK, Msg
    <3>2. {<<0>>, <<0, sent'>>, <<sent'>>} \subseteq Seq(Msg)
      BY <3>1
    <3>3. CASE UNCHANGED buffer
      BY <1>6, <3>3 DEF OnMessage, QueueOK
    <3>4. CASE \E p \in Seq(Msg) : buffer' = buffer \o p
      BY <1>6, <3>4, QueueType DEF OnMessage, QueueOK
    <3> QED BY <1>6, <3>2, <3>3, <3>4 DEF OnMessage, Push
  <2>4. HandlerOK'
    BY <1>6 DEF OnMessage, HandlerOK, Push, Woken
  <2>5. PeerOK'
    BY <1>6, MaxInAssumption DEF OnMessage, PeerOK
  <2>6. (sent <= nData)'
    BY <1>6, MaxInAssumption DEF OnMessage, PeerOK
  <2> QED BY <2>1, <2>2, <2>3, <2>4, <2>5, <2>6
<1>7. CASE OnPart
  <2>1. /\ QueueOK' /\ WriterOK' /\ HandlerOK' /\ WireOK'
        /\ (stream = "closed" <=> closed)'
        /\ (finished => trail # "none" \/ closed)'
        /\ (kind \notin Writing /\ gen # "none" => trail # "none")'
    BY <1>7 DEF OnPart, QueueOK, WriterOK, HandlerOK, WireOK
  <2>2. StateOK'
    BY <1>7 DEF OnPart, StateOK
  <2>3. PeerOK'
    BY <1>7, MaxInAssumption DEF OnPart, PeerOK
  <2>4. (sent <= nData)'
    BY <1>7, MaxInAssumption DEF OnPart, PeerOK
  <2> QED BY <2>1, <2>2, <2>3, <2>4
<1>8. CASE OnBadHeader
  <2>1. /\ (stream = "closed" <=> closed)'
    BY <1>8 DEF OnBadHeader
  <2>2. StateOK'
    <3>1. CASE Ignores
      BY <1>8, <3>1 DEF OnBadHeader, StateOK
    <3>2. CASE ~Ignores
      BY <1>8, <3>2, EndWithType DEF OnBadHeader, StateOK
    <3> QED BY <3>1, <3>2
  <2>3. QueueOK'
    BY <1>8 DEF OnBadHeader, QueueOK, SetError
  <2>4. WriterOK'
    <3>1. CASE Ignores
      BY <1>8, <3>1 DEF OnBadHeader, WriterOK
    <3>2. CASE ~Ignores
      BY <1>8, <3>2, EndWithType DEF OnBadHeader, WriterOK
    <3> QED BY <3>1, <3>2
  <2>5. HandlerOK'
    BY <1>8 DEF OnBadHeader, HandlerOK, SetError, Woken
  <2>6. PeerOK'
    BY <1>8, MaxInAssumption DEF OnBadHeader, PeerOK
  <2>7. WireOK'
    <3>1. CASE Ignores
      BY <1>8, <3>1 DEF OnBadHeader, WireOK
    <3>2. CASE ~Ignores
      BY <1>8, <3>2, EndWithType DEF OnBadHeader, WireOK
    <3> QED BY <3>1, <3>2
  <2>8. (sent <= nData)'
    BY <1>8, MaxInAssumption DEF OnBadHeader, PeerOK
  <2>9. (finished => trail # "none" \/ closed)'
    BY <1>8 DEF OnBadHeader, StateOK, WriterOK, EndWith, WriterFinish
  <2>10. (kind \notin Writing /\ gen # "none" => trail # "none")'
    BY <1>8 DEF OnBadHeader, WriterOK, StateOK, Kinds, EndWith, WriterFinish,
         Resumed
  <2> QED BY <2>1, <2>2, <2>3, <2>4, <2>5, <2>6, <2>7, <2>8, <2>9, <2>10
<1>9. CASE OnHalfClose
  <2>1. /\ StateOK' /\ WriterOK' /\ WireOK'
        /\ (sent <= nData)'
        /\ (stream = "closed" <=> closed)'
        /\ (finished => trail # "none" \/ closed)'
        /\ (kind \notin Writing /\ gen # "none" => trail # "none")'
    BY <1>9 DEF OnHalfClose, StateOK, WriterOK, WireOK
  <2>2. QueueOK'
    BY <1>9 DEF OnHalfClose, QueueOK
  <2>3. HandlerOK'
    BY <1>9 DEF OnHalfClose, HandlerOK, Woken
  <2>4. PeerOK'
    BY <1>9 DEF OnHalfClose, PeerOK
  <2> QED BY <2>1, <2>2, <2>3, <2>4
<1>10. CASE OnClose
  <2>1. /\ WireOK'
        /\ (sent <= nData)'
        /\ (kind \notin Writing /\ gen # "none" => trail # "none")'
    BY <1>10 DEF OnClose, WireOK
  <2>2. StateOK'
    BY <1>10 DEF OnClose, StateOK, Disarmed
  <2>3. QueueOK'
    BY <1>10 DEF OnClose, QueueOK, Unblock, SetError
  <2>4. WriterOK'
    BY <1>10 DEF OnClose, WriterOK
  <2>5. HandlerOK'
    BY <1>10 DEF OnClose, HandlerOK, Unblock, SetError, Woken
  <2>6. PeerOK'
    BY <1>10 DEF OnClose, PeerOK
  <2>7. (stream = "closed" <=> closed)'
    BY <1>10 DEF OnClose, StateOK
  <2>8. (finished => trail # "none" \/ closed)'
    BY <1>10 DEF OnClose, StateOK, WriterOK
  <2> QED BY <2>1, <2>2, <2>3, <2>4, <2>5, <2>6, <2>7, <2>8
<1>11. CASE DeadlinePasses
  <2>1. /\ QueueOK' /\ WriterOK' /\ HandlerOK' /\ WireOK'
        /\ (sent <= nData)'
        /\ (stream = "closed" <=> closed)'
        /\ (finished => trail # "none" \/ closed)'
        /\ (kind \notin Writing /\ gen # "none" => trail # "none")'
    BY <1>11 DEF DeadlinePasses, QueueOK, WriterOK, HandlerOK, WireOK
  <2>2. StateOK'
    BY <1>11 DEF DeadlinePasses, StateOK
  <2>3. PeerOK'
    BY <1>11 DEF DeadlinePasses, PeerOK
  <2> QED BY <2>1, <2>2, <2>3
<1>12. CASE Shutdown
  <2>1. /\ QueueOK' /\ WriterOK' /\ HandlerOK' /\ WireOK'
        /\ (sent <= nData)'
        /\ (stream = "closed" <=> closed)'
        /\ (finished => trail # "none" \/ closed)'
        /\ (kind \notin Writing /\ gen # "none" => trail # "none")'
    BY <1>12 DEF Shutdown, QueueOK, WriterOK, HandlerOK, WireOK
  <2>2. StateOK'
    BY <1>12 DEF Shutdown, StateOK
  <2>3. PeerOK'
    BY <1>12 DEF Shutdown, PeerOK
  <2> QED BY <2>1, <2>2, <2>3
<1>13. CASE RunDeadline
  <2>1. /\ PeerOK'
        /\ (sent <= nData)'
        /\ (stream = "closed" <=> closed)'
    BY <1>13 DEF RunDeadline, PeerOK
  <2>2. StateOK'
    BY <1>13 DEF RunDeadline, StateOK, SendError, Disarmed
  <2>3. QueueOK'
    BY <1>13 DEF RunDeadline, QueueOK, Unblock, SetError
  <2>4. WriterOK'
    BY <1>13 DEF RunDeadline, WriterOK, WriterFinish, Resumed
  <2>5. HandlerOK'
    BY <1>13 DEF RunDeadline, HandlerOK, Unblock, SetError, Woken
  <2>6. WireOK'
    <3>1. CASE kind = "bidi"
      BY <1>13, <3>1 DEF RunDeadline, WireOK
    <3>2. CASE kind # "bidi"
      BY <1>13, <3>2, SendErrorType DEF RunDeadline, WireOK
    <3> QED BY <3>1, <3>2
  <2>7. (finished => trail # "none" \/ closed)'
    BY <1>13 DEF RunDeadline, StateOK, WriterOK, WriterFinish
  <2>8. (kind \notin Writing /\ gen # "none" => trail # "none")'
    BY <1>13 DEF RunDeadline, WriterOK, StateOK, Kinds, WriterFinish, Resumed
  <2> QED BY <2>1, <2>2, <2>3, <2>4, <2>5, <2>6, <2>7, <2>8
<1>14. CASE RunCancel
  <2>1. /\ PeerOK'
        /\ (sent <= nData)'
        /\ (stream = "closed" <=> closed)'
    BY <1>14 DEF RunCancel, PeerOK
  <2>2. StateOK'
    <3>1. CASE closed \/ Settled
      BY <1>14, <3>1 DEF RunCancel, StateOK
    <3>2. CASE ~(closed \/ Settled)
      BY <1>14, <3>2, EndWithType DEF RunCancel, StateOK
    <3> QED BY <3>1, <3>2
  <2>3. QueueOK'
    BY <1>14 DEF RunCancel, QueueOK, Unblock, SetError
  <2>4. WriterOK'
    <3>1. CASE closed \/ Settled
      BY <1>14, <3>1 DEF RunCancel, WriterOK
    <3>2. CASE ~(closed \/ Settled)
      BY <1>14, <3>2, EndWithType DEF RunCancel, WriterOK
    <3> QED BY <3>1, <3>2
  <2>5. HandlerOK'
    BY <1>14 DEF RunCancel, HandlerOK, Unblock, SetError, Woken
  <2>6. WireOK'
    <3>1. CASE closed \/ Settled
      BY <1>14, <3>1 DEF RunCancel, WireOK
    <3>2. CASE ~(closed \/ Settled)
      BY <1>14, <3>2, EndWithType DEF RunCancel, WireOK
    <3> QED BY <3>1, <3>2
  <2>7. (finished => trail # "none" \/ closed)'
    BY <1>14 DEF RunCancel, StateOK, WriterOK, EndWith, WriterFinish
  <2>8. (kind \notin Writing /\ gen # "none" => trail # "none")'
    BY <1>14 DEF RunCancel, WriterOK, StateOK, Kinds, EndWith, WriterFinish,
         Resumed
  <2> QED BY <2>1, <2>2, <2>3, <2>4, <2>5, <2>6, <2>7, <2>8
<1>15. CASE HandlerStarts
  <2>1. /\ StateOK' /\ QueueOK' /\ WriterOK' /\ PeerOK' /\ WireOK'
        /\ (sent <= nData)'
        /\ (stream = "closed" <=> closed)'
        /\ (finished => trail # "none" \/ closed)'
        /\ (kind \notin Writing /\ gen # "none" => trail # "none")'
    BY <1>15 DEF HandlerStarts, StateOK, QueueOK, WriterOK, PeerOK, WireOK
  <2>2. HandlerOK'
    BY <1>15 DEF HandlerStarts, HandlerOK
  <2> QED BY <2>1, <2>2
<1>16. CASE Read
  <2>1. /\ StateOK' /\ QueueOK' /\ WriterOK' /\ PeerOK' /\ WireOK'
        /\ (sent <= nData)'
        /\ (stream = "closed" <=> closed)'
        /\ (finished => trail # "none" \/ closed)'
        /\ (kind \notin Writing /\ gen # "none" => trail # "none")'
    BY <1>16 DEF Read, StateOK, QueueOK, WriterOK, PeerOK, WireOK
  <2>2. HandlerOK'
    BY <1>16 DEF Read, HandlerOK
  <2> QED BY <2>1, <2>2
<1>17. CASE PopCheck
  <2>1. /\ StateOK' /\ WriterOK' /\ PeerOK' /\ WireOK'
        /\ (sent <= nData)'
        /\ (stream = "closed" <=> closed)'
        /\ (finished => trail # "none" \/ closed)'
        /\ (kind \notin Writing /\ gen # "none" => trail # "none")'
    BY <1>17 DEF PopCheck, StateOK, WriterOK, PeerOK, WireOK
  <2>2. QueueOK'
    BY <1>17, QueueType DEF PopCheck, QueueOK
  <2>3. HandlerOK'
    <3>1. received' \in Seq(Msg)
      <4>1. buffer # <<>> => Append(received, Head(buffer)) \in Seq(Msg)
        BY QueueType DEF QueueOK, HandlerOK
      <4> QED BY <1>17, <4>1 DEF PopCheck, HandlerOK
    <3>2. readEnd' \in Status \cup {"none", "eos"}
      BY <1>17 DEF PopCheck, QueueOK, HandlerOK
    <3> QED BY <1>17, <3>1, <3>2 DEF PopCheck, HandlerOK
  <2> QED BY <2>1, <2>2, <2>3
<1>18. CASE Write
  <2>1. /\ StateOK' /\ QueueOK' /\ PeerOK' /\ WireOK'
        /\ (sent <= nData)'
        /\ (stream = "closed" <=> closed)'
    BY <1>18 DEF Write, StateOK, QueueOK, PeerOK, WireOK
  <2>2. WriterOK'
    <3>1. out' \in Seq(Nat)
      <4>1. Append(out, written + 1) \in Seq(Nat)
        BY MaxOutAssumption DEF WriterOK, HandlerOK
      <4> QED BY <1>18, <4>1 DEF Write, WriterOK
    <3> QED BY <1>18, <3>1 DEF Write, WriterFinish, Resumed, WriterOK
  <2>3. HandlerOK'
    BY <1>18, MaxOutAssumption DEF Write, HandlerOK
  <2>4. (finished => trail # "none" \/ closed)'
    BY <1>18 DEF Write, StateOK, WriterOK, WriterFinish
  <2>5. (kind \notin Writing /\ gen # "none" => trail # "none")'
    BY <1>18 DEF Write, WriterOK, StateOK, Kinds, WriterFinish, Resumed,
         Writing
  <2> QED BY <2>1, <2>2, <2>3, <2>4, <2>5
<1>19. ASSUME NEW s \in {"OK", "APP"}, StreamReturns(s)
      PROVE  TypeInv'
  <2>1. /\ QueueOK' /\ PeerOK' /\ WireOK'
        /\ (sent <= nData)'
        /\ (stream = "closed" <=> closed)'
    BY <1>19 DEF StreamReturns, QueueOK, PeerOK, WireOK
  <2>2. StateOK'
    BY <1>19 DEF StreamReturns, StateOK, Disarmed
  <2>3. WriterOK'
    BY <1>19 DEF StreamReturns, WriterOK, WriterFinish, Resumed
  <2>4. HandlerOK'
    BY <1>19 DEF StreamReturns, HandlerOK
  <2>5. (finished => trail # "none" \/ closed)'
    BY <1>19 DEF StreamReturns, StateOK, WriterOK, WriterFinish
  <2>6. (kind \notin Writing /\ gen # "none" => trail # "none")'
    BY <1>19 DEF StreamReturns, WriterOK, StateOK, Kinds, WriterFinish,
         Resumed, Writing
  <2> QED BY <2>1, <2>2, <2>3, <2>4, <2>5, <2>6
<1>20. ASSUME NEW s \in {"OK", "APP"}, HandlerReturns(s)
      PROVE  TypeInv'
  <2>1. /\ QueueOK' /\ PeerOK'
        /\ (sent <= nData)'
        /\ (stream = "closed" <=> closed)'
        /\ (finished => trail # "none" \/ closed)'
    BY <1>20 DEF HandlerReturns, QueueOK, PeerOK
  <2>2. StateOK'
    <3>1. CASE responded \/ UNCHANGED ends
      BY <1>20, <3>1 DEF HandlerReturns, SendError, Disarmed, StateOK
    <3>2. CASE ~responded /\ SendError(IF s = "OK" THEN "TOO_LARGE" ELSE s)
      BY <1>20, <3>2, SendErrorType DEF HandlerReturns, StateOK
    <3> QED BY <1>20, <3>1, <3>2 DEF HandlerReturns
  <2>3. WriterOK'
    <3>1. <<1>> \in Seq(Nat)
      OBVIOUS
    <3> QED BY <1>20, <3>1 DEF HandlerReturns, WriterOK
  <2>4. HandlerOK'
    BY <1>20 DEF HandlerReturns, HandlerOK
  <2>5. WireOK'
    <3>1. CASE UNCHANGED ends /\ heads' \in {heads, heads + 1}
      BY <1>20, <3>1 DEF HandlerReturns, WireOK
    <3>2. CASE SendError(IF s = "OK" THEN "TOO_LARGE" ELSE s)
      BY <1>20, <3>2, SendErrorType DEF HandlerReturns, WireOK
    <3> QED BY <1>20, <3>1, <3>2 DEF HandlerReturns
  <2>6. (kind \notin Writing /\ gen # "none" => trail # "none")'
    BY <1>20 DEF HandlerReturns, WriterOK, StateOK, Kinds
  <2> QED BY <2>1, <2>2, <2>3, <2>4, <2>5, <2>6
<1>21. CASE Generate
  <2>1. /\ StateOK' /\ QueueOK' /\ HandlerOK' /\ PeerOK'
        /\ (sent <= nData)'
        /\ (stream = "closed" <=> closed)'
        /\ (finished => trail # "none" \/ closed)'
    BY <1>21 DEF Generate, StateOK, QueueOK, HandlerOK, PeerOK
  <2>2. WriterOK'
    BY <1>21, QueueType DEF Generate, WriterOK
  <2>3. WireOK'
    <3>1. CASE UNCHANGED ends
      <4>1. out # <<>> => Append(sentOut, Head(out)) \in Seq(Nat)
        BY QueueType DEF WriterOK, WireOK
      <4> QED BY <1>21, <3>1, <4>1 DEF Generate, WireOK
    <3>2. CASE out = <<>> /\ (kind \in Writing => finished)
      <4>1. trail \in Status
        BY <1>21, <3>2 DEF Generate, StateOK, WriterOK
      <4> QED BY <1>21, <3>2, <4>1, QueueType DEF Generate, WireOK
    <3> QED BY <1>21, <3>1, <3>2 DEF Generate
  <2>4. (kind \notin Writing /\ gen # "none" => trail # "none")'
    BY <1>21 DEF Generate, WriterOK, StateOK, Kinds, Writing
  <2> QED BY <2>1, <2>2, <2>3, <2>4
<1>22. CASE UNCHANGED vars
  BY <1>22 DEF vars, StateOK, QueueOK, WriterOK, HandlerOK, PeerOK, WireOK
<1> QED
  BY <1>1, <1>2, <1>3, <1>4, <1>5, <1>6, <1>7, <1>8, <1>9, <1>10, <1>11,
       <1>12, <1>13, <1>14, <1>15, <1>16, <1>17, <1>18, <1>19, <1>20, <1>21,
       <1>22
  DEF Next, OnData, RunTask, Handler

(* Every variable of a server call keeps its type: in particular a call is *)
(* never ended by trailers that were never written.                        *)
THEOREM ServerTypeCorrect == Safety => []TypeOK
<1>1. TypeInv => TypeOK
  BY DEF TypeInv
<1> QED
  BY <1>1, InitTypes, TypeStep, PTL DEF Safety

-----------------------------------------------------------------------------
(* One response                                                             *)

LEMMA InitGate == Init => GateInv
BY DEF Init, GateInv, HeadInv, EndInv

(* SendError keeps the gate: it is the first to respond, or does nothing.  *)
LEMMA SendErrorGate ==
    ASSUME GateInv, NEW s \in Status, SendError(s), stream' # "new",
           UNCHANGED <<kind, finished, gen, out>>,
           handler' = "none" <=> handler = "none"
    PROVE  GateInv'
<1> USE DEF GateInv
<1>1. CASE responded
  BY <1>1 DEF SendError, gateVars, HeadInv, EndInv
<1>2. CASE ~responded
  <2>1. heads = 0 /\ gen = "none" /\ ends = <<>>
    BY <1>2 DEF HeadInv, EndInv
  <2>2. responded' /\ heads' = 1 /\ ends' = Append(<<>>, s)
    BY <1>2, <2>1 DEF SendError
  <2>3. HeadInv'
    BY <2>2 DEF HeadInv
  <2>4. EndInv'
    BY <2>1, <2>2, FirstEnd DEF EndInv
  <2> QED BY <2>3, <2>4
<1> QED BY <1>1, <1>2

(* So does Finish: it only resumes a generator that has deferred.          *)
LEMMA FinishGate ==
    ASSUME GateInv, NEW s \in Status, WriterFinish(s),
           UNCHANGED <<kind, responded, heads, ends, out>>, stream' # "new",
           handler' = "none" <=> handler = "none"
    PROVE  GateInv'
BY DEF WriterFinish, Resumed, GateInv, HeadInv, EndInv

(* And whatever leaves the response alone.                                 *)
LEMMA IdleGate ==
    ASSUME GateInv, stream' # "new" \/ UNCHANGED <<stream, posted>>,
           UNCHANGED <<kind, responded, finished, gen, out, heads, ends>>,
           handler' = "none" <=> handler = "none"
    PROVE  GateInv'
BY DEF GateInv, HeadInv, EndInv

LEMMA GateStep == TypeInv /\ GateInv /\ [Next]_vars => GateInv'
<1> SUFFICES ASSUME TypeInv, GateInv, [Next]_vars PROVE GateInv'
  OBVIOUS
<1> USE Literals DEF gateVars, queueVars, writerVars, handlerVars, peerVars,
       wireVars
<1>0. posted # {} \/ handler # "none" => stream # "new"
  BY DEF GateInv, HeadInv
<1>1. CASE StartRefused
  BY <1>1, SendErrorGate DEF StartRefused
<1>2. CASE Start
  <2>1. ~responded /\ heads = 0 /\ gen = "none" /\ ends = <<>> /\ out = <<>>
    BY <1>2 DEF Start, GateInv, HeadInv, EndInv
  <2>2. CASE kind = "bidi"
    BY <1>2, <2>1, <2>2 DEF Start, GateInv, HeadInv, EndInv
  <2>3. CASE kind # "bidi"
    BY <1>2, <2>1, <2>3 DEF Start, Reading, Writing, GateInv, HeadInv, EndInv
  <2> QED BY <2>2, <2>3
<1>3. ASSUME NEW chunk \in {"part", "rest", "bad"}, OnRequest(chunk)
      PROVE  GateInv'
  <2>1. CASE SendError("BAD_REQUEST")
    BY <1>3, <2>1, SendErrorGate DEF OnRequest, Receives
  <2>2. CASE UNCHANGED <<gateVars, heads, ends>>
    BY <1>3, <2>2, IdleGate DEF OnRequest, Receives
  <2> QED BY <1>3, <2>1, <2>2 DEF OnRequest
<1>4. CASE OnRequestEnd
  <2>1. heads = 0 /\ gen = "none" /\ ends = <<>> /\ out = <<>>
    BY <1>4 DEF OnRequestEnd, GateInv, HeadInv, EndInv
  <2>2. CASE kind = "serverStream"
    BY <1>4, <2>1, <2>2 DEF OnRequestEnd, Receives, GateInv, HeadInv, EndInv
  <2>3. CASE kind # "serverStream"
    BY <1>4, <2>1, <2>3 DEF OnRequestEnd, Receives, Reading, Writing, GateInv,
         HeadInv, EndInv
  <2> QED BY <2>2, <2>3
<1>5. CASE OnRequestBad
  BY <1>5, SendErrorGate DEF OnRequestBad, Receives
<1>6. CASE OnMessage
  BY <1>6, IdleGate DEF OnMessage, Push, Woken, Receives
<1>7. CASE OnPart
  BY <1>7, IdleGate DEF OnPart, Receives
<1>8. CASE OnBadHeader
  <2>1. CASE Ignores
    BY <1>8, <2>1, IdleGate DEF OnBadHeader, Receives
  <2>2. CASE ~Ignores /\ kind \in Writing /\ responded
    BY <1>8, <2>2, FinishGate DEF OnBadHeader, EndWith, SetError, Woken,
         Receives
  <2>3. CASE ~Ignores /\ ~(kind \in Writing /\ responded)
    BY <1>8, <2>3, SendErrorGate DEF OnBadHeader, EndWith, SetError, Woken,
         Receives
  <2> QED BY <2>1, <2>2, <2>3
<1>9. CASE OnHalfClose
  BY <1>9, IdleGate DEF OnHalfClose, Woken, Receives
<1>10. CASE OnClose
  <2>1. responded => responded'
    BY <1>10 DEF OnClose
  <2>2. finished => finished'
    BY <1>10 DEF OnClose
  <2>3. handler' = "none" <=> handler = "none"
    BY <1>10 DEF OnClose, Unblock, SetError, Woken
  <2> QED
    BY <1>10, <2>1, <2>2, <2>3 DEF OnClose, GateInv, HeadInv, EndInv
<1>11. CASE DeadlinePasses
  BY <1>11, IdleGate DEF DeadlinePasses
<1>12. CASE Shutdown
  BY <1>12, IdleGate DEF Shutdown
<1>13. CASE RunDeadline
  <2>1. handler' = "none" <=> handler = "none"
    BY <1>13 DEF RunDeadline, Unblock, SetError, Woken
  <2>2. CASE kind = "bidi"
    BY <1>0, <1>13, <2>1, <2>2, FinishGate DEF RunDeadline
  <2>3. CASE kind # "bidi"
    BY <1>0, <1>13, <2>1, <2>3, SendErrorGate DEF RunDeadline
  <2> QED BY <2>2, <2>3
<1>14. CASE RunCancel
  <2>1. handler' = "none" <=> handler = "none"
    BY <1>14 DEF RunCancel, Unblock, SetError, Woken
  <2>2. CASE closed \/ Settled
    BY <1>0, <1>14, <2>1, <2>2, IdleGate DEF RunCancel
  <2>3. CASE ~(closed \/ Settled) /\ kind \in Writing /\ responded
    BY <1>0, <1>14, <2>1, <2>3, FinishGate DEF RunCancel, EndWith
  <2>4. CASE ~(closed \/ Settled) /\ ~(kind \in Writing /\ responded)
    BY <1>0, <1>14, <2>1, <2>4, SendErrorGate DEF RunCancel, EndWith
  <2> QED BY <2>2, <2>3, <2>4
<1>15. CASE HandlerStarts
  BY <1>0, <1>15, IdleGate DEF HandlerStarts
<1>16. CASE Read
  BY <1>0, <1>16, IdleGate DEF Read
<1>17. CASE PopCheck
  BY <1>0, <1>17, IdleGate DEF PopCheck
<1>18. CASE Write
  <2>1. gen \in {"ready", "deferred"}
    BY <1>18 DEF Write, GateInv, EndInv, TypeInv, TypeOK, WriterOK
  <2>2. CASE WriterFinish("TOO_LARGE") /\ UNCHANGED out
    BY <1>0, <1>18, <2>2, FinishGate DEF Write
  <2>3. CASE gen' = Resumed /\ UNCHANGED finished
    BY <1>0, <1>18, <2>1, <2>3 DEF Write, Resumed, GateInv, HeadInv, EndInv
  <2> QED BY <1>0, <1>18, <2>2, <2>3 DEF Write
<1>19. ASSUME NEW s \in {"OK", "APP"}, StreamReturns(s)
       PROVE  GateInv'
  BY <1>0, <1>19, FinishGate DEF StreamReturns
<1>20. ASSUME NEW s \in {"OK", "APP"}, HandlerReturns(s)
       PROVE  GateInv'
  <2>1. CASE responded
    BY <1>0, <1>20, <2>1, IdleGate DEF HandlerReturns, SendError
  <2>2. CASE SendError(IF s = "OK" THEN "TOO_LARGE" ELSE s) /\ UNCHANGED <<out, gen>>
    BY <1>0, <1>20, <2>2, SendErrorGate DEF HandlerReturns
  <2>3. CASE ~responded /\ gen' = "ready"
    <3>1. heads = 0 /\ ends = <<>>
      BY <2>3 DEF GateInv, HeadInv, EndInv
    <3> QED BY <1>0, <1>20, <2>3, <3>1 DEF HandlerReturns, GateInv, HeadInv, EndInv
  <2> QED BY <1>0, <1>20, <2>1, <2>2, <2>3 DEF HandlerReturns
<1>21. CASE Generate
  <2>1. heads = 1 /\ ends = <<>>
    BY <1>21 DEF Generate, GateInv, HeadInv, EndInv
  <2>2. HeadInv'
    BY <1>21, <2>1 DEF Generate, GateInv, HeadInv
  <2>3. CASE out # <<>> \/ gen' = "deferred"
    BY <1>21, <2>1, <2>2, <2>3 DEF Generate, GateInv, HeadInv, EndInv
  <2>4. CASE out = <<>> /\ (kind \in Writing => finished)
    <3>1. trail \in Status
      BY <1>21, <2>4 DEF Generate, TypeInv, TypeOK, StateOK, WriterOK
    <3>2. Len(ends') = 1
      BY <1>21, <2>1, <2>4, <3>1, FirstEnd DEF Generate
    <3> QED BY <1>21, <2>1, <2>2, <2>4, <3>2 DEF Generate, GateInv, EndInv
  <2> QED BY <1>21, <2>3, <2>4 DEF Generate
<1>22. CASE UNCHANGED vars
  BY <1>22, IdleGate DEF vars
<1> QED
  BY <1>1, <1>2, <1>3, <1>4, <1>5, <1>6, <1>7, <1>8, <1>9, <1>10, <1>11,
     <1>12, <1>13, <1>14, <1>15, <1>16, <1>17, <1>18, <1>19, <1>20, <1>21,
     <1>22
  DEF Next, OnData, RunTask, Handler

(* However the handler's return, a bad request, the deadline and Shutdown  *)
(* race, a server call writes its headers once, is ended at most once, and *)
(* has nothing left to send when it is.                                    *)
THEOREM RespondsOnce == Safety => []OneResponse
<1>1. GateInv => OneResponse
  <2> SUFFICES ASSUME GateInv PROVE OneResponse
    OBVIOUS
  <2>1. CASE ends = <<>>
    BY <2>1 DEF GateInv, HeadInv, OneResponse
  <2>2. CASE ends # <<>>
    <3>1. Len(ends) = 1 /\ heads = 1 /\ out = <<>>
      BY <2>2 DEF GateInv, EndInv
    <3> QED BY <3>1 DEF OneResponse
  <2> QED BY <2>1, <2>2
<1>2. Init => TypeInv /\ GateInv
  BY InitTypes, InitGate
<1>3. TypeInv /\ GateInv /\ [Next]_vars => (TypeInv /\ GateInv)'
  BY TypeStep, GateStep
<1> QED
  BY <1>1, <1>2, <1>3, PTL DEF Safety

-----------------------------------------------------------------------------
(* An honest end                                                            *)

LEMMA InitCause == Init => CauseInv
BY DEF Init, CauseInv, EndHonest, Honest

(* A cause that is there stays, and so does the end of the generator.      *)
CausesStay ==
    /\ returned = "OK" => returned' = "OK"
    /\ deadline = "passed" => deadline' = "passed"
    /\ shutdown => shutdown'
    /\ gen = "eof" => gen' = "eof"

LEMMA CausesStayStep == TypeInv /\ GateInv /\ CauseInv /\ [Next]_vars => CausesStay
<1> SUFFICES ASSUME TypeInv, GateInv, CauseInv, [Next]_vars PROVE CausesStay
  OBVIOUS
<1> USE DEF CausesStay, gateVars, queueVars, writerVars, handlerVars, peerVars,
       wireVars, SendError, WriterFinish, EndWith, Resumed
<1>1. gen = "eof" => responded /\ stream # "new"
  BY DEF GateInv, HeadInv
<1>2. returned = "OK" => handler = "done"
  BY DEF CauseInv
<1>3. CASE StartRefused \/ Start
  BY <1>1, <1>3 DEF StartRefused, Start
<1>4. CASE OnData
  BY <1>1, <1>4 DEF OnData, OnRequest, OnRequestEnd, OnRequestBad, OnMessage,
       OnPart, OnBadHeader, OnHalfClose
<1>5. CASE OnClose \/ DeadlinePasses \/ Shutdown \/ RunTask
  BY <1>5 DEF OnClose, DeadlinePasses, Shutdown, RunTask, RunDeadline, RunCancel
<1>6. CASE Handler \/ Generate
  BY <1>1, <1>2, <1>6 DEF Handler, HandlerStarts, Read, PopCheck, Write,
       StreamReturns, HandlerReturns, Generate
<1>7. CASE UNCHANGED vars
  BY <1>7 DEF vars
<1> QED BY <1>3, <1>4, <1>5, <1>6, <1>7 DEF Next

(* An honest failure, sent trailers-only, and an unchanged end stay honest. *)
LEMMA SendErrorHonest ==
    ASSUME WireOK, EndHonest, CausesStay, NEW s \in Status, s # "OK",
           Honest(s)', SendError(s) \/ UNCHANGED ends
    PROVE  EndHonest'
<1>1. CASE UNCHANGED ends
  BY <1>1 DEF EndHonest, Honest, CausesStay
<1>2. CASE ~UNCHANGED ends
  <2>1. ends' = Append(ends, s)
    BY <1>2 DEF SendError, gateVars
  <2>2. Len(ends') = Len(ends) + 1 /\ Len(ends) \in Nat
    BY <2>1 DEF WireOK
  <2>3. \A i \in 1..Len(ends') :
            IF i = Len(ends) + 1 THEN ends'[i] = s
                                 ELSE i \in 1..Len(ends) /\ ends'[i] = ends[i]
    BY <2>1, <2>2 DEF WireOK
  <2> SUFFICES ASSUME NEW i \in 1..Len(ends')
               PROVE  Honest(ends[i])' /\ (ends'[i] = "OK" => gen' = "eof")
    BY DEF EndHonest
  <2>4. CASE i = Len(ends) + 1
    BY <2>3, <2>4 DEF Honest
  <2>5. CASE i # Len(ends) + 1
    <3>1. i \in 1..Len(ends) /\ ends'[i] = ends[i]
      BY <2>3, <2>5
    <3>2. Honest(ends[i]) /\ (ends[i] = "OK" => gen = "eof")
      BY <3>1 DEF EndHonest
    <3> QED BY <3>1, <3>2 DEF Honest, CausesStay
  <2> QED BY <2>4, <2>5
<1> QED BY <1>1, <1>2

(* An honest status in the trailers, and unchanged trailers.               *)
LEMMA FinishHonest ==
    ASSUME Honest(trail), CausesStay, NEW s, Honest(s)',
           WriterFinish(s) \/ UNCHANGED trail
    PROVE  Honest(trail)'
<1>1. trail' = trail \/ trail' = s
  BY DEF WriterFinish
<1>2. CASE trail' = trail
  BY <1>2 DEF Honest, CausesStay
<1>3. CASE trail' = s
  BY <1>3 DEF Honest
<1> QED BY <1>1, <1>2, <1>3

LEMMA CauseStep == TypeInv /\ GateInv /\ CauseInv /\ [Next]_vars => CauseInv'
<1> SUFFICES ASSUME TypeInv, GateInv, CauseInv, [Next]_vars PROVE CauseInv'
  OBVIOUS
<1>1. CausesStay
  BY CausesStayStep
<1>2. WireOK /\ EndHonest /\ Honest(trail)
  BY DEF TypeInv, TypeOK, CauseInv
<1>3. \A s \in {"APP", "BAD_REQUEST", "TOO_LARGE"} : Honest(s)'
  BY DEF Honest
<1> USE Literals DEF gateVars, queueVars, writerVars, handlerVars, peerVars, wireVars
<1>4. /\ ("deadline" \in posted => deadline = "passed")'
      /\ ("cancel" \in posted => shutdown)'
  <2>1. CASE StartRefused \/ Start
    BY <2>1 DEF StartRefused, Start, CauseInv
  <2>2. CASE OnData
    BY <2>2 DEF OnData, OnRequest, OnRequestEnd, OnRequestBad, OnMessage,
         OnPart, OnBadHeader, OnHalfClose, CauseInv
  <2>3. CASE OnClose \/ DeadlinePasses \/ Shutdown \/ RunTask
    BY <2>3 DEF OnClose, DeadlinePasses, Shutdown, RunTask, RunDeadline,
         RunCancel, CauseInv
  <2>4. CASE Handler \/ Generate
    BY <2>4 DEF Handler, HandlerStarts, Read, PopCheck, Write, StreamReturns,
         HandlerReturns, Generate, CauseInv
  <2>5. CASE UNCHANGED vars
    BY <2>5 DEF vars, CauseInv
  <2> QED BY <2>1, <2>2, <2>3, <2>4, <2>5 DEF Next
<1>5. /\ (returned # "none" => handler = "done")'
      /\ (handler # "none" /\ kind \notin Reading => halfClosed)'
  <2> USE DEF Unblock, SetError, Woken, Push
  <2>1. CASE StartRefused \/ Start
    BY <2>1 DEF StartRefused, Start, CauseInv, GateInv, HeadInv
  <2>2. CASE OnRequestEnd
    <3>1. handler = "none"
      BY <2>2 DEF OnRequestEnd, Receives, CauseInv
    <3> QED BY <2>2, <3>1 DEF OnRequestEnd, CauseInv
  <2>3. CASE OnData /\ ~OnRequestEnd
    BY <2>3 DEF OnData, OnRequest, OnRequestBad, OnMessage,
         OnPart, OnBadHeader, OnHalfClose, CauseInv
  <2>4. CASE OnClose \/ DeadlinePasses \/ Shutdown \/ RunTask
    BY <2>4 DEF OnClose, DeadlinePasses, Shutdown, RunTask, RunDeadline,
         RunCancel, CauseInv
  <2>5. CASE Handler \/ Generate
    BY <2>5 DEF Handler, HandlerStarts, Read, PopCheck, Write, StreamReturns,
         HandlerReturns, Generate, CauseInv
  <2>6. CASE UNCHANGED vars
    BY <2>6 DEF vars, CauseInv
  <2> QED BY <2>1, <2>2, <2>3, <2>4, <2>5, <2>6 DEF Next
<1>6. Honest(trail)' /\ EndHonest'
  <2>1. ASSUME NEW s \in Status, s # "OK", Honest(s)', SendError(s) \/ UNCHANGED ends,
               WriterFinish(s) \/ UNCHANGED trail
        PROVE  Honest(trail)' /\ EndHonest'
    BY <1>1, <1>2, <2>1, SendErrorHonest, FinishHonest
  <2>2. ASSUME UNCHANGED <<ends, trail>>
        PROVE  Honest(trail)' /\ EndHonest'
    BY <1>3, <2>1, <2>2
  <2>3. CASE StartRefused \/ OnRequestBad
    BY <1>3, <2>1, <2>3 DEF StartRefused, OnRequestBad
  <2>4. CASE Start \/ OnRequestEnd \/ OnMessage \/ OnPart \/ OnHalfClose
    BY <2>2, <2>4 DEF Start, OnRequestEnd, OnMessage, OnPart, OnHalfClose
  <2>5. ASSUME NEW chunk \in {"part", "rest", "bad"}, OnRequest(chunk)
        PROVE  Honest(trail)' /\ EndHonest'
    BY <1>3, <2>1, <2>5 DEF OnRequest
  <2>6. CASE OnBadHeader
    BY <1>3, <2>1, <2>6 DEF OnBadHeader, EndWith
  <2>7. CASE OnClose \/ DeadlinePasses \/ Shutdown
    BY <2>2, <2>7 DEF OnClose, DeadlinePasses, Shutdown
  <2>8. CASE RunDeadline
    <3>1. Honest("DEADLINE")'
      BY <1>1, <2>8 DEF RunDeadline, CauseInv, CausesStay, Honest
    <3> QED BY <2>1, <2>8, <3>1 DEF RunDeadline
  <2>9. CASE RunCancel
    <3>1. Honest("UNAVAILABLE")'
      BY <1>1, <2>9 DEF RunCancel, CauseInv, CausesStay, Honest
    <3> QED BY <2>1, <2>9, <3>1 DEF RunCancel, EndWith
  <2>10. CASE HandlerStarts \/ Read \/ PopCheck
    BY <2>2, <2>10 DEF HandlerStarts, Read, PopCheck
  <2>11. CASE Write
    BY <1>3, <2>1, <2>11 DEF Write
  <2>12. ASSUME NEW s \in {"OK", "APP"}, StreamReturns(s)
         PROVE  Honest(trail)' /\ EndHonest'
    <3>1. Honest(s)'
      BY <2>12 DEF StreamReturns, Honest
    <3>2. UNCHANGED ends
      BY <2>12 DEF StreamReturns
    <3>3. EndHonest'
      BY <1>1, <1>2, <1>3, <3>2, SendErrorHonest
    <3>4. Honest(trail)'
      BY <1>1, <1>2, <2>12, <3>1, FinishHonest DEF StreamReturns
    <3> QED BY <3>3, <3>4
  <2>13. ASSUME NEW s \in {"OK", "APP"}, HandlerReturns(s)
         PROVE  Honest(trail)' /\ EndHonest'
    <3>1. CASE UNCHANGED <<ends, trail>>
      BY <2>2, <3>1
    <3>2. CASE UNCHANGED trail /\ SendError(IF s = "OK" THEN "TOO_LARGE" ELSE s)
      BY <1>3, <2>1, <3>2
    <3>3. CASE s = "OK" /\ trail' = s /\ UNCHANGED ends
      <4>1. Honest(trail)'
        BY <2>13, <3>3 DEF HandlerReturns, Honest
      <4>2. EndHonest'
        BY <1>1, <1>2, <1>3, <3>3, SendErrorHonest
      <4> QED BY <4>1, <4>2
    <3> QED BY <2>13, <3>1, <3>2, <3>3 DEF HandlerReturns
  <2>14. CASE Generate
    <3>1. CASE UNCHANGED ends
      BY <2>2, <2>14, <3>1 DEF Generate
    <3>2. CASE ~UNCHANGED ends
      <4>1. ends = <<>>
        BY <2>14 DEF Generate, GateInv, EndInv
      <4>2. ends' = Append(<<>>, trail) /\ gen' = "eof" /\ UNCHANGED trail
        BY <2>14, <3>2, <4>1 DEF Generate
      <4>3. Honest(trail)'
        BY <1>1, <1>2, <4>2 DEF Honest, CausesStay
      <4>4. Len(ends') = 1 /\ ends'[1] = trail'
        BY <4>2
      <4> QED BY <4>2, <4>3, <4>4 DEF EndHonest, Honest
    <3> QED BY <3>1, <3>2
  <2>15. CASE UNCHANGED vars
    BY <2>2, <2>15 DEF vars
  <2> QED
    BY <2>3, <2>4, <2>5, <2>6, <2>7, <2>8, <2>9, <2>10, <2>11, <2>12, <2>13,
       <2>14, <2>15
    DEF Next, OnData, RunTask, Handler
<1> QED BY <1>4, <1>5, <1>6 DEF CauseInv

LEMMA InitFrame == Init => FrameInv
BY DEF Init, FrameInv

(* Whatever leaves the frames alone, and makes no generator.               *)
LEMMA IdleFrame ==
    ASSUME FrameInv, UNCHANGED <<kind, sentOut, out, written>>,
           kind \in Writing \/ (gen' = "none" <=> gen = "none")
    PROVE  FrameInv'
BY DEF FrameInv

LEMMA FrameStep == TypeInv /\ GateInv /\ FrameInv /\ [Next]_vars => FrameInv'
<1> SUFFICES ASSUME TypeInv, GateInv, FrameInv, [Next]_vars PROVE FrameInv'
  OBVIOUS
<1> USE DEF gateVars, queueVars, writerVars, handlerVars, peerVars, wireVars
<1>1. out \in Seq(Nat) /\ sentOut \in Seq(Nat) /\ written \in Nat
  BY MaxOutAssumption DEF TypeInv, TypeOK, WriterOK, WireOK, HandlerOK
<1>2. CASE StartRefused \/ Start
  BY <1>2, IdleFrame DEF StartRefused, Start, Writing
<1>3. CASE OnData
  BY <1>3, IdleFrame DEF OnData, OnRequest, OnRequestEnd, OnRequestBad,
       OnMessage, OnPart, OnBadHeader, OnHalfClose, EndWith, WriterFinish,
       Resumed, Writing
<1>4. CASE OnClose \/ DeadlinePasses \/ Shutdown \/ RunTask
  BY <1>4, IdleFrame DEF OnClose, DeadlinePasses, Shutdown, RunTask,
       RunDeadline, RunCancel, EndWith, WriterFinish, Resumed
<1>5. CASE HandlerStarts \/ Read \/ PopCheck
  BY <1>5, IdleFrame DEF HandlerStarts, Read, PopCheck
<1>6. CASE Write
  <2>1. CASE UNCHANGED <<out, written>>
    BY <1>6, <2>1, IdleFrame DEF Write
  <2>2. CASE written' = written + 1 /\ out' = Append(out, written + 1)
    <3>1. /\ Len(out') = Len(out) + 1 /\ out'[Len(out) + 1] = written + 1
          /\ \A i \in 1..Len(out) : out'[i] = out[i]
      BY <1>1, <2>2
    <3>2. UNCHANGED <<kind, sentOut>> /\ kind \in Writing
      BY <1>6 DEF Write
    <3>3. Len(sentOut) + Len(out) = written
      BY <3>2 DEF FrameInv
    <3>4. \A i \in 1..Len(out') : out'[i] = Len(sentOut) + i
      <4> SUFFICES ASSUME NEW i \in 1..Len(out') PROVE out'[i] = Len(sentOut) + i
        OBVIOUS
      <4>1. CASE i = Len(out) + 1
        BY <1>1, <3>1, <3>3, <4>1
      <4>2. CASE i # Len(out) + 1
        <5>1. i \in 1..Len(out)
          BY <1>1, <3>1, <4>2
        <5> QED BY <3>1, <5>1 DEF FrameInv
      <4> QED BY <4>1, <4>2
    <3> QED BY <1>1, <2>2, <3>1, <3>2, <3>3, <3>4 DEF FrameInv
  <2> QED BY <1>6, <2>1, <2>2 DEF Write
<1>7. ASSUME NEW s \in {"OK", "APP"}, StreamReturns(s)
      PROVE  FrameInv'
  BY <1>7, IdleFrame DEF StreamReturns
<1>8. ASSUME NEW s \in {"OK", "APP"}, HandlerReturns(s)
      PROVE  FrameInv'
  <2>1. CASE UNCHANGED <<out, gen>>
    BY <1>8, <2>1, IdleFrame DEF HandlerReturns
  <2>2. CASE ~responded /\ out' = <<1>> /\ gen' = "ready"
    <3>1. gen = "none" /\ kind \notin Writing /\ UNCHANGED <<kind, sentOut>>
      BY <1>8, <2>2 DEF HandlerReturns, GateInv, HeadInv
    <3>2. Len(sentOut) = 0
      BY <1>1, <3>1 DEF FrameInv
    <3>3. Len(<<1>>) = 1 /\ <<1>>[1] = 1
      OBVIOUS
    <3> QED BY <2>2, <3>1, <3>2, <3>3 DEF FrameInv
  <2> QED BY <1>8, <2>1, <2>2 DEF HandlerReturns
<1>9. CASE Generate
  <2>1. CASE UNCHANGED <<out, sentOut>>
    BY <1>9, <2>1, IdleFrame DEF Generate
  <2>2. CASE out # <<>> /\ sentOut' = Append(sentOut, Head(out)) /\ out' = Tail(out)
             /\ UNCHANGED gen
    <3>1. /\ Len(sentOut') = Len(sentOut) + 1
          /\ \A i \in 1..Len(sentOut) : sentOut'[i] = sentOut[i]
          /\ sentOut'[Len(sentOut) + 1] = out[1]
      BY <1>1, <2>2
    <3>2. /\ Len(out) \in Nat /\ Len(out) > 0 /\ Len(out') = Len(out) - 1
          /\ \A i \in 1..Len(out') : out'[i] = out[i + 1]
      BY <1>1, <2>2
    <3>3. UNCHANGED <<kind, written>>
      BY <1>9 DEF Generate
    <3>4. out[1] = Len(sentOut) + 1
      BY <3>2 DEF FrameInv
    <3>5. \A i \in 1..Len(sentOut') : sentOut'[i] = i
      <4> SUFFICES ASSUME NEW i \in 1..Len(sentOut') PROVE sentOut'[i] = i
        OBVIOUS
      <4>1. CASE i \in 1..Len(sentOut)
        BY <3>1, <4>1 DEF FrameInv
      <4>2. CASE i = Len(sentOut) + 1
        BY <3>1, <3>4, <4>2
      <4>3. Len(sentOut) \in Nat
        BY <1>1
      <4> QED BY <3>1, <4>1, <4>2, <4>3
    <3>6. \A i \in 1..Len(out') : out'[i] = Len(sentOut') + i
      <4> SUFFICES ASSUME NEW i \in 1..Len(out') PROVE out'[i] = Len(sentOut') + i
        OBVIOUS
      <4>1. i + 1 \in 1..Len(out) /\ out'[i] = out[i + 1]
        BY <3>2
      <4>2. out[i + 1] = Len(sentOut) + (i + 1)
        BY <4>1 DEF FrameInv
      <4> QED BY <1>1, <3>1, <4>1, <4>2
    <3>7. Len(sentOut') + Len(out') = Len(sentOut) + Len(out)
      BY <1>1, <3>1, <3>2
    <3> QED BY <2>2, <3>3, <3>5, <3>6, <3>7 DEF FrameInv
  <2> QED BY <1>9, <2>1, <2>2 DEF Generate
<1>10. CASE UNCHANGED vars
  BY <1>10, IdleFrame DEF vars
<1> QED
  BY <1>2, <1>3, <1>4, <1>5, <1>6, <1>7, <1>8, <1>9, <1>10 DEF Next, Handler

(* A server call that ends with OK does so for a handler that returned OK  *)
(* and after all it wrote, its messages go out once each and in order, and *)
(* it blames the deadline or Shutdown only for one that was.               *)
THEOREM ServerEndIsHonest == Safety => []HonestEnd
<1>1. TypeInv /\ GateInv /\ CauseInv /\ FrameInv => HonestEnd
  <2> SUFFICES ASSUME TypeInv, GateInv, CauseInv, FrameInv PROVE HonestEnd
    OBVIOUS
  <2>1. ASSUME NEW s \in Status, ends = <<s>>
        PROVE  Honest(s) /\ (s = "OK" => gen = "eof")
    <3>1. 1 \in 1..Len(ends) /\ ends[1] = s
      BY <2>1
    <3> QED BY <3>1 DEF CauseInv, EndHonest
  <2>2. gen = "eof" => Len(sentOut) = (IF kind \in Writing THEN written ELSE 1)
    <3>1. gen = "eof" => Len(out) = 0
      BY DEF GateInv, EndInv
    <3>2. Len(sentOut) \in Nat
      BY DEF TypeInv, TypeOK, WireOK
    <3> QED BY <3>1, <3>2 DEF FrameInv
  <2>3. \A i \in 1..Len(sentOut) : sentOut[i] = i
    BY DEF FrameInv
  <2> QED BY <2>1, <2>2, <2>3, Literals DEF HonestEnd, Honest
<1>2. Init => TypeInv /\ GateInv /\ CauseInv /\ FrameInv
  BY InitTypes, InitGate, InitCause, InitFrame
<1>3. TypeInv /\ GateInv /\ CauseInv /\ FrameInv /\ [Next]_vars
          => (TypeInv /\ GateInv /\ CauseInv /\ FrameInv)'
  BY TypeStep, GateStep, CauseStep, FrameStep
<1> QED
  BY <1>1, <1>2, <1>3, PTL DEF Safety

-----------------------------------------------------------------------------
(* The request, in order                                                    *)

LEMMA InitGot == Init => GotInv /\ ReadInv
<1> SUFFICES ASSUME Init PROVE GotInv /\ ReadInv
  OBVIOUS
<1>1. Got = <<>> /\ Len(Got) = 0 /\ sent = 0
  BY DEF Init, Got
<1> QED BY <1>1 DEF Init, GotInv, ReadInv

(* What the calls that do not touch the reader keep.  A response only      *)
(* makes a call ignore more, and a call that is no reader has no messages  *)
(* to lose.                                                                *)
LEMMA IdleGot ==
    ASSUME GotInv, Got' = Got, UNCHANGED <<kind, sent>>,
           dec' = dec \/ dec' = "error" \/ (dec # "error" /\ dec' # "error"),
           eos' => eos \/ ~Ignores, responded => responded'
    PROVE  GotInv'
<1>1. Ignores => Ignores'
  BY DEF Ignores
<1> QED BY <1>1 DEF GotInv

(* The payloads of a parser that is out of step: the message comes last.   *)
LEMMA Payloads ==
    ASSUME NEW n \in Nat, NEW p \in {<< 0 >>, <<0, n>>, <<n>>}
    PROVE  /\ p \in Seq(Nat)
           /\ \A i \in 1..Len(p) : p[i] \in {0, n} /\ (i < Len(p) => p[i] = 0)
<1>1. CASE p = <<0>>
  BY <1>1
<1>2. CASE p = <<0, n>>
  BY <1>2
<1>3. CASE p = <<n>>
  BY <1>3
<1> QED BY <1>1, <1>2, <1>3

LEMMA Associative ==
    \A x, y, z \in Seq(Nat) : x \o (y \o z) = (x \o y) \o z
<1> SUFFICES ASSUME NEW x \in Seq(Nat), NEW y \in Seq(Nat), NEW z \in Seq(Nat)
             PROVE  x \o (y \o z) = (x \o y) \o z
  OBVIOUS
<1> DEFINE l == x \o (y \o z)
           r == (x \o y) \o z
<1>1. /\ Len(x) \in Nat /\ Len(y) \in Nat /\ Len(z) \in Nat
      /\ Len(x \o y) = Len(x) + Len(y) /\ x \o y \in Seq(Nat)
      /\ Len(y \o z) = Len(y) + Len(z) /\ y \o z \in Seq(Nat)
  OBVIOUS
<1>2. l \in Seq(Nat) /\ r \in Seq(Nat) /\ Len(l) = Len(r) /\ Len(l) \in Nat
  BY <1>1
<1>3. ASSUME NEW i \in 1..Len(l) PROVE l[i] = r[i]
  <2>1. CASE i <= Len(x)
    BY <1>1, <2>1
  <2>2. CASE i > Len(x) /\ i <= Len(x) + Len(y)
    BY <1>1, <2>2
  <2>3. CASE i > Len(x) + Len(y)
    BY <1>1, <2>3
  <2>4. \/ i <= Len(x)
        \/ i > Len(x) /\ i <= Len(x) + Len(y)
        \/ i > Len(x) + Len(y)
    <3>1. i \in Nat
      BY <1>2
    <3> HIDE DEF l
    <3> QED BY <1>1, <3>1
  <2> QED BY <2>1, <2>2, <2>3, <2>4, Zenon
<1> HIDE DEF l, r
<1>4. l = r
  BY <1>2, <1>3, SeqEqual
<1> QED BY <1>4 DEF l, r

LEMMA Extended ==
    ASSUME NEW g \in Seq(Nat), NEW p \in Seq(Nat), NEW h, h = g \o p
    PROVE  /\ Len(h) = Len(g) + Len(p)
           /\ \A i \in 1..Len(h) : h[i] = IF i <= Len(g) THEN g[i] ELSE p[i - Len(g)]
OBVIOUS

(* Push puts its payloads behind all that was taken before.                *)
LEMMA PushedGot ==
    ASSUME received \in Seq(Nat), buffer \in Seq(Nat), NEW p \in Seq(Nat),
           buffer' = buffer \o p, UNCHANGED received
    PROVE  /\ Got \in Seq(Nat)
           /\ Len(Got') = Len(Got) + Len(p)
           /\ \A i \in 1..Len(Got') :
                  Got'[i] = IF i <= Len(Got) THEN Got[i] ELSE p[i - Len(Got)]
<1>1. received \o (buffer \o p) = (received \o buffer) \o p
  BY Associative
<1>2. Got' = Got \o p
  BY <1>1 DEF Got
<1>3. Got \in Seq(Nat)
  BY DEF Got
<1> QED BY <1>2, <1>3, Extended

(* Such payloads keep the order: they follow numbers of at most sent.      *)
LEMMA PushGot ==
    ASSUME GotInv, sent \in Nat, sent' = sent + 1, Got \in Seq(Nat), NEW p \in Seq(Nat),
           \A i \in 1..Len(p) : p[i] \in {0, sent + 1} /\ (i < Len(p) => p[i] = 0),
           Len(Got') = Len(Got) + Len(p),
           \A i \in 1..Len(Got') :
               Got'[i] = IF i <= Len(Got) THEN Got[i] ELSE p[i - Len(Got)]
    PROVE  /\ \A i \in 1..Len(Got') : Got'[i] <= sent'
           /\ \A i, j \in 1..Len(Got') :
                  i < j /\ Got'[i] # 0 /\ Got'[j] # 0 => Got'[i] < Got'[j]
<1>0. \A i \in 1..Len(Got) : Got[i] \in Nat /\ Got[i] < sent + 1
  <2>1. ASSUME NEW i \in 1..Len(Got) PROVE Got[i] \in Nat /\ Got[i] < sent + 1
    <3>1. Got[i] <= sent
      BY DEF GotInv
    <3>2. Got[i] \in Nat
      OBVIOUS
    <3> QED BY <3>1, <3>2
  <2> QED BY <2>1
<1>1. Len(Got) \in Nat /\ Len(p) \in Nat
  OBVIOUS
<1>2. ASSUME NEW i \in 1..Len(Got')
      PROVE  \/ i \in 1..Len(Got) /\ Got'[i] = Got[i] /\ Got'[i] \in Nat /\ Got'[i] < sent + 1
             \/ i > Len(Got) /\ i < Len(Got') /\ Got'[i] = 0
             \/ i = Len(Got') /\ Got'[i] \in {0, sent + 1}
  <2>1. CASE i <= Len(Got)
    BY <1>0, <1>1, <2>1
  <2>2. CASE i > Len(Got)
    <3>1. i - Len(Got) \in 1..Len(p) /\ Got'[i] = p[i - Len(Got)]
      BY <1>1, <2>2
    <3>2. i - Len(Got) < Len(p) <=> i < Len(Got')
      BY <1>1
    <3>3. CASE i < Len(Got')
      BY <2>2, <3>1, <3>2, <3>3
    <3>4. CASE i = Len(Got')
      BY <3>1, <3>4
    <3>5. i \in Nat /\ Len(Got') \in Nat /\ i <= Len(Got')
      BY <1>1
    <3>6. i < Len(Got') \/ i = Len(Got')
      BY <3>5
    <3> QED BY <3>3, <3>4, <3>6
  <2> QED BY <1>1, <2>1, <2>2
<1>3. ASSUME NEW i \in 1..Len(Got') PROVE Got'[i] <= sent + 1
  <2>1. CASE Got'[i] \in Nat /\ Got'[i] < sent + 1
    BY <2>1
  <2>2. CASE Got'[i] \in {0, sent + 1}
    BY <2>2
  <2> QED BY <1>2, <2>1, <2>2
<1>4. ASSUME NEW i \in 1..Len(Got'), NEW j \in 1..Len(Got'), i < j, Got'[i] # 0, Got'[j] # 0
      PROVE  Got'[i] < Got'[j]
  <2>1. i \in 1..Len(Got) /\ Got'[i] = Got[i] /\ Got'[i] \in Nat /\ Got'[i] < sent + 1
    BY <1>1, <1>2, <1>4
  <2>2. CASE j \in 1..Len(Got) /\ Got'[j] = Got[j]
    BY <1>4, <2>1, <2>2 DEF GotInv
  <2>3. CASE Got'[j] = sent + 1
    BY <2>1, <2>3
  <2> QED BY <1>2, <1>4, <2>2, <2>3
<1> QED BY <1>3, <1>4

(* A message in step with its number extends the list by one.              *)
LEMMA NextGot ==
    ASSUME GotInv, received \in Seq(Nat), buffer \in Seq(Nat), sent \in Nat,
           \A i \in 1..Len(Got) : Got[i] = i, Len(Got) = sent,
           buffer' = buffer \o <<sent + 1>>, UNCHANGED received
    PROVE  Len(Got') = sent + 1 /\ \A i \in 1..Len(Got') : Got'[i] = i
<1>1. <<sent + 1>> \in Seq(Nat) /\ Got \in Seq(Nat)
  BY DEF Got
<1>2. <<sent + 1>>[1] = sent + 1 /\ Len(<<sent + 1>>) = 1
  OBVIOUS
<1>3. /\ Len(Got') = Len(Got) + 1
      /\ \A i \in 1..Len(Got') :
             Got'[i] = IF i <= Len(Got) THEN Got[i] ELSE <<sent + 1>>[i - Len(Got)]
  BY <1>1, <1>2, PushedGot
<1>4. ASSUME NEW i \in 1..Len(Got') PROVE Got'[i] = i
  <2>1. CASE i <= Len(Got)
    BY <1>3, <2>1
  <2>2. CASE ~(i <= Len(Got))
    <3>1. i = sent + 1
      BY <1>3, <2>2
    <3>2. i - Len(Got) = 1
      BY <3>1
    <3>3. Got'[i] = <<sent + 1>>[1]
      BY <1>3, <2>2, <3>2
    <3> QED BY <1>2, <3>1, <3>3
  <2> QED BY <2>1, <2>2
<1> QED BY <1>3, <1>4

LEMMA GotStep == TypeInv /\ GateInv /\ ReadInv /\ GotInv /\ [Next]_vars => GotInv'
<1> SUFFICES ASSUME TypeInv, GateInv, ReadInv, GotInv, [Next]_vars PROVE GotInv'
  OBVIOUS
<1> USE DEF gateVars, queueVars, writerVars, handlerVars, peerVars, wireVars
<1>1. received \in Seq(Nat) /\ buffer \in Seq(Nat) /\ sent \in Nat
  <2>1. Msg \subseteq Nat
    BY MaxInAssumption DEF Msg
  <2>2. \A S, T : S \subseteq T => Seq(S) \subseteq Seq(T)
    OBVIOUS
  <2>3. Seq(Msg) \subseteq Seq(Nat)
    BY <2>1, <2>2
  <2> QED BY <2>3, MaxInAssumption DEF TypeInv, TypeOK, QueueOK, HandlerOK, PeerOK
<1>2. UNCHANGED <<received, buffer>> => Got' = Got
  BY DEF Got
<1>3. CASE StartRefused \/ Start
  BY <1>2, <1>3, IdleGot DEF StartRefused, Start, SendError
<1>4. ASSUME NEW chunk \in {"part", "rest", "bad"}, OnRequest(chunk)
      PROVE  GotInv'
  <2>1. dec' = dec \/ dec' = "error" \/ (dec # "error" /\ dec' # "error")
    <3>1. dec = "error" => Feed(chunk) = "error"
      BY DEF Feed
    <3>2. dec' = dec \/ dec' = Feed(chunk)
      BY <1>4 DEF OnRequest
    <3> QED BY <3>1, <3>2
  <2>2. responded => responded'
    BY <1>4 DEF OnRequest
  <2> QED BY <1>2, <1>4, <2>1, <2>2, IdleGot DEF OnRequest
<1>5. CASE OnRequestEnd \/ OnRequestBad
  BY <1>2, <1>5, IdleGot DEF OnRequestEnd, OnRequestBad, SendError
<1>6. CASE OnMessage
  <2>1. UNCHANGED <<kind, responded, eos, received>> /\ kind \in Reading /\ ~eos
        /\ sent' = sent + 1 /\ (Ignores <=> Ignores')
    BY <1>6 DEF OnMessage, Receives, ReadInv, Ignores
  <2>2. CASE UNCHANGED <<buffer, dec>> /\ (Ignores \/ dec = "error")
    <3>1. Got' = Got
      BY <1>2, <2>1, <2>2
    <3>2. \A i \in 1..Len(Got) : Got[i] <= sent + 1
      <4>1. Got \in Seq(Nat)
        BY <1>1 DEF Got
      <4>2. \A i \in 1..Len(Got) : Got[i] \in Nat /\ Got[i] <= sent
        BY <4>1 DEF GotInv
      <4> QED BY <1>1, <4>2
    <3> QED BY <2>1, <2>2, <3>1, <3>2 DEF GotInv
  <2>3. CASE ~Ignores /\ dec # "error" /\ buffer' = buffer \o <<sent + 1>> /\ dec' = "empty"
    <3>1. (\A i \in 1..Len(Got) : Got[i] = i) /\ Len(Got) = sent
      BY <2>1, <2>3 DEF GotInv
    <3>2. Len(Got') = sent + 1 /\ \A i \in 1..Len(Got') : Got'[i] = i
      BY <1>1, <2>1, <2>3, <3>1, NextGot
    <3>3. \A i \in 1..Len(Got') : Got'[i] <= sent'
      BY <1>1, <2>1, <3>2
    <3>4. \A i, j \in 1..Len(Got') : i < j => Got'[i] < Got'[j]
      BY <3>2
    <3> QED BY <2>1, <3>2, <3>3, <3>4 DEF GotInv
  <2>4. CASE /\ dec = "error" /\ dec' = "error"
             /\ \E p \in {<<0>>, <<0, sent + 1>>, <<sent + 1>>} : buffer' = buffer \o p
    <3>1. /\ \A i \in 1..Len(Got') : Got'[i] <= sent'
          /\ \A i, j \in 1..Len(Got') :
                 i < j /\ Got'[i] # 0 /\ Got'[j] # 0 => Got'[i] < Got'[j]
      <4>1. PICK p \in {<<0>>, <<0, sent + 1>>, <<sent + 1>>} : buffer' = buffer \o p
        BY <2>4
      <4>2. sent + 1 \in Nat
        BY <1>1
      <4>3. /\ p \in Seq(Nat)
            /\ \A i \in 1..Len(p) : p[i] \in {0, sent + 1} /\ (i < Len(p) => p[i] = 0)
        BY <4>2, Payloads
      <4>4. /\ Got \in Seq(Nat)
            /\ Len(Got') = Len(Got) + Len(p)
            /\ \A i \in 1..Len(Got') :
                   Got'[i] = IF i <= Len(Got) THEN Got[i] ELSE p[i - Len(Got)]
        BY <1>1, <2>1, <4>1, <4>3, PushedGot
      <4> QED BY <1>1, <2>1, <4>3, <4>4, PushGot
    <3> QED BY <2>4, <3>1 DEF GotInv
  <2> QED BY <1>6, <2>1, <2>2, <2>3, <2>4 DEF OnMessage, Push
<1>7. CASE OnPart
  BY <1>2, <1>7, IdleGot DEF OnPart
<1>8. CASE OnBadHeader
  BY <1>2, <1>8, IdleGot DEF OnBadHeader, SetError, EndWith, SendError
<1>9. CASE OnHalfClose
  BY <1>2, <1>9, IdleGot DEF OnHalfClose
<1>10. CASE OnClose
  BY <1>2, <1>10, IdleGot DEF OnClose
<1>11. CASE DeadlinePasses \/ Shutdown
  BY <1>2, <1>11, IdleGot DEF DeadlinePasses, Shutdown
<1>12. CASE RunDeadline \/ RunCancel
  BY <1>2, <1>12, IdleGot DEF RunDeadline, RunCancel, EndWith, SendError
<1>13. CASE HandlerStarts \/ Read \/ Write
  BY <1>2, <1>13, IdleGot DEF HandlerStarts, Read, Write
<1>14. CASE PopCheck
  <2>1. Got' = Got
    <3>1. \A S : \A a, b \in Seq(S) : b # <<>> => Append(a, Head(b)) \o Tail(b) = a \o b
      OBVIOUS
    <3>2. CASE UNCHANGED <<received, buffer>>
      BY <1>2, <3>2
    <3>3. CASE buffer # <<>> /\ received' = Append(received, Head(buffer))
               /\ buffer' = Tail(buffer)
      <4>1. Append(received, Head(buffer)) \o Tail(buffer) = received \o buffer
        BY <1>1, <3>1, <3>3
      <4> QED BY <3>3, <4>1 DEF Got
    <3> QED BY <1>14, <3>2, <3>3 DEF PopCheck
  <2> QED BY <1>14, <2>1, IdleGot DEF PopCheck
<1>15. ASSUME NEW s \in {"OK", "APP"}, StreamReturns(s) \/ HandlerReturns(s)
       PROVE  GotInv'
  BY <1>2, <1>15, IdleGot DEF StreamReturns, HandlerReturns, SendError
<1>16. CASE Generate
  BY <1>2, <1>16, IdleGot DEF Generate
<1>17. CASE UNCHANGED vars
  BY <1>2, <1>17, IdleGot DEF vars
<1> QED
  BY <1>3, <1>4, <1>5, <1>6, <1>7, <1>8, <1>9, <1>10, <1>11, <1>12, <1>13,
     <1>14, <1>15, <1>16, <1>17
  DEF Next, OnData, RunTask, Handler

LEMMA ReadStep == TypeInv /\ ReadInv /\ [Next]_vars => ReadInv'
<1> SUFFICES ASSUME TypeInv, ReadInv, [Next]_vars PROVE ReadInv'
  OBVIOUS
<1> USE Literals DEF gateVars, queueVars, writerVars, handlerVars, peerVars,
       wireVars, Unblock, SetError, Woken, Push
<1>1. error \in Status \cup {"none"} /\ "eos" \notin Status
  BY DEF TypeInv, TypeOK, QueueOK, Status
<1>2. CASE StartRefused \/ Start
  BY <1>2 DEF StartRefused, Start, ReadInv
<1>3. ASSUME NEW chunk \in {"part", "rest", "bad"}, OnRequest(chunk)
      PROVE  ReadInv'
  BY <1>3 DEF OnRequest, ReadInv
<1>4. CASE OnRequestEnd \/ OnRequestBad
  BY <1>4 DEF OnRequestEnd, OnRequestBad, ReadInv
<1>5. CASE OnMessage \/ OnPart \/ OnHalfClose
  BY <1>5 DEF OnMessage, OnPart, OnHalfClose, Receives, ReadInv
<1>6. CASE OnBadHeader
  BY <1>6 DEF OnBadHeader, Receives, ReadInv
<1>7. CASE OnClose \/ DeadlinePasses \/ Shutdown
  BY <1>7 DEF OnClose, DeadlinePasses, Shutdown, ReadInv
<1>8. CASE RunDeadline \/ RunCancel
  BY <1>8 DEF RunDeadline, RunCancel, ReadInv
<1>9. CASE HandlerStarts \/ Read \/ Write \/ Generate
  BY <1>9 DEF HandlerStarts, Read, Write, Generate, ReadInv
<1>10. CASE PopCheck
  BY <1>1, <1>10 DEF PopCheck, ReadInv
<1>11. ASSUME NEW s \in {"OK", "APP"}, StreamReturns(s) \/ HandlerReturns(s)
       PROVE  ReadInv'
  BY <1>11 DEF StreamReturns, HandlerReturns, ReadInv
<1>12. CASE UNCHANGED vars
  BY <1>12 DEF vars, ReadInv
<1> QED
  BY <1>2, <1>3, <1>4, <1>5, <1>6, <1>7, <1>8, <1>9, <1>10, <1>11, <1>12
  DEF Next, OnData, RunTask, Handler

(* A handler reads the messages of its peer in order and without a gap and *)
(* sees a clean end only after the last one; after a bad header gaps and   *)
(* stray payloads are possible, a reordering or a clean end is not.        *)
THEOREM RequestKeepsOrder == Safety => []RequestInOrder
<1>1. TypeInv /\ ReadInv /\ GotInv => RequestInOrder
  <2> SUFFICES ASSUME TypeInv, ReadInv, GotInv PROVE RequestInOrder
    OBVIOUS
  <2>1. ASSUME readEnd = "eos"
        PROVE  halfClosed /\ Len(received) = sent /\ dec # "error"
    <3>1. kind \in Reading /\ eos /\ buffer = <<>> /\ dec # "error" /\ halfClosed
      BY <2>1 DEF ReadInv
    <3>2. Got = received
      BY <3>1 DEF Got, TypeInv, TypeOK, HandlerOK
    <3> QED BY <3>1, <3>2 DEF GotInv
  <2> QED BY <2>1 DEF GotInv, Got, RequestInOrder
<1>2. Init => TypeInv /\ GateInv /\ ReadInv /\ GotInv
  BY InitTypes, InitGate, InitGot
<1>3. TypeInv /\ GateInv /\ ReadInv /\ GotInv /\ [Next]_vars
          => (TypeInv /\ GateInv /\ ReadInv /\ GotInv)'
  BY TypeStep, GateStep, ReadStep, GotStep
<1> QED
  BY <1>1, <1>2, <1>3, PTL DEF Safety
=============================================================================
