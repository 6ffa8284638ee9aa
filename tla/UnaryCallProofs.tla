-------------------------- MODULE UnaryCallProofs --------------------------
(***************************************************************************)
(* Theorems about UnaryCall for every set of cancellers, with and without  *)
(* a deadline, and for any number of DATA callbacks.                       *)
(***************************************************************************)
EXTENDS UnaryCall, TLAPS

-----------------------------------------------------------------------------
(* Facts about the operators the actions are built from                     *)

(* The literals the actions use are statuses and tasks.                    *)
LEMMA Literals ==
    /\ {"OK", "OK_NO_RESPONSE", "APP", "CANCELLED", "DEADLINE",
        "UNAVAILABLE", "INVALID_ARGUMENT", "NOT_SENT", "BAD_RESPONSE",
        "NO_TRAILERS", "INTERNAL"} \subseteq Status
    /\ "none" \notin Status
    /\ {"submit", "cancel", "deadline", "trailersOK", "trailersApp",
        "close"} \subseteq Task
    /\ Chunk \subseteq Task
    /\ {"kIdle", "kConnecting", "kReady", "kFailed", "kShutdown"} \subseteq ConnState
BY DEF Status, Task, ConnState

(* A group of variables that does not change keeps its type.               *)
LEMMA Frame ==
    /\ ControlOK /\ UNCHANGED controlVars => ControlOK'
    /\ GateOK /\ UNCHANGED gateVars => GateOK'
    /\ CallerOK /\ UNCHANGED callerVars => CallerOK'
    /\ ConnOK /\ UNCHANGED connVars => ConnOK'
    /\ StrandOK /\ UNCHANGED strandVars => StrandOK'
    /\ CallGateOK /\ UNCHANGED gateOfCall => CallGateOK'
    /\ BodyOK /\ UNCHANGED bodyVars => BodyOK'
    /\ WireOK /\ UNCHANGED wireVars => WireOK'
<1>1. ControlOK /\ UNCHANGED controlVars => ControlOK'
  BY DEF ControlOK, controlVars
<1>2. GateOK /\ UNCHANGED gateVars => GateOK'
  BY DEF GateOK, gateVars
<1>3. CallerOK /\ UNCHANGED callerVars => CallerOK'
  BY DEF CallerOK, callerVars
<1>4. ConnOK /\ UNCHANGED connVars => ConnOK'
  BY DEF ConnOK, connVars
<1>5. StrandOK /\ UNCHANGED strandVars => StrandOK'
  BY DEF StrandOK, strandVars
<1>6. CallGateOK /\ UNCHANGED gateOfCall => CallGateOK'
  BY DEF CallGateOK, gateOfCall
<1>7. BodyOK /\ UNCHANGED bodyVars => BodyOK'
  BY DEF BodyOK, bodyVars
<1>8. WireOK /\ UNCHANGED wireVars => WireOK'
  BY DEF WireOK, wireVars
<1> QED BY <1>1, <1>2, <1>3, <1>4, <1>5, <1>6, <1>7, <1>8

(* The gate of UnaryCallCompletion records a status and an actor.          *)
LEMMA GateType ==
    ASSUME GateOK, NEW a \in Actors, NEW s \in Status, Gate(a, s)
    PROVE  GateOK'
BY DEF GateOK, Gate, gateVars

(* ClientCallState::Complete posts a status.                               *)
LEMMA CompleteCallType ==
    ASSUME CallGateOK, NEW s \in Status, CompleteCall(s)
    PROVE  CallGateOK'
<1>1. CASE callDone
  BY <1>1 DEF CallGateOK, CompleteCall, gateOfCall
<1>2. CASE ~callDone
  <2>1. callDone' \in BOOLEAN
    BY <1>2, Zenon DEF CompleteCall
  <2>2. timer' \in {"off", "armed", "fired"}
    BY <1>2 DEF CallGateOK, CompleteCall
  <2>3. ioc' \in Seq(Status)
    BY <1>2 DEF CallGateOK, CompleteCall
  <2> QED BY <2>1, <2>2, <2>3 DEF CallGateOK
<1> QED BY <1>1, <1>2

(* Taking a task off the strand, or posting one, keeps a sequence of tasks.*)
LEMMA StrandType ==
    ASSUME StrandOK
    PROVE  /\ \A t \in Task : StartTask(t) => strand' \in Seq(Task)
           /\ \A t \in Task : strand' = Append(strand, t) => strand' \in Seq(Task)
<1>1. \A t \in Task : StartTask(t) => strand' \in Seq(Task)
  BY DEF StrandOK, StartTask
<1>2. \A t \in Task : strand' = Append(strand, t) => strand' \in Seq(Task)
  BY DEF StrandOK
<1> QED BY <1>1, <1>2

-----------------------------------------------------------------------------
(* Every action keeps every variable in its type.                          *)
LEMMA TypeStep == TypeOK /\ ResultChosen /\ [Next]_vars => TypeOK'
<1> SUFFICES ASSUME TypeOK, ResultChosen, [Next]_vars PROVE TypeOK'
  OBVIOUS
<1> ControlOK /\ GateOK /\ CallerOK /\ ConnOK /\ StrandOK /\ CallGateOK
    /\ BodyOK /\ WireOK
  BY DEF TypeOK
<1> USE Frame, Literals, GateType, CompleteCallType, StrandType DEF TypeOK
<1>1. CASE UnaryCallRaw
  BY <1>1 DEF UnaryCallRaw, CallerOK, StrandOK
<1>2. ASSUME NEW c \in Cancellers, Cancel(c) PROVE TypeOK'
  <2>1. CASE CancelStore(c) BY <2>1 DEF CancelStore, ControlOK
  <2>2. CASE CancelCopy(c) BY <2>2 DEF CancelCopy, ControlOK
  <2>3. CASE CancelInvoke(c) BY <2>3 DEF CancelInvoke, ControlOK, StrandOK
  <2>4. CASE CancelGate(c) BY <2>4 DEF CancelGate, ControlOK, Actors
  <2> QED BY <1>2, <2>1, <2>2, <2>3, <2>4 DEF Cancel
<1>3. CASE ClearAndPost
  <2>1. ControlOK'
    BY <1>3, Zenon DEF ClearAndPost, ControlOK
  <2>2. GateOK'
    BY <1>3 DEF ClearAndPost, GateOK
  <2>3. result \in Status
    BY <1>3 DEF ClearAndPost, GateOK, ResultChosen
  <2>4. CallerOK'
    BY <1>3, <2>3 DEF ClearAndPost, CallerOK
  <2> QED BY <1>3, <2>1, <2>2, <2>4 DEF ClearAndPost
<1>4. CASE Resume
  BY <1>4 DEF Resume, Reported, CallerOK
<1>5. CASE RunPosted
  <2>1. Head(ioc) \in Status /\ Tail(ioc) \in Seq(Status)
    BY <1>5 DEF RunPosted, CallGateOK
  <2> QED BY <1>5, <2>1 DEF RunPosted, CallGateOK, Actors
<1>6. CASE TimerExpires
  BY <1>6 DEF TimerExpires, StrandOK, CallGateOK
<1>7. CASE SubmitCall
  <2>1. CASE StartSubmit BY <2>1 DEF StartSubmit, StrandOK
  <2>2. CASE SubmitCheck BY <2>2 DEF SubmitCheck, StrandOK, Actors
  <2>3. CASE SubmitRefused BY <2>3 DEF SubmitRefused, ShutdownStatus, StrandOK, Actors
  <2>4. CASE SubmitQueued BY <2>4 DEF SubmitQueued, StrandOK, ConnOK
  <2>5. CASE SubmitMisconfigured BY <2>5 DEF SubmitMisconfigured, StrandOK, ConnOK, Actors
  <2>6. CASE SubmitFails BY <2>6 DEF SubmitFails, StrandOK
  <2>7. CASE SubmitOpens BY <2>7 DEF SubmitOpens, StrandOK, ConnOK, WireOK, Alive
  <2>8. CASE SetCancelStream BY <2>8 DEF SetCancelStream, StrandOK, ControlOK
  <2>9. CASE CancelNow
    BY <2>9 DEF CancelNow, ResetAndCancel, StrandOK, WireOK, gateOfCall, CallGateOK
  <2>10. CASE ArmTimer BY <2>10 DEF ArmTimer, StrandOK, CallGateOK
  <2> QED BY <1>7, <2>1, <2>2, <2>3, <2>4, <2>5, <2>6, <2>7, <2>8, <2>9,
             <2>10 DEF SubmitCall
<1>8. CASE RunTask
  <2>1. CASE RunDeadline BY <2>1 DEF RunDeadline, StrandOK
  <2>2. CASE RunCancel BY <2>2 DEF RunCancel, ResetAndCancel, StrandOK, WireOK
  <2>3. CASE RunClose BY <2>3 DEF RunClose, StrandOK, ConnOK
  <2>4. ASSUME NEW k \in Chunk, RunData(k) PROVE TypeOK'
    BY <2>4 DEF RunData, Feed, StrandOK, BodyOK, Chunk
  <2>5. ASSUME NEW s \in {"trailersOK", "trailersApp"}, RunTrailers(s)
        PROVE TypeOK'
    BY <2>5 DEF RunTrailers, StrandOK, BodyOK
  <2> QED BY <1>8, <2>1, <2>2, <2>3, <2>4, <2>5 DEF RunTask
<1>9. CASE ChannelEvent
  <2>1. CASE Connected BY <2>1 DEF Connected, StrandOK, ConnOK
  <2>2. CASE ConnectFails BY <2>2 DEF ConnectFails, ConnOK, Actors
  <2>3. CASE Goaway BY <2>3 DEF Goaway, ConnOK, gateOfCall, CallGateOK
  <2>4. CASE DoShutdown BY <2>4 DEF DoShutdown, ConnOK, Actors
  <2> QED BY <1>9, <2>1, <2>2, <2>3, <2>4 DEF ChannelEvent
<1>10. CASE Peer
  <2>1. CASE AttachRejects BY <2>1 DEF AttachRejects, WireOK, Alive
  <2>2. CASE Attach BY <2>2 DEF Attach, WireOK, BodyOK, Alive
  <2>3. CASE StreamCloses BY <2>3 DEF StreamCloses, StrandOK, WireOK
  <2>4. ASSUME NEW k \in Chunk, PeerData(k) PROVE TypeOK'
    BY <2>4, MaxDataAssumption DEF PeerData, StrandOK, WireOK
  <2>5. ASSUME NEW s \in {"OK", "APP"}, PeerTrailers(s) PROVE TypeOK'
    BY <2>5 DEF PeerTrailers, StrandOK, WireOK
  <2> QED BY <1>10, <2>1, <2>2, <2>3, <2>4, <2>5 DEF Peer
<1>11. CASE UNCHANGED vars
  BY <1>11 DEF vars
<1> QED
  BY <1>1, <1>2, <1>3, <1>4, <1>5, <1>6, <1>7, <1>8, <1>9, <1>10, <1>11
     DEF Next

(* What any step does to the gate and to the results on their way: it      *)
(* posts the chosen result, resumes the coroutine, tries the gate, or      *)
(* leaves both alone.                                                      *)
GateStep ==
    \/ ClearAndPost
    \/ Resume
    \/ /\ UNCHANGED <<inbox, resumed>>
       /\ \/ UNCHANGED gateVars
          \/ \E a \in Actors, s \in Status : Gate(a, s)

LEMMA StepIsGateStep == TypeOK /\ [Next]_vars => GateStep
<1> SUFFICES ASSUME TypeOK, [Next]_vars PROVE GateStep
  OBVIOUS
<1> USE Literals DEF callerVars
<1>1. ASSUME NEW c \in Cancellers, Cancel(c) PROVE GateStep
  BY <1>1 DEF GateStep, Cancel, CancelStore, CancelCopy, CancelInvoke,
     CancelGate, Actors
<1>2. RunPosted => GateStep
  <2>1. RunPosted => Head(ioc) \in Status
    BY DEF RunPosted, TypeOK, CallGateOK
  <2> QED BY <2>1 DEF GateStep, RunPosted, Actors
<1>3. SubmitCall => GateStep
  BY DEF GateStep, SubmitCall, StartSubmit, SubmitCheck, SubmitRefused,
     ShutdownStatus, SubmitQueued, SubmitMisconfigured, SubmitFails,
     SubmitOpens, SetCancelStream, CancelNow, ArmTimer, Actors
<1>4. ChannelEvent => GateStep
  BY DEF GateStep, ChannelEvent, Connected, ConnectFails, Goaway, DoShutdown,
     Actors
<1>5. RunTask \/ Peer \/ UnaryCallRaw \/ TimerExpires => GateStep
  BY DEF GateStep, RunTask, RunDeadline, RunCancel, RunClose, RunData,
     RunTrailers, Peer, AttachRejects, Attach, StreamCloses, PeerData,
     PeerTrailers, UnaryCallRaw, TimerExpires
<1>6. UNCHANGED vars => GateStep
  BY DEF GateStep, vars
<1> QED
  BY <1>1, <1>2, <1>3, <1>4, <1>5, <1>6 DEF Next, GateStep

(* Only Gate writes the result, and it writes it together with the gate.   *)
LEMMA ResultStep == ResultChosen /\ GateStep => ResultChosen'
<1>1. ResultChosen /\ UNCHANGED gateVars => ResultChosen'
  BY DEF ResultChosen, gateVars
<1>2. ResultChosen /\ (\E a \in Actors, s \in Status : Gate(a, s)) => ResultChosen'
  BY Literals DEF ResultChosen, Gate, gateVars
<1>3. ResultChosen /\ ClearAndPost => ResultChosen'
  BY DEF ClearAndPost, ResultChosen
<1>4. ResultChosen /\ Resume => ResultChosen'
  BY <1>1 DEF Resume
<1> QED BY <1>1, <1>2, <1>3, <1>4 DEF GateStep

(* UnaryCall stays within its types; in particular every posted result is  *)
(* a status that was chosen at the gate.                                   *)
THEOREM TypeCorrect == Safety => [](TypeOK /\ ResultChosen)
<1>1. Init => TypeOK
  <2> SUFFICES ASSUME Init PROVE TypeOK
    OBVIOUS
  <2>1. \A v \in {cancelled, cancelStream, completed, initiated, terminal,
                  pending, active, callDone, trailersDone, rst} : v \in BOOLEAN
    BY Zenon DEF Init
  <2>2. /\ inbox \in Seq(Status) /\ resumed \in Seq(Status)
        /\ strand \in Seq(Task) /\ ioc \in Seq(Status)
    BY DEF Init
  <2>3. ControlOK /\ GateOK /\ CallerOK
    BY <2>1, <2>2, Zenon DEF Init, ControlOK, GateOK, CallerOK
  <2>4. ConnOK /\ StrandOK /\ CallGateOK
    BY <2>1, <2>2, Zenon DEF Init, ConnOK, StrandOK, CallGateOK, ConnState
  <2>5. nData \in 0..MaxData
    BY MaxDataAssumption DEF Init
  <2>6. BodyOK /\ WireOK
    BY <2>1, <2>5, Zenon DEF Init, BodyOK, WireOK
  <2> QED BY <2>3, <2>4, <2>6 DEF TypeOK
<1>2. Init => ResultChosen
  BY DEF Init, ResultChosen
<1> QED
  BY <1>1, <1>2, TypeStep, StepIsGateStep, ResultStep, PTL DEF Safety

-----------------------------------------------------------------------------
(* The completion gate                                                      *)

(* ExactlyOnce is preserved: the gate admits one result while nothing is   *)
(* on its way, and the later steps only move that result.                  *)
LEMMA OnceStep ==
    TypeOK /\ TypeOK' /\ ResultChosen /\ ExactlyOnce /\ GateStep => ExactlyOnce'
<1> SUFFICES ASSUME TypeOK, TypeOK', ResultChosen, ExactlyOnce, GateStep
             PROVE  ExactlyOnce'
  OBVIOUS
<1>1. /\ inbox \in Seq(Status) /\ resumed \in Seq(Status)
      /\ Len(inbox) \in Nat /\ Len(resumed) \in Nat
  BY DEF TypeOK, CallerOK
<1>2. CASE ClearAndPost
  <2>1. completed /\ completed' = completed
    BY <1>2 DEF ClearAndPost, ResultChosen
  <2>2. result \in Status
    BY <1>2 DEF ClearAndPost, ResultChosen, TypeOK, GateOK
  <2>3. Len(inbox') = Len(inbox) + 1
    BY <1>1, <1>2, <2>2 DEF ClearAndPost
  <2>4. clearer # "none" /\ clearer' = "none" /\ resumed' = resumed
    BY <1>2 DEF ClearAndPost
  <2> QED BY <1>1, <2>1, <2>3, <2>4 DEF ExactlyOnce, InTransit
<1>3. CASE Resume
  <2>1. Len(inbox') = Len(inbox) - 1
    BY <1>1, <1>3 DEF Resume
  <2>2. Len(resumed') = Len(resumed) + 1
    <3>1. PICK r \in Status : resumed' = Append(resumed, r)
      BY <1>1, <1>3, Literals DEF Resume, Reported
    <3> QED BY <1>1, <3>1
  <2>3. UNCHANGED <<completed, clearer>>
    BY <1>3 DEF Resume, gateVars
  <2>4. InTransit' = InTransit
    <3> DEFINE clearing == IF clearer # "none" THEN 1 ELSE 0
    <3>1. clearing \in Nat /\ clearing' = clearing
      BY <2>3
    <3>2. /\ InTransit = clearing + Len(inbox) + Len(resumed)
          /\ InTransit' = clearing' + Len(inbox') + Len(resumed')
      BY DEF InTransit
    <3> HIDE DEF clearing
    <3> QED BY <1>1, <2>1, <2>2, <3>1, <3>2
  <2> QED BY <2>3, <2>4, Zenon DEF ExactlyOnce
<1>4. CASE UNCHANGED <<inbox, resumed>> /\ UNCHANGED gateVars
  BY <1>4 DEF ExactlyOnce, InTransit, gateVars
<1>5. ASSUME UNCHANGED <<inbox, resumed>>,
             NEW a \in Actors, NEW s \in Status, Gate(a, s)
      PROVE  ExactlyOnce'
  <2>1. CASE completed
    BY <1>5, <2>1 DEF Gate, ExactlyOnce, InTransit, gateVars
  <2>2. CASE ~completed
    <3>1. clearer = "none" /\ Len(inbox) = 0 /\ Len(resumed) = 0
      BY <1>1, <2>2 DEF ExactlyOnce, InTransit
    <3>2. completed' /\ clearer' # "none"
      BY <1>5, <2>2, CancellersAssumption DEF Gate, Actors
    <3> QED BY <1>5, <3>1, <3>2 DEF ExactlyOnce, InTransit
  <2> QED BY <2>1, <2>2
<1> QED BY <1>2, <1>3, <1>4, <1>5 DEF GateStep

(* A result that has passed the gate is never lost and never doubled.      *)
THEOREM CompletesOnce == Safety => []ExactlyOnce
<1>1. Init => ExactlyOnce
  BY DEF Init, ExactlyOnce, InTransit
<1> QED
  BY <1>1, TypeCorrect, StepIsGateStep, OnceStep, PTL DEF Safety

(* Cancellation that is recorded before a submission's check of            *)
(* cancelled() keeps the call off the wire for ever.                       *)
THEOREM CancelledCallStaysOffTheWire == Safety => NoStreamAfterCancel
<1>1. [Next]_vars => (CancelledUnsent => CancelledUnsent')
  <2> SUFFICES ASSUME [Next]_vars, CancelledUnsent PROVE CancelledUnsent'
    OBVIOUS
  <2> USE DEF CancelledUnsent, controlVars, wireVars, strandVars, Alive
  <2>1. ASSUME NEW c \in Cancellers, Cancel(c) PROVE CancelledUnsent'
    BY <2>1 DEF Cancel, CancelStore, CancelCopy, CancelInvoke, CancelGate
  <2>2. SubmitCall => CancelledUnsent'
    BY DEF SubmitCall, StartSubmit, StartTask, SubmitCheck, SubmitRefused,
       SubmitQueued, SubmitMisconfigured, SubmitFails, SubmitOpens,
       SetCancelStream, CancelNow, ArmTimer
  <2>3. ChannelEvent => CancelledUnsent'
    BY DEF ChannelEvent, Connected, ConnectFails, Goaway, DoShutdown
  <2>4. RunTask => CancelledUnsent'
    BY DEF RunTask, RunDeadline, RunCancel, ResetAndCancel, RunClose, RunData,
       RunTrailers
  <2>5. Peer => CancelledUnsent'
    BY DEF Peer, AttachRejects, Attach, StreamCloses, PeerData, PeerTrailers
  <2>6. UnaryCallRaw \/ ClearAndPost \/ Resume \/ RunPosted \/ TimerExpires
        => CancelledUnsent'
    BY DEF UnaryCallRaw, ClearAndPost, Resume, RunPosted, TimerExpires
  <2>7. UNCHANGED vars => CancelledUnsent'
    BY DEF vars
  <2> QED BY <2>1, <2>2, <2>3, <2>4, <2>5, <2>6, <2>7 DEF Next
<1> QED
  BY <1>1, PTL DEF Safety, NoStreamAfterCancel
-----------------------------------------------------------------------------
(* Refinement of the one-shot call                                          *)

(* What is posted to the coroutine's executor is the recorded result.      *)
InboxIsResult == \A i \in 1..Len(inbox) : inbox[i] = result

LEMMA InboxStep ==
    TypeOK /\ ResultChosen /\ ExactlyOnce /\ InboxIsResult /\ GateStep
    => InboxIsResult'
<1> SUFFICES ASSUME TypeOK, ResultChosen, ExactlyOnce, InboxIsResult, GateStep
             PROVE  InboxIsResult'
  OBVIOUS
<1>1. /\ inbox \in Seq(Status) /\ resumed \in Seq(Status)
      /\ Len(inbox) \in Nat /\ Len(resumed) \in Nat
  BY DEF TypeOK, CallerOK
<1>2. CASE ClearAndPost
  <2>1. result \in Status
    BY <1>2 DEF ClearAndPost, ResultChosen, TypeOK, GateOK
  <2> QED BY <1>1, <1>2, <2>1 DEF ClearAndPost, InboxIsResult
<1>3. CASE Resume
  BY <1>1, <1>3 DEF Resume, InboxIsResult, gateVars
<1>4. CASE UNCHANGED <<inbox, resumed>> /\ UNCHANGED gateVars
  BY <1>4 DEF InboxIsResult, gateVars
<1>5. ASSUME UNCHANGED <<inbox, resumed>>,
             NEW a \in Actors, NEW s \in Status, Gate(a, s)
      PROVE  InboxIsResult'
  <2>1. CASE completed
    BY <1>5, <2>1 DEF Gate, InboxIsResult, gateVars
  <2>2. CASE ~completed
    <3>1. Len(inbox) = 0
      BY <1>1, <2>2 DEF ExactlyOnce, InTransit
    <3> QED BY <1>5, <3>1 DEF InboxIsResult
  <2> QED BY <2>1, <2>2
<1> QED BY <1>2, <1>3, <1>4, <1>5 DEF GateStep

(* Passing the gate is Resolve, resuming the coroutine is Deliver, and     *)
(* everything else is invisible to the one-shot call.                      *)
LEMMA StepSimulation ==
    TypeOK /\ ResultChosen /\ ExactlyOnce /\ InboxIsResult /\ GateStep
    => [OneShot!Next]_(OneShot!oneShotVars)
<1> SUFFICES ASSUME TypeOK, ResultChosen, ExactlyOnce, InboxIsResult, GateStep
             PROVE  OneShot!Next \/ UNCHANGED <<result, resumed>>
  BY DEF OneShot!oneShotVars
<1>1. /\ inbox \in Seq(Status) /\ resumed \in Seq(Status)
      /\ Len(inbox) \in Nat /\ Len(resumed) \in Nat
  BY DEF TypeOK, CallerOK
<1>2. CASE ClearAndPost
  BY <1>2 DEF ClearAndPost
<1>3. CASE Resume
  <2>1. Len(inbox) > 0 /\ inbox[1] = result /\ Head(inbox) = result
    BY <1>1, <1>3 DEF Resume, InboxIsResult
  <2>2. completed /\ Len(resumed) = 0
    BY <1>1, <2>1 DEF ExactlyOnce, InTransit
  <2>3. result # "none" /\ resumed = <<>>
    BY <1>1, <2>2 DEF ResultChosen
  <2>4. PICK r \in Reported(result) : resumed' = Append(resumed, r)
    BY <1>3, <2>1 DEF Resume
  <2>5. resumed' = <<r>>
    BY <2>3, <2>4
  <2> QED BY <1>3, <2>3, <2>5 DEF Resume, gateVars, OneShot!Next, OneShot!Deliver
<1>4. CASE UNCHANGED <<inbox, resumed>> /\ UNCHANGED gateVars
  BY <1>4 DEF gateVars
<1>5. ASSUME UNCHANGED <<inbox, resumed>>,
             NEW a \in Actors, NEW s \in Status, Gate(a, s)
      PROVE  OneShot!Next \/ UNCHANGED <<result, resumed>>
  BY <1>5 DEF Gate, gateVars, ResultChosen, OneShot!Next, OneShot!Resolve
<1> QED BY <1>2, <1>3, <1>4, <1>5 DEF GateStep

(* The unary call, with all its races, implements the one-shot call: the   *)
(* status recorded at the gate is never revised, and the coroutine is      *)
(* resumed once, with a result made of that status.                        *)
THEOREM RefinesOneShot == Safety => ImplementsOneShot
<1>1. Init => OneShot!Init /\ InboxIsResult
  BY DEF Init, OneShot!Init, InboxIsResult
<1> QED
  BY <1>1, TypeCorrect, CompletesOnce, StepIsGateStep, InboxStep,
     StepSimulation, PTL DEF Safety, ImplementsOneShot, OneShot!Spec
-----------------------------------------------------------------------------
(* An unresolved call is always in somebody's hands                         *)

(* The tasks that wait for the strand.                                     *)
Tasks == {strand[i] : i \in 1..Len(strand)}

(* Before the stream is opened nothing can have been posted for the call   *)
(* but its submission, which is in one place: on its way to the strand, in *)
(* the strand's hands, or in pending_calls_.                               *)
Unopened ==
    stream = "none" =>
        /\ timer = "off" /\ ~cancelStream /\ ~active /\ peerStatus = "none"
        /\ \A c \in Cancellers : cpc[c] # "invoke"
        /\ strand \in {<<>>, <<"submit">>} /\ spc \in {"free", "check", "state"}
        /\ strand # <<>> => initiated /\ spc = "free" /\ ~pending /\ ~callDone
        /\ spc # "free" => initiated /\ ~pending /\ ~callDone
        /\ pending => initiated /\ ~callDone
        /\ ~initiated => ~callDone

(* The submission is over once the stream is open.                         *)
Opened ==
    stream # "none" =>
        initiated /\ ~pending /\ spc \notin {"check", "state"} /\ "submit" \notin Tasks

(* The disjuncts of NeverOrphaned, without the steps of the submission     *)
(* after the stream is open: they promise nothing.                         *)
Held ==
    \/ stream = "none" /\ (strand # <<>> \/ spc # "free")
    \/ pending /\ conn = "kConnecting"
    \/ ioc # <<>>
    \/ stream # "none" /\ ~callDone /\ (stream \in Alive \/ "close" \in Tasks)

OwnerInv ==
    /\ Unopened /\ Opened
    /\ trailersDone => callDone
    /\ initiated /\ ~completed => Held

(* Posting adds a task; starting one takes at most that task away.         *)
LEMMA PostTasks ==
    ASSUME StrandOK, NEW t \in Task, strand' = Append(strand, t)
    PROVE  Tasks' = Tasks \cup {t} /\ strand' # <<>>
<1>1. /\ strand \in Seq(Task) /\ Len(strand) \in Nat /\ Len(strand') = Len(strand) + 1
      /\ \A i \in 1..Len(strand) : strand'[i] = strand[i]
      /\ strand'[Len(strand) + 1] = t
  BY DEF StrandOK
<1>2. Tasks' \subseteq Tasks \cup {t}
  <2> SUFFICES ASSUME NEW i \in 1..Len(strand') PROVE strand'[i] \in Tasks \cup {t}
    BY DEF Tasks
  <2>1. i \in 1..Len(strand) \/ i = Len(strand) + 1
    BY <1>1
  <2> QED BY <1>1, <2>1 DEF Tasks
<1>3. Tasks \cup {t} \subseteq Tasks'
  <2>1. \A i \in 1..Len(strand) : i \in 1..Len(strand')
    BY <1>1
  <2>2. Len(strand) + 1 \in 1..Len(strand')
    BY <1>1
  <2> QED BY <1>1, <2>1, <2>2 DEF Tasks
<1> QED BY <1>1, <1>2, <1>3

LEMMA StartTasks ==
    ASSUME StrandOK, NEW t, StartTask(t)
    PROVE  t \in Tasks /\ Tasks' \subseteq Tasks /\ Tasks \subseteq Tasks' \cup {t}
<1>1. /\ strand \in Seq(Task) /\ Len(strand) \in Nat /\ Len(strand) > 0 /\ strand[1] = t
      /\ Len(strand') = Len(strand) - 1
      /\ \A i \in 1..Len(strand') : strand'[i] = strand[i + 1]
  BY DEF StrandOK, StartTask
<1>2. t \in Tasks
  <2>1. 1 \in 1..Len(strand)
    BY <1>1
  <2> QED BY <1>1, <2>1 DEF Tasks
<1>3. Tasks' \subseteq Tasks
  <2> SUFFICES ASSUME NEW i \in 1..Len(strand') PROVE strand'[i] \in Tasks
    BY DEF Tasks
  <2>1. i + 1 \in 1..Len(strand) /\ strand'[i] = strand[i + 1]
    BY <1>1
  <2> QED BY <2>1 DEF Tasks
<1>4. Tasks \subseteq Tasks' \cup {t}
  <2> SUFFICES ASSUME NEW i \in 1..Len(strand), strand[i] # t PROVE strand[i] \in Tasks'
    BY DEF Tasks
  <2>1. i - 1 \in 1..Len(strand') /\ strand'[i - 1] = strand[i]
    BY <1>1
  <2> QED BY <2>1 DEF Tasks
<1> QED BY <1>2, <1>3, <1>4

(* A call state that completes hands its result to the pool.               *)
LEMMA CompleteCallHolds ==
    ASSUME CallGateOK, NEW s \in Status, CompleteCall(s)
    PROVE  /\ callDone' /\ (timer = "off" => timer' = "off")
           /\ callDone => UNCHANGED ioc
           /\ ~callDone => ioc' # <<>>
<1>1. ioc \in Seq(Status)
  BY DEF CallGateOK
<1>2. CASE callDone
  BY <1>2 DEF CompleteCall, gateOfCall
<1>3. CASE ~callDone
  <2>1. ioc' = Append(ioc, s) /\ Append(ioc, s) # <<>>
    BY <1>1, <1>3 DEF CompleteCall
  <2> QED BY <1>3, <2>1 DEF CompleteCall
<1> QED BY <1>2, <1>3

(* The strand of a call without a stream holds its submission or nothing,  *)
(* so any other task finds the stream opened.                              *)
LEMMA TaskFindsStream ==
    ASSUME Unopened, NEW t, StartTask(t), t # "submit"
    PROVE  stream # "none"
BY DEF Unopened, StartTask

(* A task of an open stream that completes the call state, or leaves it to *)
(* whoever held the call, except the close itself.                         *)
LEMMA TaskKeepsOwner ==
    ASSUME TypeOK, OwnerInv, NEW t, t \notin {"submit", "close"}, StartTask(t),
           UNCHANGED <<cancelled, cancelStream, cpc, gateVars, initiated, conn, terminal, pending,
                       spc, stream, peerStatus>>,
           trailersDone' => callDone',
           (callDone' = callDone /\ ioc' = ioc) \/ (callDone' /\ (callDone => ioc' = ioc)
                                                            /\ (~callDone => ioc' # <<>>))
    PROVE  OwnerInv'
<1>1. stream # "none"
  BY TaskFindsStream DEF OwnerInv
<1>2. Tasks' \subseteq Tasks /\ Tasks \subseteq Tasks' \cup {t}
  BY StartTasks DEF TypeOK
<1> QED
  BY <1>1, <1>2 DEF OwnerInv, Unopened, Opened, Held, gateVars

LEMMA OwnerStep == TypeOK /\ ResultChosen /\ OwnerInv /\ [Next]_vars => OwnerInv'
<1> SUFFICES ASSUME TypeOK, ResultChosen, OwnerInv, [Next]_vars PROVE OwnerInv'
  OBVIOUS
<1> USE Literals DEF controlVars, gateVars, callerVars, connVars, strandVars, gateOfCall,
                     bodyVars, wireVars
<1> StrandOK /\ CallGateOK /\ ControlOK
  BY DEF TypeOK
<1>1. CASE UnaryCallRaw
  <2>1. stream = "none" /\ strand = <<>>
    BY <1>1 DEF UnaryCallRaw, OwnerInv, Unopened, Opened
  <2>2. Append(<<>>, "submit") = <<"submit">> /\ <<"submit">> # <<>>
    OBVIOUS
  <2>3. strand' = <<"submit">>
    BY <1>1, <2>1, <2>2 DEF UnaryCallRaw
  <2>4. Unopened' /\ Held'
    BY <1>1, <2>1, <2>2, <2>3 DEF UnaryCallRaw, OwnerInv, Unopened, Held
  <2> QED BY <1>1, <2>1, <2>4 DEF UnaryCallRaw, OwnerInv, Opened
<1>2. ASSUME NEW c \in Cancellers, Cancel(c) PROVE OwnerInv'
  <2>1. CASE CancelStore(c) \/ CancelCopy(c)
    <3>1. Tasks' = Tasks
      BY <2>1 DEF CancelStore, CancelCopy, Tasks
    <3> QED BY <2>1, <3>1 DEF CancelStore, CancelCopy, OwnerInv, Unopened, Opened, Held, ControlOK
  <2>2. CASE CancelInvoke(c)
    <3>1. Tasks' = Tasks \cup {"cancel"}
      BY <2>2, PostTasks DEF CancelInvoke
    <3>2. stream # "none"
      BY <2>2 DEF CancelInvoke, OwnerInv, Unopened
    <3> QED BY <2>2, <3>1, <3>2 DEF CancelInvoke, OwnerInv, Unopened, Opened, Held
  <2>3. CASE CancelGate(c)
    <3>1. Tasks' = Tasks
      BY <2>3 DEF CancelGate, Tasks
    <3> QED
      BY <2>3, <3>1 DEF CancelGate, Gate, OwnerInv, Unopened, Opened, Held, ControlOK
  <2> QED BY <1>2, <2>1, <2>2, <2>3 DEF Cancel
<1>3. CASE ClearAndPost \/ Resume
  <2>1. Tasks' = Tasks
    BY <1>3 DEF ClearAndPost, Resume, Tasks
  <2> QED BY <1>3, <2>1 DEF ClearAndPost, Resume, OwnerInv, Unopened, Opened, Held
<1>4. CASE RunPosted
  <2>1. Tasks' = Tasks /\ completed'
    BY <1>4 DEF RunPosted, Gate, Tasks
  <2> QED BY <1>4, <2>1 DEF RunPosted, OwnerInv, Unopened, Opened
<1>5. CASE TimerExpires
  <2>1. Tasks' = Tasks \cup {"deadline"} /\ stream # "none"
    BY <1>5, PostTasks DEF TimerExpires, OwnerInv, Unopened
  <2> QED BY <1>5, <2>1 DEF TimerExpires, OwnerInv, Unopened, Opened, Held
<1>6. CASE SubmitCall
  <2>1. CASE StartSubmit
    <3>1. "submit" \in Tasks /\ strand # <<>>
      BY <2>1, StartTasks DEF StartSubmit, StartTask
    <3>2. strand = <<"submit">> /\ stream = "none"
      BY <3>1 DEF OwnerInv, Unopened, Opened
    <3>3. strand' = <<>>
      BY <2>1, <3>2 DEF StartSubmit, StartTask
    <3> QED BY <2>1, <3>2, <3>3 DEF StartSubmit, OwnerInv, Unopened, Opened, Held
  <2>2. CASE SubmitCheck
    BY <2>2 DEF SubmitCheck, Gate, OwnerInv, Unopened, Opened, Held
  <2>3. CASE SubmitRefused
    BY <2>3 DEF SubmitRefused, Gate, OwnerInv, Unopened, Opened, Held
  <2>4. CASE SubmitQueued
    BY <2>4 DEF SubmitQueued, OwnerInv, Unopened, Opened, Held
  <2>5. CASE SubmitMisconfigured
    BY <2>5 DEF SubmitMisconfigured, Gate, OwnerInv, Unopened, Opened, Held
  <2>6. CASE SubmitFails
    <3>1. stream = "none" /\ ~callDone
      BY <2>6 DEF SubmitFails, OwnerInv, Unopened, Opened
    <3>2. ioc' # <<>> /\ callDone' /\ (timer = "off" => timer' = "off")
      BY <2>6, <3>1, CompleteCallHolds DEF SubmitFails
    <3> QED BY <2>6, <3>1, <3>2 DEF SubmitFails, OwnerInv, Unopened, Opened, Held
  <2>7. CASE SubmitOpens
    <3>1. stream = "none" /\ strand = <<>> /\ ~callDone
      BY <2>7 DEF SubmitOpens, OwnerInv, Unopened, Opened
    <3>2. Tasks' = {}
      BY <2>7, <3>1 DEF SubmitOpens, Tasks
    <3> QED BY <2>7, <3>1, <3>2 DEF SubmitOpens, OwnerInv, Unopened, Opened, Held, Alive
  <2>8. CASE SetCancelStream \/ ArmTimer
    <3>1. stream # "none" /\ Tasks' = Tasks
      BY <2>8 DEF SetCancelStream, ArmTimer, OwnerInv, Unopened, Tasks
    <3>2. /\ UNCHANGED <<stream, initiated, pending, conn, ioc, callDone, trailersDone, completed>>
          /\ spc' \notin {"check", "state"}
      BY <2>8 DEF SetCancelStream, ArmTimer
    <3> QED BY <3>1, <3>2 DEF OwnerInv, Unopened, Opened, Held
  <2>9. CASE CancelNow
    <3>1. stream # "none" /\ Tasks' = Tasks
      BY <2>9 DEF CancelNow, OwnerInv, Unopened, Tasks
    <3>2. (callDone' = callDone /\ ioc' = ioc) \/ (callDone' /\ (callDone => ioc' = ioc)
                                                        /\ (~callDone => ioc' # <<>>))
      BY <2>9, CompleteCallHolds DEF CancelNow, ResetAndCancel
    <3> QED BY <2>9, <3>1, <3>2 DEF CancelNow, OwnerInv, Unopened, Opened, Held
  <2> QED BY <1>6, <2>1, <2>2, <2>3, <2>4, <2>5, <2>6, <2>7, <2>8, <2>9 DEF SubmitCall
<1>7. CASE RunTask
  <2>1. CASE RunDeadline
    BY <2>1, TaskKeepsOwner, CompleteCallHolds DEF RunDeadline, OwnerInv
  <2>2. CASE RunCancel
    BY <2>2, TaskKeepsOwner, CompleteCallHolds DEF RunCancel, ResetAndCancel, OwnerInv
  <2>3. CASE RunClose
    <3>1. stream # "none" /\ Tasks' \subseteq Tasks
      BY <2>3, TaskFindsStream, StartTasks DEF RunClose, OwnerInv
    <3>2. callDone' /\ (callDone => ioc' = ioc) /\ (~callDone => ioc' # <<>>)
      BY <2>3, CompleteCallHolds DEF RunClose, OwnerInv
    <3> QED BY <2>3, <3>1, <3>2 DEF RunClose, OwnerInv, Unopened, Opened, Held
  <2>4. ASSUME NEW k \in Chunk, RunData(k) PROVE OwnerInv'
    <3>1. k \notin {"submit", "close"}
      BY DEF Chunk
    <3>2. (callDone' = callDone /\ ioc' = ioc) \/ (callDone' /\ (callDone => ioc' = ioc)
                                                        /\ (~callDone => ioc' # <<>>))
      BY <2>4, CompleteCallHolds DEF RunData
    <3> QED BY <2>4, <3>1, <3>2, TaskKeepsOwner DEF RunData, OwnerInv
  <2>5. ASSUME NEW s \in {"trailersOK", "trailersApp"}, RunTrailers(s) PROVE OwnerInv'
    <3>1. callDone' /\ (callDone => ioc' = ioc) /\ (~callDone => ioc' # <<>>)
      BY <2>5, CompleteCallHolds DEF RunTrailers
    <3> QED BY <2>5, <3>1, TaskKeepsOwner DEF RunTrailers, OwnerInv
  <2> QED BY <1>7, <2>1, <2>2, <2>3, <2>4, <2>5 DEF RunTask
<1>8. CASE ChannelEvent
  <2>1. Tasks' = Tasks
    BY <1>8 DEF ChannelEvent, Connected, ConnectFails, Goaway, DoShutdown, Tasks
  <2>2. CASE Connected
    BY <2>1, <2>2 DEF Connected, StrandFree, OwnerInv, Unopened, Opened, Held
  <2>3. CASE ConnectFails
    BY <2>1, <2>3 DEF ConnectFails, Gate, OwnerInv, Unopened, Opened, Held
  <2>4. CASE Goaway
    <3>1. CASE UNCHANGED <<active, gateOfCall>>
      BY <2>1, <2>4, <3>1 DEF Goaway, OwnerInv, Unopened, Opened, Held
    <3>2. CASE active /\ CompleteCall("UNAVAILABLE")
      <4>1. stream # "none"
        BY <3>2 DEF OwnerInv, Unopened
      <4> QED BY <2>1, <2>4, <3>2, <4>1, CompleteCallHolds
              DEF Goaway, OwnerInv, Unopened, Opened, Held
    <3> QED BY <2>4, <3>1, <3>2 DEF Goaway
  <2>5. CASE DoShutdown
    <3>1. CASE active
      <4>1. stream # "none" /\ ~pending
        BY <3>1 DEF OwnerInv, Unopened, Opened
      <4>2. callDone' /\ (callDone => ioc' = ioc) /\ (~callDone => ioc' # <<>>)
        BY <2>5, <3>1, CompleteCallHolds DEF DoShutdown
      <4> QED BY <2>1, <2>5, <4>1, <4>2 DEF DoShutdown, OwnerInv, Unopened, Opened, Held
    <3>2. CASE ~active
      BY <2>1, <2>5, <3>2 DEF DoShutdown, Gate, OwnerInv, Unopened, Opened, Held
    <3> QED BY <3>1, <3>2
  <2> QED BY <1>8, <2>2, <2>3, <2>4, <2>5 DEF ChannelEvent
<1>9. CASE Peer
  <2>1. CASE AttachRejects
    <3>1. Tasks' = Tasks
      BY <2>1 DEF AttachRejects, Tasks
    <3>2. callDone' /\ (callDone => ioc' = ioc) /\ (~callDone => ioc' # <<>>)
      BY <2>1, CompleteCallHolds DEF AttachRejects
    <3> QED BY <2>1, <3>1, <3>2 DEF AttachRejects, OwnerInv, Unopened, Opened, Held
  <2>2. CASE Attach
    <3>1. Tasks' = Tasks
      BY <2>2 DEF Attach, Tasks
    <3> QED BY <2>2, <3>1 DEF Attach, OwnerInv, Unopened, Opened, Held, Alive
  <2>3. CASE StreamCloses
    <3>1. Tasks' = Tasks \cup {"close"}
      BY <2>3, PostTasks DEF StreamCloses
    <3> QED BY <2>3, <3>1 DEF StreamCloses, OwnerInv, Unopened, Opened, Held, Alive
  <2>4. ASSUME NEW k \in Chunk, PeerData(k) PROVE OwnerInv'
    <3>1. Tasks' = Tasks \cup {k} /\ k # "submit"
      BY <2>4, PostTasks DEF PeerData, Chunk
    <3> QED BY <2>4, <3>1 DEF PeerData, OwnerInv, Unopened, Opened, Held
  <2>5. ASSUME NEW s \in {"OK", "APP"}, PeerTrailers(s) PROVE OwnerInv'
    <3>1. PICK t \in {"trailersOK", "trailersApp"} : Tasks' = Tasks \cup {t}
      BY <2>5, PostTasks DEF PeerTrailers
    <3> QED BY <2>5, <3>1 DEF PeerTrailers, OwnerInv, Unopened, Opened, Held
  <2> QED BY <1>9, <2>1, <2>2, <2>3, <2>4, <2>5 DEF Peer
<1>10. CASE UNCHANGED vars
  <2>1. Tasks' = Tasks
    BY <1>10 DEF vars, Tasks
  <2> QED BY <1>10, <2>1 DEF vars, OwnerInv, Unopened, Opened, Held
<1> QED
  BY <1>1, <1>2, <1>3, <1>4, <1>5, <1>6, <1>7, <1>8, <1>9, <1>10 DEF Next

(* A call that has been started is resolved or in somebody's hands, so no  *)
(* order of submission, connection, cancellation, GOAWAY, shutdown and     *)
(* peer leaves its coroutine behind.                                       *)
THEOREM NoCallIsOrphaned == Safety => []NeverOrphaned
<1>1. Init => OwnerInv
  BY DEF Init, OwnerInv, Unopened, Opened
<1>2. TypeOK /\ OwnerInv => NeverOrphaned
  <2> SUFFICES ASSUME TypeOK, OwnerInv, initiated, ~completed
               PROVE  \/ SubmitInProgress
                      \/ pending /\ conn = "kConnecting"
                      \/ ioc # <<>>
                      \/ /\ stream # "none" /\ ~callDone
                         /\ stream \in Alive \/ InStrand("close")
    BY DEF NeverOrphaned
  <2>1. CASE stream = "none" /\ strand # <<>>
    <3>1. strand = <<"submit">>
      BY <2>1 DEF OwnerInv, Unopened
    <3> QED BY <3>1 DEF SubmitInProgress
  <2>2. "close" \in Tasks => InStrand("close")
    BY DEF Tasks, InStrand
  <2> QED BY <2>1, <2>2 DEF OwnerInv, Held, SubmitInProgress
<1> QED
  BY <1>1, <1>2, TypeCorrect, OwnerStep, PTL DEF Safety

-----------------------------------------------------------------------------
(* The result says what happened                                            *)

(* The statuses that are honest now.  A whole message stays decoded        *)
(* because a call state that is done ignores DATA.                         *)
Honest ==
    {s \in Status :
        /\ s = "OK" => peerStatus = "OK" /\ dec = "done" /\ callDone
        /\ s = "APP" => peerStatus = "APP"
        /\ s = "CANCELLED" => cancelled \/ conn = "kShutdown"}

(* Whoever is about to report has a reason: a task of trailers was posted  *)
(* with the peer's status, and only a canceller's doing leads to a reset.  *)
ReasonInv ==
    /\ stream \in {"none", "open"} => peerStatus = "none"
    /\ "trailersOK" \in Tasks => peerStatus = "OK"
    /\ "trailersApp" \in Tasks => peerStatus = "APP"
    /\ "cancel" \in Tasks => cancelled
    /\ spc = "cancelNow" => cancelled
    /\ \A c \in Cancellers : cpc[c] # "idle" => cancelled

(* Every status between the call state and the coroutine is honest.        *)
HonestInv ==
    /\ ioc \in Seq(Honest) /\ resumed \in Seq(Honest)
    /\ result # "none" => result \in Honest

LEMMA ReasonStep == TypeOK /\ OwnerInv /\ ReasonInv /\ [Next]_vars => ReasonInv'
<1> SUFFICES ASSUME TypeOK, OwnerInv, ReasonInv, [Next]_vars PROVE ReasonInv'
  OBVIOUS
<1> USE Literals DEF controlVars, gateVars, callerVars, connVars, strandVars, gateOfCall,
                     bodyVars, wireVars
<1> StrandOK /\ ControlOK
  BY DEF TypeOK
<1>1. CASE UnaryCallRaw \/ TimerExpires
  <2>1. PICK t \in {"submit", "deadline"} : Tasks' = Tasks \cup {t}
    BY <1>1, PostTasks DEF UnaryCallRaw, TimerExpires
  <2> QED BY <1>1, <2>1 DEF UnaryCallRaw, TimerExpires, ReasonInv
<1>2. ASSUME NEW c \in Cancellers, Cancel(c) PROVE ReasonInv'
  <2>1. CASE CancelStore(c) \/ CancelCopy(c) \/ CancelGate(c)
    <3>1. Tasks' = Tasks
      BY <2>1 DEF CancelStore, CancelCopy, CancelGate, Tasks
    <3> QED BY <2>1, <3>1 DEF CancelStore, CancelCopy, CancelGate, ReasonInv, ControlOK
  <2>2. CASE CancelInvoke(c)
    <3>1. Tasks' = Tasks \cup {"cancel"}
      BY <2>2, PostTasks DEF CancelInvoke
    <3> QED BY <2>2, <3>1 DEF CancelInvoke, ReasonInv, ControlOK
  <2> QED BY <1>2, <2>1, <2>2 DEF Cancel
<1>3. CASE UNCHANGED <<stream, peerStatus, cancelled, cpc>> /\ Tasks' \subseteq Tasks
                /\ (spc' = "cancelNow" => cancelled)
  BY <1>3 DEF ReasonInv
<1>4. UNCHANGED strand => Tasks' = Tasks
  BY DEF Tasks
<1>5. ClearAndPost \/ Resume \/ RunPosted \/ ChannelEvent \/ UNCHANGED vars => ReasonInv'
  BY <1>3, <1>4 DEF ClearAndPost, Resume, RunPosted, ChannelEvent, Connected, ConnectFails,
                    Goaway, DoShutdown, vars, ReasonInv
<1>6. CASE SubmitCall
  <2>1. CASE StartSubmit
    BY <1>3, <2>1, StartTasks DEF StartSubmit
  <2>2. CASE SubmitOpens
    BY <1>4, <2>2 DEF SubmitOpens, ReasonInv, OwnerInv, Opened
  <2>3. CASE SubmitCheck \/ SubmitRefused \/ SubmitQueued \/ SubmitMisconfigured \/ SubmitFails
    BY <1>3, <1>4, <2>3 DEF SubmitCheck, SubmitRefused, SubmitQueued, SubmitMisconfigured,
                            SubmitFails
  <2>4. CASE SetCancelStream \/ CancelNow \/ ArmTimer
    BY <1>3, <1>4, <2>4 DEF SetCancelStream, CancelNow, ArmTimer
  <2> QED BY <1>6, <2>1, <2>2, <2>3, <2>4 DEF SubmitCall
<1>7. CASE RunTask
  <2>1. \A t : StartTask(t) => Tasks' \subseteq Tasks
    BY StartTasks
  <2> QED BY <1>3, <1>7, <2>1 DEF RunTask, RunDeadline, RunCancel, RunClose, RunData, RunTrailers,
                                 ReasonInv
<1>8. CASE Peer
  <2>1. CASE AttachRejects \/ Attach
    <3>1. "trailersOK" \notin Tasks /\ "trailersApp" \notin Tasks
      BY <2>1 DEF AttachRejects, Attach, ReasonInv
    <3> QED BY <1>4, <2>1, <3>1 DEF AttachRejects, Attach, ReasonInv
  <2>2. CASE StreamCloses
    <3>1. Tasks' = Tasks \cup {"close"}
      BY <2>2, PostTasks DEF StreamCloses
    <3> QED BY <2>2, <3>1 DEF StreamCloses, ReasonInv
  <2>3. ASSUME NEW k \in Chunk, PeerData(k) PROVE ReasonInv'
    <3>1. Tasks' = Tasks \cup {k} /\ k \notin {"trailersOK", "trailersApp", "cancel"}
      BY <2>3, PostTasks DEF PeerData, Chunk
    <3> QED BY <2>3, <3>1 DEF PeerData, ReasonInv
  <2>4. ASSUME NEW s \in {"OK", "APP"}, PeerTrailers(s) PROVE ReasonInv'
    <3>1. Tasks' = Tasks \cup {IF s = "OK" THEN "trailersOK" ELSE "trailersApp"}
      BY <2>4, PostTasks DEF PeerTrailers
    <3> QED BY <2>4, <3>1 DEF PeerTrailers, ReasonInv
  <2> QED BY <1>8, <2>1, <2>2, <2>3, <2>4 DEF Peer
<1> QED
  BY <1>1, <1>2, <1>5, <1>6, <1>7, <1>8 DEF Next

(* A reason never goes away: the peer's status and the cancellation stay,  *)
(* a shut down channel stays so, and a decoded message is not touched once *)
(* the call state is done.                                                 *)
LEMMA ReasonsStay ==
    TypeOK /\ ReasonInv /\ [Next]_vars =>
        /\ peerStatus # "none" => peerStatus' = peerStatus
        /\ cancelled => cancelled'
        /\ conn = "kShutdown" => conn' = "kShutdown"
        /\ callDone => callDone' /\ dec' = dec
<1> SUFFICES ASSUME TypeOK, ReasonInv, [Next]_vars
             PROVE  /\ peerStatus # "none" => peerStatus' = peerStatus
                    /\ cancelled => cancelled'
                    /\ conn = "kShutdown" => conn' = "kShutdown"
                    /\ callDone => callDone' /\ dec' = dec
  OBVIOUS
<1> USE DEF controlVars, connVars, gateOfCall, bodyVars, wireVars, vars,
        Next, UnaryCallRaw, ClearAndPost, Resume, RunPosted, TimerExpires,
        Cancel, CancelStore, CancelCopy, CancelInvoke, CancelGate,
        SubmitCall, StartSubmit, SubmitCheck, SubmitRefused, SubmitQueued, SubmitMisconfigured,
        SubmitFails, SubmitOpens, SetCancelStream, CancelNow, ArmTimer,
        RunTask, RunDeadline, RunCancel, RunClose, RunData, RunTrailers,
        ChannelEvent, Connected, ConnectFails, Goaway, DoShutdown,
        Peer, AttachRejects, Attach, StreamCloses, PeerData, PeerTrailers
<1>1. peerStatus # "none" => peerStatus' = peerStatus
  BY DEF ReasonInv
<1>2. cancelled => cancelled'
  OBVIOUS
<1>3. conn = "kShutdown" => conn' = "kShutdown"
  OBVIOUS
<1>4. callDone => callDone' /\ dec' = dec
  BY DEF CompleteCall, ResetAndCancel
<1> QED BY <1>1, <1>2, <1>3, <1>4

LEMMA HonestStays ==
    ASSUME TypeOK, ReasonInv, [Next]_vars
    PROVE  Honest \subseteq Honest' /\ \A q \in Seq(Honest) : q \in Seq(Honest')
<1>1. Honest \subseteq Honest'
  BY ReasonsStay DEF Honest
<1>2. \A S, T : S \subseteq T => \A q \in Seq(S) : q \in Seq(T)
  OBVIOUS
<1> QED BY <1>1, <1>2

(* What a step may do to the results posted to the pool: nothing, run one, *)
(* or post one that is honest.                                             *)
PostStep ==
    \/ UNCHANGED ioc
    \/ ioc # <<>> /\ ioc' = Tail(ioc)
    \/ \E s \in Honest' : ioc' = Append(ioc, s)

LEMMA CompleteCallPosts ==
    ASSUME NEW s, CompleteCall(s), ~callDone => s \in Honest'
    PROVE  PostStep
BY DEF CompleteCall, PostStep, gateOfCall

LEMMA StepIsPostStep ==
    TypeOK /\ OwnerInv /\ ReasonInv /\ [Next]_vars => PostStep
<1> SUFFICES ASSUME TypeOK, OwnerInv, ReasonInv, [Next]_vars PROVE PostStep
  OBVIOUS
<1> USE Literals DEF gateOfCall
<1>0. {"OK_NO_RESPONSE", "DEADLINE", "UNAVAILABLE", "NOT_SENT", "BAD_RESPONSE", "NO_TRAILERS"}
         \subseteq Honest'
  BY DEF Honest
<1>1. CASE UNCHANGED ioc
  BY <1>1 DEF PostStep
<1>2. CASE RunPosted
  BY <1>2 DEF RunPosted, PostStep
<1>3. CASE SubmitCall
  <2>1. CASE SubmitFails
    BY <1>0, <2>1, CompleteCallPosts DEF SubmitFails
  <2>2. CASE CancelNow
    <3>1. "CANCELLED" \in Honest'
      BY <2>2 DEF CancelNow, Honest, ReasonInv, controlVars
    <3> QED BY <1>1, <2>2, <3>1, CompleteCallPosts DEF CancelNow, ResetAndCancel
  <2>3. CASE StartSubmit \/ SubmitCheck \/ SubmitRefused \/ SubmitQueued \/ SubmitMisconfigured
               \/ SubmitOpens \/ SetCancelStream \/ ArmTimer
    BY <1>1, <2>3 DEF StartSubmit, SubmitCheck, SubmitRefused, SubmitQueued, SubmitMisconfigured,
                      SubmitOpens, SetCancelStream, ArmTimer
  <2> QED BY <1>3, <2>1, <2>2, <2>3 DEF SubmitCall
<1>4. CASE RunTask
  <2>1. CASE RunDeadline \/ RunClose
    BY <1>0, <1>1, <2>1, CompleteCallPosts DEF RunDeadline, RunClose
  <2>2. CASE RunCancel
    <3>1. "cancel" \in Tasks
      BY <2>2, StartTasks DEF RunCancel, TypeOK
    <3>2. "CANCELLED" \in Honest'
      BY <2>2, <3>1 DEF RunCancel, Honest, ReasonInv, controlVars
    <3> QED BY <2>2, <3>2, CompleteCallPosts DEF RunCancel, ResetAndCancel
  <2>3. ASSUME NEW k \in Chunk, RunData(k) PROVE PostStep
    BY <1>0, <1>1, <2>3, CompleteCallPosts DEF RunData
  <2>4. ASSUME NEW s \in {"trailersOK", "trailersApp"}, RunTrailers(s) PROVE PostStep
    <3>1. /\ s = "trailersOK" => peerStatus = "OK"
          /\ s = "trailersApp" => peerStatus = "APP"
      BY <2>4, StartTasks DEF RunTrailers, ReasonInv, TypeOK
    <3>2. CASE s = "trailersApp" /\ CompleteCall("APP")
      <4>1. "APP" \in Honest'
        BY <2>4, <3>1, <3>2 DEF RunTrailers, Honest, wireVars
      <4> QED BY <3>2, <4>1, CompleteCallPosts
    <3>3. CASE CompleteCall("BAD_RESPONSE") \/ CompleteCall("OK_NO_RESPONSE")
      BY <1>0, <3>3, CompleteCallPosts
    <3>4. CASE s = "trailersOK" /\ dec = "done" /\ CompleteCall("OK")
      <4>1. ~callDone => "OK" \in Honest'
        BY <2>4, <3>1, <3>4 DEF RunTrailers, CompleteCall, Honest, wireVars
      <4> QED BY <3>4, <4>1, CompleteCallPosts
    <3> QED BY <2>4, <3>2, <3>3, <3>4 DEF RunTrailers
  <2> QED BY <1>4, <2>1, <2>2, <2>3, <2>4 DEF RunTask
<1>5. CASE ChannelEvent
  <2>1. DoShutdown => "CANCELLED" \in Honest'
    BY DEF DoShutdown, Honest
  <2> QED BY <1>0, <1>1, <1>5, <2>1, CompleteCallPosts
          DEF ChannelEvent, Connected, ConnectFails, Goaway, DoShutdown
<1>6. CASE Peer
  <2>1. CASE AttachRejects
    <3>1. peerStatus' = "APP" => "APP" \in Honest'
      BY DEF Honest
    <3> QED BY <1>0, <2>1, <3>1, CompleteCallPosts DEF AttachRejects
  <2> QED BY <1>1, <1>6, <2>1 DEF Peer, Attach, StreamCloses, PeerData, PeerTrailers
<1>7. ASSUME NEW c \in Cancellers, Cancel(c) PROVE PostStep
  BY <1>1, <1>7 DEF Cancel, CancelStore, CancelCopy, CancelInvoke, CancelGate
<1>8. UnaryCallRaw \/ ClearAndPost \/ Resume \/ TimerExpires \/ UNCHANGED vars => UNCHANGED ioc
  BY DEF UnaryCallRaw, ClearAndPost, Resume, TimerExpires, vars
<1> QED
  BY <1>1, <1>2, <1>3, <1>4, <1>5, <1>6, <1>7, <1>8 DEF Next

(* Only an honest status passes the completion gate.                       *)
LEMMA GateAdmitsHonest ==
    TypeOK /\ ReasonInv /\ HonestInv /\ [Next]_vars /\ result' # result => result' \in Honest'
<1> SUFFICES ASSUME TypeOK, ReasonInv, HonestInv, [Next]_vars, result' # result
             PROVE  result' \in Honest'
  OBVIOUS
<1> USE Literals DEF Gate, gateVars
<1>1. ASSUME NEW c \in Cancellers, Cancel(c) PROVE result' \in Honest'
  BY <1>1 DEF Cancel, CancelStore, CancelCopy, CancelInvoke, CancelGate, ReasonInv, Honest
<1>2. CASE RunPosted
  <2>1. ioc \in Seq(Honest) /\ ioc # <<>> /\ result' = Head(ioc)
    BY <1>2 DEF RunPosted, HonestInv
  <2>2. result' \in Honest
    BY <2>1
  <2> QED BY <2>2, HonestStays
<1>3. CASE SubmitCall
  BY <1>3 DEF SubmitCall, StartSubmit, SubmitCheck, SubmitRefused, ShutdownStatus, SubmitQueued,
         SubmitMisconfigured, SubmitFails, SubmitOpens, SetCancelStream, CancelNow, ArmTimer,
         controlVars, connVars, Honest
<1>4. CASE ChannelEvent
  BY <1>4 DEF ChannelEvent, Connected, ConnectFails, Goaway, DoShutdown, Honest
<1>5. ~(\/ RunTask \/ Peer \/ UnaryCallRaw \/ TimerExpires \/ ClearAndPost \/ Resume
        \/ UNCHANGED vars)
  BY DEF RunTask, RunDeadline, RunCancel, RunClose, RunData, RunTrailers, Peer, AttachRejects,
         Attach, StreamCloses, PeerData, PeerTrailers, UnaryCallRaw, TimerExpires, ClearAndPost,
         Resume, vars
<1> QED
  BY <1>1, <1>2, <1>3, <1>4, <1>5 DEF Next

LEMMA HonestStep ==
    TypeOK /\ OwnerInv /\ ReasonInv /\ InboxIsResult /\ ResultChosen /\ ExactlyOnce /\ HonestInv
        /\ [Next]_vars => HonestInv'
<1> SUFFICES ASSUME TypeOK, OwnerInv, ReasonInv, InboxIsResult, ResultChosen, ExactlyOnce,
                    HonestInv, [Next]_vars
             PROVE  HonestInv'
  OBVIOUS
<1>1. Honest \subseteq Honest' /\ ioc \in Seq(Honest') /\ resumed \in Seq(Honest')
  BY HonestStays DEF HonestInv
<1>2. ioc' \in Seq(Honest')
  <2>1. PostStep
    BY StepIsPostStep
  <2>2. CASE UNCHANGED ioc
    BY <1>1, <2>2
  <2>3. CASE ioc # <<>> /\ ioc' = Tail(ioc)
    BY <1>1, <2>3
  <2>4. ASSUME NEW s \in Honest', ioc' = Append(ioc, s) PROVE ioc' \in Seq(Honest')
    BY <1>1, <2>4
  <2> QED BY <2>1, <2>2, <2>3, <2>4 DEF PostStep
<1>3. result' # "none" => result' \in Honest'
  BY <1>1, GateAdmitsHonest DEF HonestInv
<1>4. resumed' \in Seq(Honest')
  <2>1. resumed \in Seq(Status) /\ inbox \in Seq(Status)
        /\ Len(resumed) \in Nat /\ Len(inbox) \in Nat
    BY DEF TypeOK, CallerOK
  <2>2. CASE Resume
    <3>1. Len(inbox) > 0 /\ Head(inbox) = result
      BY <2>1, <2>2 DEF Resume, InboxIsResult
    <3>2. completed
      BY <2>1, <3>1 DEF ExactlyOnce, InTransit
    <3>3. PICK r \in Reported(result) : resumed' = Append(resumed, r)
      BY <2>2, <3>1 DEF Resume
    <3>4. r \in Honest
      BY <3>2, Literals DEF HonestInv, ResultChosen, Reported, Honest
    <3> QED BY <1>1, <3>3, <3>4
  <2>3. CASE UNCHANGED resumed
    BY <1>1, <2>3
  <2> QED BY <2>2, <2>3, StepIsGateStep DEF GateStep, ClearAndPost
<1> QED BY <1>2, <1>3, <1>4 DEF HonestInv

(* The coroutine is told OK only with a whole message and the peer's OK,   *)
(* the application's error only if the peer sent it, and a cancellation    *)
(* only if somebody cancelled or shut the channel down.                    *)
THEOREM ResultIsHonest == Safety => []HonestResult
<1>1. Init => OwnerInv
  BY DEF Init, OwnerInv, Unopened, Opened
<1>2. Init => ReasonInv /\ InboxIsResult
  BY DEF Init, ReasonInv, InboxIsResult, Tasks
<1>3. Init => HonestInv
  BY DEF Init, HonestInv
<1>4. HonestInv => HonestResult
  BY DEF HonestInv, Honest, HonestResult
<1> QED
  BY <1>1, <1>2, <1>3, <1>4, TypeCorrect, CompletesOnce, StepIsGateStep, InboxStep, OwnerStep,
     ReasonStep, HonestStep, PTL DEF Safety
=============================================================================
