----------------------------- MODULE UnaryCall -----------------------------
(***************************************************************************)
(* One unary RPC of the client, from Channel::UnaryCallRaw to the resumed  *)
(* coroutine.                                                              *)
(*                                                                         *)
(* Four kinds of actor run concurrently when several threads run the       *)
(* io_context:                                                             *)
(*   - the channel strand, one handler at a time, fed by a FIFO of posted  *)
(*     tasks; the nghttp2 session runs on it too;                          *)
(*   - the cancellers (ClientContext::Cancel and the cancellation slot of  *)
(*     the awaiting coroutine), on the caller's threads;                   *)
(*   - the io_context pool, which runs what ClientCallState::Complete      *)
(*     posts;                                                              *)
(*   - the executor of the awaiting coroutine.                             *)
(* A strand handler is split wherever it meets state that another actor    *)
(* also touches: UnaryCallControl (an atomic flag and a mutex) and the     *)
(* completion gate of UnaryCallCompletion.                                 *)
(***************************************************************************)
EXTENDS Naturals, Sequences, FiniteSets

CONSTANTS
    Cancellers,    \* actors that may call UnaryCallCompletion::Cancel
    MaxData        \* bound: on_data callbacks the peer causes

ASSUME CancellersAssumption == {"strand", "pool", "none"} \cap Cancellers = {}
ASSUME MaxDataAssumption == MaxData \in Nat

(* Statuses by origin.  "OK_NO_RESPONSE" is an OK with has_response false; *)
(* "APP" a non-OK grpc-status of the peer's choice; "NOT_SENT" an oversized *)
(* request, a failed connection or a failed submit; "BAD_RESPONSE" what    *)
(* FromHttpStatus, an unknown encoding, the frame decoder or the           *)
(* decompressor report; "NO_TRAILERS" what OnStreamClose makes of a close  *)
(* or an RST_STREAM without grpc-status.                                   *)
Status == {"OK", "OK_NO_RESPONSE", "APP", "CANCELLED", "DEADLINE",
           "UNAVAILABLE", "INVALID_ARGUMENT", "NOT_SENT", "BAD_RESPONSE",
           "NO_TRAILERS", "INTERNAL"}

ConnState == {"kIdle", "kConnecting", "kReady", "kFailed", "kShutdown"}

Chunk == {"data", "eos"}   \* DATA with and without bytes

Task == {"submit", "cancel", "deadline", "trailersOK", "trailersApp",
         "close"} \cup Chunk

VARIABLES
    \* UnaryCallControl
    cancelled,     \* cancelled_
    cancelStream,  \* cancel_stream_ holds a function
    cpc,           \* where each canceller is inside UnaryCallCompletion::Cancel
    \* UnaryCallCompletion
    completed,     \* completed_
    clearer,       \* the actor between exchange() and post() of Complete
    result,        \* the result that passed the gate
    inbox,         \* results posted to the coroutine's executor
    resumed,       \* results the coroutine has been resumed with
    \* ChannelImpl, as far as it concerns this call
    initiated,     \* UnaryCallRaw has run
    conn,          \* state_
    terminal,      \* terminal_status_ has a value
    pending,       \* the call is in pending_calls_
    active,        \* the call is in active_calls_
    strand,        \* tasks posted to strand_
    spc,           \* where the strand is inside SubmitCall's handler
    \* ClientCallState
    callDone,      \* completed_
    trailersDone,  \* trailers_done_
    dec,           \* state of decoder_
    timer,         \* timer_
    ioc,           \* results posted to ioc_
    \* the HTTP/2 stream and the peer
    stream,        \* life cycle of the stream and of its request object
    rst,           \* RST_STREAM(CANCEL) has been sent
    peerStatus,    \* grpc-status the peer has sent
    nData          \* on_data callbacks so far

controlVars == <<cancelled, cancelStream, cpc>>
gateVars    == <<completed, clearer, result>>
callerVars  == <<inbox, resumed, initiated>>
connVars    == <<conn, terminal, pending, active>>
strandVars  == <<strand, spc>>
gateOfCall  == <<callDone, timer, ioc>>
bodyVars    == <<trailersDone, dec>>
wireVars    == <<stream, rst, peerStatus, nData>>
vars == <<controlVars, gateVars, callerVars, connVars, strandVars,
          gateOfCall, bodyVars, wireVars>>

Init ==
    /\ cancelled = FALSE /\ cancelStream = FALSE
    /\ cpc = [c \in Cancellers |-> "idle"]
    /\ completed = FALSE /\ clearer = "none" /\ result = "none"
    /\ inbox = <<>> /\ resumed = <<>> /\ initiated = FALSE
    /\ conn \in {"kIdle", "kConnecting", "kReady"} /\ terminal = FALSE
    /\ pending = FALSE /\ active = FALSE
    /\ strand = <<>> /\ spc = "free"
    /\ callDone = FALSE /\ timer = "off" /\ ioc = <<>>
    /\ trailersDone = FALSE /\ dec = "empty"
    /\ stream = "none" /\ rst = FALSE /\ peerStatus = "none"
    /\ nData = 0

Alive == {"open", "attached", "deaf"}   \* the request object exists

(* The strand starts a handler only when the previous one has returned.    *)
StrandFree == spc = "free" /\ clearer # "strand"

-----------------------------------------------------------------------------
(* UnaryCallCompletion                                                      *)

(* Mutant: the gate is not an exchange.                                    *)
Gate_NoExchange(a, s) ==
    completed' = TRUE /\ clearer' = a /\ result' = s

(* The first half of Complete: only the first caller of exchange() goes on. *)
Gate(a, s) ==
    IF completed
    THEN UNCHANGED gateVars
    ELSE completed' = TRUE /\ clearer' = a /\ result' = s

(* Mutant: the handler is posted before the gate.                          *)
ClearAndPost_BeforeGate ==
    /\ cancelStream' = FALSE
    /\ inbox = <<>> /\ resumed = <<>>
    /\ inbox' = Append(inbox, result)
    /\ clearer' = "none"
    /\ UNCHANGED <<cancelled, cpc, completed, result, resumed, initiated,
                   connVars, strandVars, gateOfCall, bodyVars, wireVars>>

(* The second half of Complete: ClearCancelStream, then post the handler.  *)
ClearAndPost ==
    /\ clearer # "none"
    /\ cancelStream' = FALSE
    /\ inbox' = Append(inbox, result)
    /\ clearer' = "none"
    /\ UNCHANGED <<cancelled, cpc, completed, result, resumed, initiated,
                   connVars, strandVars, gateOfCall, bodyVars, wireVars>>

(* The typed Channel::UnaryCall makes its result from the raw one: an OK   *)
(* needs exactly one response message, and that message has to parse.      *)
Reported(s) ==
    CASE s = "OK" -> {"OK", "INTERNAL"}
      [] s = "OK_NO_RESPONSE" -> {"INTERNAL"}
      [] OTHER -> {s}

(* Mutant: the handler is not given up.                                    *)
Resume_KeepsHandler ==
    /\ inbox # <<>> /\ Len(resumed) < 2
    /\ \E r \in Reported(Head(inbox)) : resumed' = Append(resumed, r)
    /\ UNCHANGED <<controlVars, gateVars, inbox, initiated, connVars,
                   strandVars, gateOfCall, bodyVars, wireVars>>

(* The posted closure runs on the coroutine's executor.                    *)
Resume ==
    /\ inbox # <<>>
    /\ \E r \in Reported(Head(inbox)) : resumed' = Append(resumed, r)
    /\ inbox' = Tail(inbox)
    /\ UNCHANGED <<controlVars, gateVars, initiated, connVars, strandVars,
                   gateOfCall, bodyVars, wireVars>>

-----------------------------------------------------------------------------
(* UnaryCallControl and the cancellers                                      *)

SubmitInProgress == spc # "free" \/ \E i \in 1..Len(strand) : strand[i] = "submit"

(* weak_completion.lock() succeeds: a posted handler, the submission, the  *)
(* pending entry or the call state still holds the completion.             *)
CompletionHeld ==
    \/ resumed = <<>>
    \/ SubmitInProgress
    \/ pending
    \/ stream # "none" /\ ~callDone

(* UnaryCallControl::Cancel, the store of cancelled_.                      *)
CancelStore(c) ==
    /\ initiated /\ CompletionHeld
    /\ cpc[c] = "idle"
    /\ cancelled' = TRUE
    /\ cpc' = [cpc EXCEPT ![c] = "stored"]
    /\ UNCHANGED <<cancelStream, gateVars, callerVars, connVars, strandVars,
                   gateOfCall, bodyVars, wireVars>>

(* UnaryCallControl::Cancel, the copy of cancel_stream_ under the mutex.   *)
CancelCopy(c) ==
    /\ cpc[c] = "stored"
    /\ cpc' = [cpc EXCEPT ![c] = IF cancelStream THEN "invoke" ELSE "gate"]
    /\ UNCHANGED <<cancelled, cancelStream, gateVars, callerVars, connVars,
                   strandVars, gateOfCall, bodyVars, wireVars>>

(* The copied function dispatches to the strand; the canceller is not on   *)
(* it, so the task is queued.                                              *)
CancelInvoke(c) ==
    /\ cpc[c] = "invoke"
    /\ strand' = Append(strand, "cancel")
    /\ cpc' = [cpc EXCEPT ![c] = "gate"]
    /\ UNCHANGED <<cancelled, cancelStream, gateVars, callerVars, connVars,
                   spc, gateOfCall, bodyVars, wireVars>>

(* UnaryCallCompletion::Cancel resolves the awaitable itself.              *)
CancelGate(c) ==
    /\ cpc[c] = "gate"
    /\ Gate(c, "CANCELLED")
    /\ cpc' = [cpc EXCEPT ![c] = "done"]
    /\ UNCHANGED <<cancelled, cancelStream, callerVars, connVars, strandVars,
                   gateOfCall, bodyVars, wireVars>>

-----------------------------------------------------------------------------
(* ClientCallState                                                          *)

(* ClientCallState::Complete, with Fail and Cancel which only call it.     *)
CompleteCall(s) ==
    IF callDone
    THEN UNCHANGED gateOfCall
    ELSE /\ callDone' = TRUE
         /\ timer' = IF timer = "armed" THEN "off" ELSE timer
         /\ ioc' = Append(ioc, s)

(* A pool thread runs what Complete posted: UnaryCallCompletion::Complete. *)
RunPosted ==
    /\ ioc # <<>>
    /\ clearer # "pool"
    /\ Gate("pool", Head(ioc))
    /\ ioc' = Tail(ioc)
    /\ UNCHANGED <<controlVars, callerVars, connVars, strandVars, callDone,
                   timer, bodyVars, wireVars>>

(* The deadline timer expires; its handler dispatches to the strand.       *)
TimerExpires ==
    /\ timer = "armed"
    /\ timer' = "fired"
    /\ strand' = Append(strand, "deadline")
    /\ UNCHANGED <<controlVars, gateVars, callerVars, connVars, spc, callDone,
                   ioc, bodyVars, wireVars>>

StartTask(t) ==
    /\ StrandFree
    /\ strand # <<>> /\ Head(strand) = t
    /\ strand' = Tail(strand)

RunDeadline ==
    /\ StartTask("deadline")
    /\ CompleteCall("DEADLINE")
    /\ UNCHANGED <<controlVars, gateVars, callerVars, connVars, spc, bodyVars,
                   wireVars>>

(* The function handed to SetCancelStream: reset the stream through the    *)
(* raw request pointer, then cancel the call state.                        *)
ResetAndCancel ==
    /\ rst' = (rst \/ stream \in Alive)
    /\ CompleteCall("CANCELLED")

RunCancel ==
    /\ StartTask("cancel")
    /\ ResetAndCancel
    /\ UNCHANGED <<controlVars, gateVars, callerVars, connVars, spc, bodyVars,
                   stream, peerStatus, nData>>

-----------------------------------------------------------------------------
(* ChannelImpl::SubmitCall                                                  *)

(* UnaryCallRaw assigns the cancellation slots and calls SubmitCall, which *)
(* dispatches to the strand.                                               *)
UnaryCallRaw ==
    /\ ~initiated
    /\ initiated' = TRUE
    /\ strand' = Append(strand, "submit")
    /\ UNCHANGED <<controlVars, gateVars, inbox, resumed, connVars, spc,
                   gateOfCall, bodyVars, wireVars>>

StartSubmit ==
    /\ StartTask("submit")
    /\ spc' = "check"
    /\ UNCHANGED <<controlVars, gateVars, callerVars, connVars, gateOfCall,
                   bodyVars, wireVars>>

(* Mutant: cancelled() is not asked.                                       *)
SubmitCheck_Skipped ==
    /\ spc = "check" /\ clearer # "strand"
    /\ spc' = "state"
    /\ UNCHANGED gateVars
    /\ UNCHANGED <<controlVars, callerVars, connVars, strand, gateOfCall,
                   bodyVars, wireVars>>

(* if (control->cancelled()) complete with CANCELLED.                      *)
SubmitCheck ==
    /\ spc = "check" /\ clearer # "strand"
    /\ IF cancelled
       THEN Gate("strand", "CANCELLED") /\ spc' = "free"
       ELSE UNCHANGED gateVars /\ spc' = "state"
    /\ UNCHANGED <<controlVars, callerVars, connVars, strand, gateOfCall,
                   bodyVars, wireVars>>

ShutdownStatus == IF terminal THEN "INVALID_ARGUMENT" ELSE "CANCELLED"

(* The channel is shut down or failed, the deadline has already passed or  *)
(* the request does not fit a frame: no stream is opened.                  *)
SubmitRefused ==
    /\ spc = "state"
    /\ \/ conn = "kShutdown" /\ Gate("strand", ShutdownStatus)
       \/ conn = "kFailed" /\ Gate("strand", "UNAVAILABLE")
       \/ conn = "kReady" /\ Gate("strand", "DEADLINE")
       \/ conn = "kReady" /\ Gate("strand", "NOT_SENT")
    /\ spc' = "free"
    /\ UNCHANGED <<controlVars, callerVars, connVars, strand, gateOfCall,
                   bodyVars, wireVars>>

(* Not connected: queue the call, and connect if nobody has started to.    *)
SubmitQueued ==
    /\ spc = "state"
    /\ conn \in {"kIdle", "kConnecting"}
    /\ pending' = TRUE
    /\ conn' = "kConnecting"
    /\ spc' = "free"
    /\ UNCHANGED <<controlVars, gateVars, callerVars, terminal, active,
                   strand, gateOfCall, bodyVars, wireVars>>

(* As SubmitQueued, but DoConnect finds the TLS configuration unusable and *)
(* drains the queue with that status.                                      *)
SubmitMisconfigured ==
    /\ spc = "state"
    /\ conn = "kIdle"
    /\ conn' = "kShutdown"
    /\ terminal' = TRUE
    /\ Gate("strand", "INVALID_ARGUMENT")
    /\ spc' = "free"
    /\ UNCHANGED <<controlVars, callerVars, pending, active, strand,
                   gateOfCall, bodyVars, wireVars>>

(* session_->submit fails: the call state is failed at once.               *)
SubmitFails ==
    /\ spc = "state"
    /\ conn = "kReady"
    /\ CompleteCall("NOT_SENT")
    /\ spc' = "free"
    /\ UNCHANGED <<controlVars, gateVars, callerVars, connVars, strand,
                   bodyVars, wireVars>>

(* session_->submit succeeds and the call enters active_calls_.            *)
SubmitOpens ==
    /\ spc = "state"
    /\ conn = "kReady"
    /\ stream' = "open"
    /\ active' = TRUE
    /\ spc' = "register"
    /\ UNCHANGED <<controlVars, gateVars, callerVars, conn, terminal, pending,
                   strand, gateOfCall, bodyVars, rst, peerStatus, nData>>

(* SetCancelStream, under the mutex: store the function, read cancelled_.  *)
SetCancelStream ==
    /\ spc = "register"
    /\ cancelStream' = TRUE
    /\ spc' = IF cancelled THEN "cancelNow" ELSE "arm"
    /\ UNCHANGED <<cancelled, cpc, gateVars, callerVars, connVars, strand,
                   gateOfCall, bodyVars, wireVars>>

(* SetCancelStream, after the mutex: Cancel() copies cancel_stream_ again, *)
(* and what it copies, if anything, dispatches inline on the strand.       *)
CancelNow ==
    /\ spc = "cancelNow"
    /\ IF cancelStream
       THEN ResetAndCancel
       ELSE UNCHANGED <<rst, gateOfCall>>
    /\ spc' = "arm"
    /\ UNCHANGED <<controlVars, gateVars, callerVars, connVars, strand,
                   bodyVars, stream, peerStatus, nData>>

(* Register on_response and on_close, then ArmTimer, which returns at once *)
(* when the user set no deadline.                                          *)
ArmTimer ==
    /\ spc = "arm"
    /\ timer' \in {timer, "armed"}
    /\ spc' = "free"
    /\ UNCHANGED <<controlVars, gateVars, callerVars, connVars, strand,
                   callDone, ioc, bodyVars, wireVars>>

-----------------------------------------------------------------------------
(* Channel events that reach this call, each a handler on the strand        *)

(* on_connect: DrainQueue submits the queued call again, inline.           *)
Connected ==
    /\ StrandFree
    /\ conn = "kConnecting"
    /\ conn' = "kReady"
    /\ pending' = FALSE
    /\ spc' = IF pending THEN "check" ELSE "free"
    /\ UNCHANGED <<controlVars, gateVars, callerVars, terminal, active,
                   strand, gateOfCall, bodyVars, wireVars>>

(* Mutant: the queue is not failed.                                        *)
ConnectFails_KeepsQueue ==
    /\ StrandFree
    /\ conn = "kConnecting"
    /\ conn' = "kFailed"
    /\ UNCHANGED gateVars
    /\ UNCHANGED <<controlVars, callerVars, terminal, pending, active,
                   strandVars, gateOfCall, bodyVars, wireVars>>

(* on_error before the connection is ready: FailAll.                       *)
ConnectFails ==
    /\ StrandFree
    /\ conn = "kConnecting"
    /\ conn' = "kFailed"
    /\ IF pending THEN Gate("strand", "NOT_SENT") ELSE UNCHANGED gateVars
    /\ pending' = FALSE
    /\ UNCHANGED <<controlVars, callerVars, terminal, active, strandVars,
                   gateOfCall, bodyVars, wireVars>>

(* OnGoaway: the call is failed if its stream is above last_stream_id.     *)
Goaway ==
    /\ StrandFree
    /\ conn \in {"kReady", "kFailed"}
    /\ conn' = "kFailed"
    /\ \/ active /\ active' = FALSE /\ CompleteCall("UNAVAILABLE")
       \/ UNCHANGED <<active, gateOfCall>>
    /\ UNCHANGED <<controlVars, gateVars, callerVars, terminal, pending,
                   strandVars, bodyVars, wireVars>>

(* Mutant: the active call is forgotten.                                   *)
DoShutdown_ForgetsActive ==
    /\ StrandFree
    /\ conn # "kShutdown"
    /\ conn' = "kShutdown"
    /\ active' = FALSE
    /\ IF pending THEN Gate("strand", "CANCELLED") ELSE UNCHANGED gateVars
    /\ pending' = FALSE
    /\ UNCHANGED <<controlVars, callerVars, terminal, strandVars, gateOfCall,
                   bodyVars, wireVars>>

(* DoShutdown: fail the active call and what is queued.                    *)
DoShutdown ==
    /\ StrandFree
    /\ conn # "kShutdown"
    /\ conn' = "kShutdown"
    /\ IF active THEN CompleteCall("CANCELLED") ELSE UNCHANGED gateOfCall
    /\ active' = FALSE
    /\ IF pending THEN Gate("strand", "CANCELLED") ELSE UNCHANGED gateVars
    /\ pending' = FALSE
    /\ UNCHANGED <<controlVars, callerVars, terminal, strandVars, bodyVars,
                   wireVars>>

-----------------------------------------------------------------------------
(* The peer and the nghttp2 session (external): callbacks on the strand     *)

(* on_response runs Attach.  A response that is not gRPC over HTTP 200, or *)
(* that has an unknown encoding, ends the call; so does grpc-status in the *)
(* header block (trailers-only).  None of these registers on_data.         *)
AttachRejects ==
    /\ StrandFree
    /\ stream = "open"
    /\ stream' = "deaf"
    /\ \/ CompleteCall("BAD_RESPONSE") /\ UNCHANGED peerStatus
       \/ CompleteCall("OK_NO_RESPONSE") /\ peerStatus' = "OK"
       \/ CompleteCall("APP") /\ peerStatus' = "APP"
    /\ UNCHANGED <<controlVars, gateVars, callerVars, connVars, strandVars,
                   bodyVars, rst, nData>>

Attach ==
    /\ StrandFree
    /\ stream = "open"
    /\ stream' = "attached"
    /\ UNCHANGED <<controlVars, gateVars, callerVars, connVars, strandVars,
                   gateOfCall, bodyVars, rst, peerStatus, nData>>

(* on_data and on_trailers copy their argument and post to the strand.     *)
PeerData(chunk) ==
    /\ StrandFree
    /\ stream = "attached"
    /\ peerStatus = "none" \/ chunk = "eos"
    /\ nData < MaxData
    /\ nData' = nData + 1
    /\ strand' = Append(strand, chunk)
    /\ UNCHANGED <<controlVars, gateVars, callerVars, connVars, spc,
                   gateOfCall, bodyVars, stream, rst, peerStatus>>

PeerTrailers(s) ==
    /\ StrandFree
    /\ stream = "attached"
    /\ peerStatus = "none"
    /\ peerStatus' = s
    /\ strand' = Append(strand, IF s = "OK" THEN "trailersOK" ELSE "trailersApp")
    /\ UNCHANGED <<controlVars, gateVars, callerVars, connVars, spc,
                   gateOfCall, bodyVars, stream, rst, nData>>

(* on_close posts to the strand; the session frees the request object.     *)
StreamCloses ==
    /\ StrandFree
    /\ stream \in Alive
    /\ stream' = "closed"
    /\ strand' = Append(strand, "close")
    /\ UNCHANGED <<controlVars, gateVars, callerVars, connVars, spc,
                   gateOfCall, bodyVars, rst, peerStatus, nData>>

-----------------------------------------------------------------------------
(* Strand tasks posted by those callbacks                                   *)

(* What FrameDecoder::Feed and MarkEos may make of one chunk: its bytes     *)
(* leave the message incomplete, complete it, or are malformed, over the   *)
(* limit or more than one message; an end must not cut it.                 *)
Feed(d, chunk) ==
    IF chunk = "eos" THEN {IF d = "partial" THEN "error" ELSE d}
    ELSE IF d \in {"empty", "partial"} THEN {"partial", "done", "error"}
    ELSE {"error"}

RunData(chunk) ==
    /\ StartTask(chunk)
    /\ dec' \in IF callDone THEN {dec} ELSE Feed(dec, chunk)
    /\ IF dec' = "error"
       THEN CompleteCall("BAD_RESPONSE")
       ELSE UNCHANGED gateOfCall
    /\ UNCHANGED <<controlVars, gateVars, callerVars, connVars, spc,
                   trailersDone, wireVars>>

(* Mutant: the status is not looked at.                                    *)
RunTrailers_IgnoresStatus(s) ==
    /\ StartTask(s)
    /\ trailersDone' = (trailersDone \/ ~callDone)
    /\ CompleteCall(IF dec = "done" THEN "OK" ELSE "OK_NO_RESPONSE")
    /\ UNCHANGED <<controlVars, gateVars, callerVars, connVars, spc, dec,
                   wireVars>>

(* The trailers end the call: a non-OK status as it is, an OK with the     *)
(* decoded message, which may first fail to decompress: that takes an      *)
(* encoding in the header block and a compressed-flag in the decoder.      *)
RunTrailers(s) ==
    /\ StartTask(s)
    /\ trailersDone' = (trailersDone \/ ~callDone)
    /\ \/ s = "trailersApp" /\ CompleteCall("APP")
       \/ s = "trailersOK" /\ dec # "empty" /\ CompleteCall("BAD_RESPONSE")
       \/ s = "trailersOK" /\ dec = "done" /\ CompleteCall("OK")
       \/ s = "trailersOK" /\ dec # "done" /\ CompleteCall("OK_NO_RESPONSE")
    /\ UNCHANGED <<controlVars, gateVars, callerVars, connVars, spc, dec,
                   wireVars>>

(* RemoveActiveCall, then OnStreamClose.                                   *)
RunClose ==
    /\ StartTask("close")
    /\ active' = FALSE
    /\ IF trailersDone
       THEN UNCHANGED gateOfCall
       ELSE CompleteCall("NO_TRAILERS")
    /\ UNCHANGED <<controlVars, gateVars, callerVars, conn, terminal, pending,
                   spc, bodyVars, wireVars>>

-----------------------------------------------------------------------------
Cancel(c) == CancelStore(c) \/ CancelCopy(c) \/ CancelInvoke(c) \/ CancelGate(c)

SubmitCall ==
    \/ StartSubmit \/ SubmitCheck \/ SubmitRefused \/ SubmitQueued
    \/ SubmitMisconfigured \/ SubmitFails \/ SubmitOpens
    \/ SetCancelStream \/ CancelNow \/ ArmTimer

RunTask ==
    \/ RunDeadline \/ RunCancel \/ RunClose
    \/ \E c \in Chunk : RunData(c)
    \/ \E s \in {"trailersOK", "trailersApp"} : RunTrailers(s)

ChannelEvent == Connected \/ ConnectFails \/ Goaway \/ DoShutdown

Peer ==
    \/ AttachRejects \/ Attach \/ StreamCloses
    \/ \E c \in Chunk : PeerData(c)
    \/ \E s \in {"OK", "APP"} : PeerTrailers(s)

Next ==
    \/ UnaryCallRaw
    \/ \E c \in Cancellers : Cancel(c)
    \/ ClearAndPost \/ Resume \/ RunPosted \/ TimerExpires
    \/ SubmitCall \/ RunTask
    \/ ChannelEvent \/ Peer

Safety == Init /\ [][Next]_vars

(* While the threads of the io_context have something to run, a canceller  *)
(* is inside its call or a timer is armed, one of them goes on.  Nothing   *)
(* is assumed of the peer, of the connection or of the user, nor of the    *)
(* order: no step can be taken for ever, so each gets its turn.            *)
Posted ==
    \/ SubmitCall \/ RunTask
    \/ ClearAndPost \/ Resume \/ RunPosted \/ TimerExpires
    \/ \E c \in Cancellers : CancelCopy(c) \/ CancelInvoke(c) \/ CancelGate(c)

Fairness == WF_vars(Posted)

Spec == Safety /\ Fairness

-----------------------------------------------------------------------------
Actors == Cancellers \cup {"strand", "pool"}

ControlOK ==
    /\ cancelled \in BOOLEAN /\ cancelStream \in BOOLEAN
    /\ cpc \in [Cancellers -> {"idle", "stored", "invoke", "gate", "done"}]

GateOK ==
    /\ completed \in BOOLEAN
    /\ clearer \in Actors \cup {"none"}
    /\ result \in Status \cup {"none"}

CallerOK ==
    inbox \in Seq(Status) /\ resumed \in Seq(Status) /\ initiated \in BOOLEAN

ConnOK ==
    /\ conn \in ConnState /\ terminal \in BOOLEAN
    /\ pending \in BOOLEAN /\ active \in BOOLEAN

StrandOK ==
    /\ strand \in Seq(Task)
    /\ spc \in {"free", "check", "state", "register", "cancelNow", "arm"}

CallGateOK ==
    callDone \in BOOLEAN /\ timer \in {"off", "armed", "fired"} /\ ioc \in Seq(Status)

BodyOK ==
    /\ trailersDone \in BOOLEAN
    /\ dec \in {"empty", "partial", "done", "error"}

WireOK ==
    /\ stream \in Alive \cup {"none", "closed"}
    /\ rst \in BOOLEAN /\ peerStatus \in {"none", "OK", "APP"}
    /\ nData \in 0..MaxData

(* A result is posted only after it has been chosen, so what travels to    *)
(* the coroutine is always a status; every other variable has its type.    *)
TypeOK ==
    /\ ControlOK /\ GateOK /\ CallerOK /\ ConnOK
    /\ StrandOK /\ CallGateOK /\ BodyOK /\ WireOK

(* The gate and the result it guards agree (strengthens TypeOK).           *)
ResultChosen ==
    /\ completed <=> result # "none"
    /\ clearer # "none" => completed

(* A result that has passed the completion gate is never lost and never    *)
(* doubled: from the exchange() of UnaryCallCompletion::Complete to the    *)
(* resumed coroutine it is in exactly one place.                           *)
InTransit == (IF clearer # "none" THEN 1 ELSE 0) + Len(inbox) + Len(resumed)

ExactlyOnce == InTransit = (IF completed THEN 1 ELSE 0)

InStrand(t) == \E i \in 1..Len(strand) : strand[i] = t

(* A call that has been started and not resolved is always in somebody's   *)
(* hands: the strand is submitting it, the pending queue holds it while a  *)
(* connection is being made, its call state is about to report through the *)
(* pool, or its stream still has its close callback ahead of it.           *)
NeverOrphaned ==
    initiated /\ ~completed =>
        \/ SubmitInProgress
        \/ pending /\ conn = "kConnecting"
        \/ ioc # <<>>
        \/ /\ stream # "none" /\ ~callDone
           /\ \/ stream \in Alive
              \/ InStrand("close")

(* The coroutine sees OK only when the peer's grpc-status was OK and one   *)
(* whole message was decoded; it sees CANCELLED only when it or the        *)
(* channel's owner asked for it.                                           *)
HonestResult ==
    \A i \in 1..Len(resumed) :
        /\ resumed[i] = "OK" => peerStatus = "OK" /\ dec = "done"
        /\ resumed[i] = "APP" => peerStatus = "APP"
        /\ resumed[i] = "CANCELLED" => cancelled \/ conn = "kShutdown"

(* Once cancellation is recorded, a submission that has not yet passed its *)
(* check of cancelled() never opens a stream, though it may still be on    *)
(* its way to the strand or wait for the connection: the predicate below   *)
(* is stable.                                                              *)
CancelledUnsent == cancelled /\ stream = "none" /\ spc # "state"

NoStreamAfterCancel == [][CancelledUnsent => CancelledUnsent']_vars

Ending ==
    \/ \E c \in Cancellers : cpc[c] # "idle"
    \/ stream = "closed" \/ timer = "armed"
    \/ initiated /\ conn = "kShutdown"

(* Whatever the peer and the connection do, the call is resolved by a      *)
(* cancellation, by the close of its stream, with or without trailers, by  *)
(* an armed deadline, and by the channel's shutdown, be it active, queued  *)
(* or submitted afterwards.                                                *)
EndResolves == Ending ~> (resumed # <<>>)

(* UnaryCall implements the one-shot call.                                 *)
OneShot == INSTANCE OneShotCall WITH
    Unresolved <- "none", resolution <- result, delivered <- resumed

ImplementsOneShot == OneShot!Spec

(* docs/concurrency.md, Cancellation, 4: a cancelled call's stream is      *)
(* reset.  Stated when every step the cancellation causes has been taken   *)
(* and the stream is still there.                                          *)
CancelResetsStream ==
    /\ \E c \in Cancellers : cpc[c] = "done"
    /\ \A c \in Cancellers : cpc[c] \in {"idle", "done"}
    /\ resumed = <<"CANCELLED">>
    /\ strand = <<>> /\ StrandFree
    /\ stream \in Alive /\ conn # "kShutdown"
    => rst
=============================================================================
