----------------------------- MODULE StreamCall -----------------------------
(***************************************************************************)
(* One streaming RPC of the client, from SubmitServerStreamingCall,        *)
(* SubmitBidiStreamingCall or SubmitClientStreamingCall to the status that *)
(* Finish returns.  hasReader tells the first two, whose responses go      *)
(* through a StreamMessageQueue, from the third, which keeps one response. *)
(* The request side is in ClientWriter.                                    *)
(*                                                                         *)
(* Three kinds of actor run concurrently when several threads run the      *)
(* io_context: the channel strand, with a FIFO of posted tasks; the pool,  *)
(* which runs the closures that Fail, OnStreamClose and a trailers-only    *)
(* Attach post to ioc_, in any order and beside the strand; and the user's *)
(* coroutine, which pops the queue on its own executor.  Unlike the unary  *)
(* call, nothing here waits for a single gate: the trailers write the      *)
(* final status without touching closed_.                                  *)
(***************************************************************************)
EXTENDS Naturals, Sequences

CONSTANTS
    OneThread,     \* one thread runs the io_context
    MaxMsgs        \* bound: messages the peer sends

ASSUME OneThreadAssumption == OneThread \in BOOLEAN
ASSUME MaxMsgsAssumption == MaxMsgs \in Nat

(* "OK" and "APP" are the peer's grpc-status; "NOT_SENT" an oversized      *)
(* request, a failed connection or a failed submit; "BAD_RESPONSE" a       *)
(* response that is not gRPC or a message over the limit.  OnStreamClose   *)
(* makes "CANCELLED" of a peer's RST_STREAM(CANCEL); "NO_TRAILERS" stands  *)
(* for its UNKNOWN of a close without grpc-status and for the statuses of  *)
(* the other error codes, which the properties do not tell apart.          *)
PeerStatus == {"OK", "APP"}

LocalStatus == {"CANCELLED", "DEADLINE", "UNAVAILABLE", "INVALID_ARGUMENT",
                "NOT_SENT", "BAD_RESPONSE", "NO_TRAILERS", "INTERNAL"}

CloseStatus == {"NO_TRAILERS", "CANCELLED"}

Status == PeerStatus \cup LocalStatus

VARIABLES
    \* ChannelImpl, as far as it concerns this call
    conn,          \* state_
    pending,       \* the call is in pending_generic_calls_
    active,        \* the call is in active_streaming_calls_
    strand,        \* tasks posted to strand_
    \* ServerStreaming-, BidiStreaming-, ClientStreamingClientCallState
    closed,        \* closed_
    trailersDone,  \* trailers_done_
    timer,         \* timer_
    ioc,           \* closures posted to ioc_
    partial,       \* hdr_buf_, payload_buf_: the message begun; 0 is none
    \* RawClientReaderImpl and RawClientWriterImpl
    buffer,        \* msg_queue_.buffer_, messages by their number
    error,         \* msg_queue_.error_
    eos,           \* msg_queue_.eos_
    response,      \* response_bytes_, by message number; 0 is no response
    final,         \* final_status_; "none" while status_ready_ is false
    \* the user
    hasReader,     \* the call has a StreamMessageQueue
    call,          \* the call is not started, submitted, or has its handle
    cancelAsked,   \* ClientContext::Cancel has been called
    reader,        \* where the coroutine is inside Pop
    received,      \* messages Read has returned
    readEnd,       \* what ended the reading: "eos", a status, or not yet
    finish,        \* Finish: not called, polling, or its status
    \* the HTTP/2 stream and the peer
    stream,        \* life cycle of the stream and of its request object
    rst,           \* RST_STREAM(CANCEL) has been sent
    peerStatus,    \* grpc-status the peer has sent
    sent,          \* messages the peer has sent to their end
    cut            \* the message it has begun to send; 0 is none

connVars   == <<conn, pending, active>>
gateVars   == <<closed, timer, ioc>>
queueVars  == <<partial, buffer, error, eos, response>>
statusVars == <<trailersDone, final>>
userVars   == <<call, cancelAsked, received, readEnd, finish>>
peerVars   == <<peerStatus, sent, cut>>
wireVars   == <<stream, rst, peerVars>>
vars == <<hasReader, connVars, strand, gateVars, queueVars, statusVars, reader, userVars,
          wireVars>>

Init ==
    /\ conn \in {"kIdle", "kConnecting", "kReady"} /\ pending = FALSE /\ active = FALSE
    /\ strand = <<>>
    /\ closed = FALSE /\ timer = "off" /\ ioc = {}
    /\ partial = 0 /\ buffer = <<>> /\ error = "none" /\ eos = FALSE /\ response = 0
    /\ trailersDone = FALSE /\ final = "none"
    /\ hasReader \in BOOLEAN
    /\ call = "new" /\ cancelAsked = FALSE /\ reader = "idle"
    /\ received = <<>> /\ readEnd = "none" /\ finish = "none"
    /\ stream = "none" /\ rst = FALSE /\ peerStatus = "none" /\ sent = 0 /\ cut = 0

Alive == {"open", "attached", "deaf"}   \* the request object exists

Ended == {"closed", "cancelled"}        \* without and with RST_STREAM(CANCEL)

Task(k) == [kind |-> k, lo |-> 1, hi |-> 0, part |-> 0, s |-> "none"]

Closure(k, s) == [kind |-> k, s |-> s]

-----------------------------------------------------------------------------
(* The call state                                                           *)

(* Fail, with Cancel which only calls it: the first to exchange closed_    *)
(* stops the timer and posts the status.                                   *)
Fail(s) ==
    IF closed
    THEN UNCHANGED gateVars
    ELSE /\ closed' = TRUE
         /\ timer' = IF timer = "armed" THEN "off" ELSE timer
         /\ ioc' = ioc \cup {Closure("fail", s)}

(* Mutant: nobody is woken.                                                *)
Wake_Forgotten == UNCHANGED reader

(* Wake cancels the timer: it reaches a coroutine that is waiting on it.   *)
Wake == reader' = IF reader = "waiting" THEN "check" ELSE reader

(* SetError and SetFinalStatus, as the posted closures call them.          *)
Report(s) ==
    /\ IF hasReader THEN error' = s /\ Wake ELSE UNCHANGED <<error, reader>>
    /\ final' = s

(* MaybeDeliverStatus: end the queue and write the final status.           *)
MaybeDeliverStatus(s) ==
    /\ trailersDone' = TRUE
    /\ final' = s
    /\ IF hasReader
       THEN /\ eos' = (eos \/ s = "OK")
            /\ error' = IF s = "OK" THEN error ELSE s
            /\ Wake
       ELSE UNCHANGED <<eos, error, reader>>

(* A pool thread runs a closure that Fail or OnStreamClose posted.         *)
RunReport ==
    /\ \E c \in ioc :
        /\ c.kind \in {"fail", "close"}
        /\ ioc' = ioc \ {c}
        /\ IF c.s = "none"
           THEN UNCHANGED <<error, reader, final>>
           ELSE Report(c.s)
    /\ UNCHANGED <<hasReader, connVars, strand, closed, timer, partial, buffer,
                   eos, response, trailersDone, userVars, wireVars>>

(* A pool thread runs what a trailers-only Attach posted.                  *)
RunTrailersOnly ==
    /\ \E c \in ioc :
        /\ c.kind = "trailersOnly"
        /\ ioc' = ioc \ {c}
        /\ closed' = TRUE
        /\ IF closed
           THEN UNCHANGED <<timer, trailersDone, final, eos, error, reader>>
           ELSE /\ timer' = IF timer = "armed" THEN "off" ELSE timer
                /\ MaybeDeliverStatus(c.s)
    /\ UNCHANGED <<hasReader, connVars, strand, partial, buffer, response,
                   userVars, wireVars>>

(* The deadline timer expires; its handler dispatches to the strand.       *)
TimerExpires ==
    /\ timer = "armed"
    /\ timer' = "fired"
    /\ strand' = Append(strand, Task("deadline"))
    /\ UNCHANGED <<hasReader, connVars, closed, ioc, queueVars, statusVars,
                   reader, userVars, wireVars>>

StartTask(k) ==
    /\ strand # <<>> /\ Head(strand).kind = k
    /\ strand' = Tail(strand)

RunDeadline ==
    /\ StartTask("deadline")
    /\ Fail("DEADLINE")
    /\ UNCHANGED <<hasReader, connVars, queueVars, statusVars, reader,
                   userVars, wireVars>>

(* The function in the cancellation slot: only a tracked call is reset.    *)
RunCancel ==
    /\ StartTask("cancel")
    /\ IF active
       THEN rst' = (rst \/ stream \in Alive) /\ Fail("CANCELLED")
       ELSE UNCHANGED <<rst, gateVars>>
    /\ UNCHANGED <<hasReader, connVars, queueVars, statusVars, reader,
                   userVars, stream, peerVars>>

-----------------------------------------------------------------------------
(* SubmitServerStreamingCall, SubmitClientStreamingCall and                 *)
(* SubmitBidiStreamingCall                                                  *)

(* The coroutine asks for the call; the submission goes to the strand.     *)
StartCall ==
    /\ call = "new"
    /\ call' = "submitted"
    /\ strand' = Append(strand, Task("submit"))
    /\ UNCHANGED <<hasReader, connVars, gateVars, queueVars, statusVars,
                   reader, cancelAsked, received, readEnd, finish, wireVars>>

(* A call that is never sent: its state fails, the handle is delivered.    *)
Refuse(s) == Fail(s) /\ call' = "handle" /\ UNCHANGED <<active, stream>>

(* session_->submit succeeds: track the call, assign the cancellation      *)
(* slot, arm the timer if the user set a deadline, deliver the handle.     *)
Open ==
    /\ stream' = "open" /\ active' = TRUE
    /\ timer' \in {timer, "armed"}
    /\ call' = "handle"
    /\ UNCHANGED <<closed, ioc>>

(* On a ready channel: a deadline that has passed, and a request or a      *)
(* submit that fails, refuse the call.                                     *)
OnReady ==
    \/ Refuse("DEADLINE")
    \/ Refuse("NOT_SENT")
    \/ Open

SubmitQueued ==
    /\ conn \in {"kIdle", "kConnecting"}
    /\ StartTask("submit")
    /\ conn' = "kConnecting"
    /\ pending' = TRUE
    /\ UNCHANGED <<hasReader, active, gateVars, queueVars, statusVars, reader,
                   userVars, wireVars>>

(* The TLS options are unusable: DoConnect shuts the channel down, and the *)
(* queued call is submitted again by DrainWithStatus and refused.          *)
SubmitMisconfigured ==
    /\ conn = "kIdle"
    /\ StartTask("submit")
    /\ conn' = "kShutdown"
    /\ Refuse("INVALID_ARGUMENT")
    /\ UNCHANGED <<hasReader, pending, queueVars, statusVars, reader,
                   cancelAsked, received, readEnd, finish, rst, peerVars>>

SubmitSettled ==
    /\ StartTask("submit")
    /\ \/ conn = "kShutdown" /\ Refuse("CANCELLED")
       \/ conn = "kFailed" /\ Refuse("UNAVAILABLE")
       \/ conn = "kReady" /\ OnReady
    /\ UNCHANGED <<hasReader, conn, pending, queueVars, statusVars, reader,
                   cancelAsked, received, readEnd, finish, rst, peerVars>>

-----------------------------------------------------------------------------
(* Channel events that reach this call, each a handler on the strand        *)

(* on_connect: DrainQueue runs the queued submission, inline.              *)
Connected ==
    /\ conn = "kConnecting"
    /\ conn' = "kReady"
    /\ pending' = FALSE
    /\ IF pending THEN OnReady ELSE UNCHANGED <<active, gateVars, call, stream>>
    /\ UNCHANGED <<hasReader, strand, queueVars, statusVars, reader,
                   cancelAsked, received, readEnd, finish, rst, peerVars>>

(* on_error before the connection is ready: FailAll runs the queued        *)
(* submission, which finds the channel failed.                             *)
ConnectFails ==
    /\ conn = "kConnecting"
    /\ conn' = "kFailed"
    /\ pending' = FALSE
    /\ IF pending
       THEN Refuse("UNAVAILABLE")
       ELSE UNCHANGED <<active, gateVars, call, stream>>
    /\ UNCHANGED <<hasReader, strand, queueVars, statusVars, reader,
                   cancelAsked, received, readEnd, finish, rst, peerVars>>

(* OnGoaway: the call is failed if its stream is above last_stream_id.     *)
Goaway ==
    /\ conn \in {"kReady", "kFailed"}
    /\ conn' = "kFailed"
    /\ \/ active /\ active' = FALSE /\ Fail("UNAVAILABLE")
       \/ UNCHANGED <<active, gateVars>>
    /\ UNCHANGED <<hasReader, pending, strand, queueVars, statusVars, reader,
                   userVars, wireVars>>

(* Mutant: the queued call is forgotten.                                   *)
DoShutdown_ForgetsQueue ==
    /\ conn # "kShutdown"
    /\ conn' = "kShutdown"
    /\ active' = FALSE /\ pending' = FALSE
    /\ IF active THEN Fail("CANCELLED") ELSE UNCHANGED gateVars
    /\ UNCHANGED <<hasReader, strand, queueVars, statusVars, reader, userVars,
                   wireVars>>

(* DoShutdown: fail the tracked call; FailAll refuses the queued one.      *)
DoShutdown ==
    /\ conn # "kShutdown"
    /\ conn' = "kShutdown"
    /\ active' = FALSE /\ pending' = FALSE
    /\ IF active \/ pending THEN Fail("CANCELLED") ELSE UNCHANGED gateVars
    /\ call' = IF pending THEN "handle" ELSE call
    /\ UNCHANGED <<hasReader, strand, queueVars, statusVars, reader,
                   cancelAsked, received, readEnd, finish, wireVars>>

-----------------------------------------------------------------------------
(* The peer and the nghttp2 session (external): callbacks on the strand     *)

(* Attach refuses a response that is not gRPC over HTTP 200.               *)
AttachRejects ==
    /\ stream = "open"
    /\ stream' = "deaf"
    /\ Fail("BAD_RESPONSE")
    /\ UNCHANGED <<hasReader, connVars, strand, queueVars, statusVars, reader,
                   userVars, rst, peerVars>>

(* Attach finds grpc-status in the header block and posts it to ioc_.      *)
AttachTrailersOnly(s) ==
    /\ stream = "open"
    /\ stream' = "deaf"
    /\ peerStatus' = s
    /\ ioc' = ioc \cup {Closure("trailersOnly", s)}
    /\ UNCHANGED <<hasReader, connVars, strand, closed, timer, queueVars,
                   statusVars, reader, userVars, rst, sent, cut>>

Attach ==
    /\ stream = "open"
    /\ stream' = "attached"
    /\ UNCHANGED <<hasReader, connVars, strand, gateVars, queueVars,
                   statusVars, reader, userVars, rst, peerVars>>

(* on_data copies the bytes and posts them.  They complete n messages, of  *)
(* which the last may have a length over the limit, and may then begin     *)
(* another.  Bound: a message is cut once.                                 *)
PeerData(n, more, s) ==
    /\ stream = "attached" /\ peerStatus = "none"
    /\ n > 0 \/ (more /\ cut = 0)
    /\ more => s = "none"
    /\ sent + n + (IF more THEN 1 ELSE 0) <= MaxMsgs
    /\ sent' = sent + n
    /\ cut' = IF more THEN sent + n + 1 ELSE 0
    /\ strand' = Append(strand,
           [kind |-> "data", lo |-> sent + 1,
            hi |-> IF s = "none" THEN sent + n ELSE sent + n - 1, part |-> cut', s |-> s])
    /\ UNCHANGED <<hasReader, connVars, gateVars, queueVars, statusVars,
                   reader, userVars, stream, rst, peerStatus>>

(* on_trailers copies the trailers and posts them, also when a message has *)
(* been cut short.                                                         *)
PeerTrailers(s) ==
    /\ stream = "attached" /\ peerStatus = "none"
    /\ peerStatus' = s
    /\ strand' = Append(strand, [Task("trailers") EXCEPT !.s = s])
    /\ UNCHANGED <<hasReader, connVars, gateVars, queueVars, statusVars,
                   reader, userVars, stream, rst, sent, cut>>

(* on_close posts to the strand; the session frees the request object.  s  *)
(* is the status of the error code, as OnStreamClose derives it.           *)
StreamCloses(s) ==
    /\ stream \in Alive
    /\ stream' = IF s = "CANCELLED" THEN "cancelled" ELSE "closed"
    /\ strand' = Append(strand, [Task("close") EXCEPT !.s = s])
    /\ UNCHANGED <<hasReader, connVars, gateVars, queueVars, statusVars,
                   reader, userVars, rst, peerVars>>

-----------------------------------------------------------------------------
(* Strand tasks posted by those callbacks                                   *)

(* The messages that the bytes of t complete: the parser goes on with the  *)
(* one it has begun.                                                       *)
Completed(t) ==
    [i \in 1..(t.hi + 1 - t.lo) |-> IF i = 1 /\ partial # 0 THEN partial ELSE t.lo + i - 1]

(* Mutant: a message too many is counted.                                  *)
RunData_OffByOne ==
    /\ StartTask("data")
    /\ LET t == [Head(strand) EXCEPT !.hi = @ + 1] IN
           IF closed \/ ~hasReader
           THEN UNCHANGED <<buffer, reader, gateVars>>
           ELSE buffer' = buffer \o Completed(t) /\ Wake /\ UNCHANGED gateVars
    /\ UNCHANGED <<hasReader, connVars, partial, response, error, eos, statusVars,
                   userVars, wireVars>>

(* Mutant: the parser's state is not reset behind a message.               *)
RunData_KeepsPart ==
    /\ StartTask("data")
    /\ LET t == Head(strand) IN
           IF closed \/ ~hasReader
           THEN UNCHANGED <<partial, buffer, reader, gateVars>>
           ELSE /\ partial' = IF t.part = 0 THEN partial ELSE t.part
                /\ buffer' = buffer \o Completed(t) /\ Wake /\ UNCHANGED gateVars
    /\ UNCHANGED <<hasReader, connVars, response, error, eos, statusVars,
                   userVars, wireVars>>

(* The on_data task pushes the messages it completes, or keeps the last as *)
(* the response, fails the call at a header over the limit, and keeps the  *)
(* bytes of a message that goes on in the next DATA.                       *)
RunData ==
    /\ StartTask("data")
    /\ LET t == Head(strand) IN
           IF closed
           THEN UNCHANGED <<partial, buffer, response, reader, gateVars>>
           ELSE /\ partial' = t.part
                /\ IF hasReader /\ t.lo <= t.hi
                   THEN /\ buffer' = buffer \o Completed(t)
                        /\ Wake
                   ELSE UNCHANGED <<buffer, reader>>
                /\ response' = IF ~hasReader /\ t.lo <= t.hi
                               THEN Completed(t)[t.hi + 1 - t.lo]
                               ELSE response
                /\ IF t.s = "none" THEN UNCHANGED gateVars ELSE Fail(t.s)
    /\ UNCHANGED <<hasReader, connVars, error, eos, statusVars, userVars,
                   wireVars>>

(* The on_trailers task: it reads closed_ but does not set it.             *)
RunTrailers ==
    /\ StartTask("trailers")
    /\ IF closed
       THEN UNCHANGED <<trailersDone, final, eos, error, reader>>
       ELSE MaybeDeliverStatus(Head(strand).s)
    /\ UNCHANGED <<hasReader, connVars, gateVars, partial, buffer, response,
                   userVars, wireVars>>

(* The on_close task: untrack the call, then OnStreamClose.                *)
RunClose ==
    /\ StartTask("close")
    /\ active' = FALSE
    /\ IF closed
       THEN UNCHANGED gateVars
       ELSE /\ closed' = TRUE
            /\ timer' = IF timer = "armed" THEN "off" ELSE timer
            /\ ioc' = ioc \cup {Closure("close", IF trailersDone THEN "none" ELSE Head(strand).s)}
    /\ UNCHANGED <<hasReader, conn, pending, queueVars, statusVars, reader,
                   userVars, wireVars>>

-----------------------------------------------------------------------------
(* The user's coroutine                                                     *)

(* ClientContext::Cancel.  Before the submission has assigned the slot the *)
(* signal has no handler and nothing happens; after it, one task is        *)
(* queued.  Bound: the user cancels once.                                  *)
UserCancel ==
    /\ ~cancelAsked
    /\ stream # "none"
    /\ cancelAsked' = TRUE
    /\ strand' = Append(strand, Task("cancel"))
    /\ UNCHANGED <<hasReader, connVars, gateVars, queueVars, statusVars,
                   reader, call, received, readEnd, finish, wireVars>>

(* RawClientReader::Read enters Pop.                                       *)
Read ==
    /\ hasReader /\ call = "handle"
    /\ reader = "idle" /\ readEnd = "none" /\ finish = "none"
    /\ reader' = "check"
    /\ UNCHANGED <<hasReader, connVars, strand, gateVars, queueVars,
                   statusVars, userVars, wireVars>>

(* Mutant: the error is returned before what is buffered.                  *)
PopCheck_ErrorFirst ==
    /\ reader = "check"
    /\ \/ /\ error = "none" /\ ~eos /\ buffer # <<>>
          /\ received' = Append(received, Head(buffer))
          /\ buffer' = Tail(buffer)
          /\ reader' = "idle" /\ UNCHANGED readEnd
       \/ /\ error # "none" \/ eos
          /\ readEnd' = IF error # "none" THEN error ELSE "eos"
          /\ reader' = "idle" /\ UNCHANGED <<received, buffer>>
       \/ /\ buffer = <<>> /\ error = "none" /\ ~eos
          /\ reader' = IF OneThread THEN "waiting" ELSE "arm"
          /\ UNCHANGED <<received, buffer, readEnd>>
    /\ UNCHANGED <<hasReader, connVars, strand, gateVars, partial, error,
                   eos, response, statusVars, call, cancelAsked, finish, wireVars>>

(* One round of Pop's loop: a buffered message first, then the error, then *)
(* the end of stream.  With nothing to return it goes on to wait; another  *)
(* thread may run between the two unless there is only one.                *)
PopCheck ==
    /\ reader = "check"
    /\ \/ /\ buffer # <<>>
          /\ received' = Append(received, Head(buffer))
          /\ buffer' = Tail(buffer)
          /\ reader' = "idle" /\ UNCHANGED readEnd
       \/ /\ buffer = <<>> /\ (error # "none" \/ eos)
          /\ readEnd' = IF error # "none" THEN error ELSE "eos"
          /\ reader' = "idle" /\ UNCHANGED <<received, buffer>>
       \/ /\ buffer = <<>> /\ error = "none" /\ ~eos
          /\ reader' = IF OneThread THEN "waiting" ELSE "arm"
          /\ UNCHANGED <<received, buffer, readEnd>>
    /\ UNCHANGED <<hasReader, connVars, strand, gateVars, partial, error,
                   eos, response, statusVars, call, cancelAsked, finish, wireVars>>

(* Pop arms the timer that never fires and suspends on it.                 *)
PopArm ==
    /\ reader = "arm"
    /\ reader' = "waiting"
    /\ UNCHANGED <<hasReader, connVars, strand, gateVars, queueVars,
                   statusVars, userVars, wireVars>>

(* Finish polls status_ready_ every millisecond.                           *)
Finish ==
    /\ call = "handle" /\ reader = "idle" /\ finish = "none"
    /\ finish' = "polling"
    /\ UNCHANGED <<hasReader, connVars, strand, gateVars, queueVars,
                   statusVars, reader, call, cancelAsked, received, readEnd,
                   wireVars>>

(* Finish returns final_status_; FinishAndGetResponse turns an OK without  *)
(* a parsable response into INTERNAL.                                      *)
FinishReturns ==
    /\ finish = "polling" /\ final # "none"
    /\ \/ finish' = final /\ (final = "OK" => hasReader \/ response # 0)
       \/ finish' = "INTERNAL" /\ final = "OK" /\ ~hasReader
    /\ UNCHANGED <<hasReader, connVars, strand, gateVars, queueVars,
                   statusVars, reader, call, cancelAsked, received, readEnd,
                   wireVars>>

-----------------------------------------------------------------------------
Submit == SubmitQueued \/ SubmitMisconfigured \/ SubmitSettled

RunTask ==
    Submit \/ RunDeadline \/ RunCancel \/ RunData \/ RunTrailers \/ RunClose

RunClosure == RunReport \/ RunTrailersOnly

Pop == PopCheck \/ PopArm

ChannelEvent == Connected \/ ConnectFails \/ Goaway \/ DoShutdown

Peer ==
    \/ AttachRejects \/ Attach
    \/ \E s \in CloseStatus : StreamCloses(s)
    \/ \E s \in PeerStatus : AttachTrailersOnly(s) \/ PeerTrailers(s)
    \/ \E n \in 0..MaxMsgs, more \in BOOLEAN, s \in {"none", "BAD_RESPONSE"} :
          PeerData(n, more, s)

Next ==
    \/ StartCall \/ UserCancel \/ Read \/ Pop \/ Finish \/ FinishReturns
    \/ RunTask \/ RunClosure \/ TimerExpires
    \/ ChannelEvent \/ Peer

Safety == Init /\ [][Next]_vars

(* The threads of the io_context keep running what is posted to them and   *)
(* time passes; nothing is assumed of the peer, the connection or the      *)
(* user's next call.                                                       *)
Fairness ==
    /\ WF_vars(RunTask) /\ WF_vars(RunClosure) /\ WF_vars(TimerExpires)
    /\ WF_vars(Pop) /\ WF_vars(FinishReturns)

Spec == Safety /\ Fairness

-----------------------------------------------------------------------------
ConnOK ==
    /\ conn \in {"kIdle", "kConnecting", "kReady", "kFailed", "kShutdown"}
    /\ pending \in BOOLEAN /\ active \in BOOLEAN

Msg == 1..MaxMsgs

TaskType == [kind : {"submit", "cancel", "deadline", "data", "trailers", "close"},
             lo : 1..(MaxMsgs + 1), hi : 0..MaxMsgs, part : 0..MaxMsgs,
             s : Status \cup {"none"}]

GateOK ==
    /\ closed \in BOOLEAN /\ timer \in {"off", "armed", "fired"}
    /\ ioc \subseteq [kind : {"fail", "close", "trailersOnly"}, s : Status \cup {"none"}]

QueueOK ==
    /\ partial \in 0..MaxMsgs /\ buffer \in Seq(Msg) /\ response \in 0..MaxMsgs
    /\ error \in Status \cup {"none"} /\ eos \in BOOLEAN

StatusOK == trailersDone \in BOOLEAN /\ final \in Status \cup {"none"}

UserOK ==
    /\ hasReader \in BOOLEAN
    /\ call \in {"new", "submitted", "handle"} /\ cancelAsked \in BOOLEAN
    /\ reader \in {"idle", "check", "arm", "waiting"}
    /\ received \in Seq(Msg)
    /\ readEnd \in Status \cup {"none", "eos"}
    /\ finish \in Status \cup {"none", "polling"}

WireOK ==
    /\ stream \in Alive \cup Ended \cup {"none"}
    /\ rst \in BOOLEAN /\ peerStatus \in PeerStatus \cup {"none"}
    /\ sent \in 0..MaxMsgs /\ cut \in 0..MaxMsgs

TypeOK ==
    /\ ConnOK /\ strand \in Seq(TaskType) /\ GateOK /\ QueueOK /\ StatusOK
    /\ UserOK /\ WireOK

(* What the user has read, followed by what is buffered, is the messages   *)
(* the peer sent from the first one on, without a gap, a repetition or a   *)
(* swap, however DATA cuts them and whatever failed meanwhile; a message   *)
(* is handed over only when the peer has sent its end.                     *)
InOrder ==
    LET got == received \o buffer IN
        Len(got) <= sent /\ \A i \in 1..Len(got) : got[i] = i

(* A clean end of stream reaches the user only after every message the     *)
(* peer completed and only if the peer's status is OK (a message cut short *)
(* before the trailers is dropped without an error); a status the peer did *)
(* not send never reaches the user as the peer's; and CANCELLED is the     *)
(* user's wish, the channel's shutdown or the peer's reset.                *)
HonestEnd ==
    /\ readEnd = "eos" => peerStatus = "OK" /\ Len(received) = sent
    /\ {readEnd, finish} \cap PeerStatus \subseteq {peerStatus}
    /\ ~hasReader /\ finish = "OK" => response = sent /\ sent > 0
    /\ "CANCELLED" \in {readEnd, finish}
           => cancelAsked \/ conn = "kShutdown" \/ stream = "cancelled"

(* docs/concurrency.md, Completion-Gate Pattern: every call state has a    *)
(* single-fire gate, and of a deadline, a cancellation, a reset and the    *)
(* normal completion exactly one fires.  So final_status_, which the       *)
(* trailers and the closures of Fail and OnStreamClose write, is written   *)
(* once.                                                                   *)
StatusOnce == [][final # "none" => final' = final]_vars

(* Whatever the peer does, the call is ended by the close of its stream,   *)
(* with or without trailers, by an armed deadline, and by the channel's    *)
(* shutdown, be it active, queued, or still on its way to the strand.      *)
EndReported ==
    (stream \in Ended \/ timer = "armed" \/ (call # "new" /\ conn = "kShutdown"))
        ~> (final # "none")

(* A Read that is under way when the stream has closed returns.            *)
ReadReturns == (stream \in Ended /\ reader # "idle") ~> (reader = "idle")
=============================================================================
