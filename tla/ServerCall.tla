----------------------------- MODULE ServerCall -----------------------------
(***************************************************************************)
(* One RPC of the server, of any of the four kinds: ServerCallState        *)
(* ("unary"), ServerStreamingCallState, ClientStreamingCallState and       *)
(* BidiStreamingCallState, with the reader and the writer their handlers   *)
(* use.                                                                    *)
(*                                                                         *)
(* Everything runs on the executor of the call's connection, one handler   *)
(* at a time: the nghttp2 callbacks (OnData, OnClose and the generator),   *)
(* the steps of the user's coroutine, the expired timer and the function   *)
(* that Cancel dispatches.  So each of them is one action, and what is     *)
(* hard is their order.                                                    *)
(***************************************************************************)
EXTENDS Naturals, Sequences

CONSTANTS
    MaxIn,    \* bound: DATA callbacks of the peer
    MaxOut    \* bound: messages the handler writes

ASSUME MaxInAssumption == MaxIn \in Nat
ASSUME MaxOutAssumption == MaxOut \in Nat

Kinds   == {"unary", "serverStream", "clientStream", "bidi"}
Reading == {"clientStream", "bidi"}     \* the handler has a RawServerReader
Writing == {"serverStream", "bidi"}     \* the handler has a RawServerWriter

(* "OK" and "APP" are the handler's; "BAD_REQUEST" stands for what         *)
(* metadata, encoding, framing and decompression report.                   *)
Status == {"OK", "APP", "BAD_REQUEST", "TOO_LARGE", "DEADLINE", "CANCELLED",
           "UNAVAILABLE"}

VARIABLES
    kind,       \* which call state HandleRequest has made
    \* the call state
    responded,  \* responded_
    closed,     \* closed_, and terminal_ with it
    timer,      \* timer_: "off", "armed" or "fired" (its handler is queued)
    cancelled,  \* ctx_.cancelled_
    dec,        \* decoder_, or parser_ of a reading call
    onData,     \* the DATA callback is registered
    posted,     \* functions posted to executor_
    \* RawServerReaderImpl
    buffer,     \* queue_.buffer_, messages by their number
    error,      \* queue_.error_
    eos,        \* queue_.eos_
    \* RawServerWriterImpl, or what SendResponse hands to its generator
    out,        \* frames for the generator, by their number
    finished,   \* finished_
    trail,      \* status in trail_hdrs_
    gen,        \* the generator: "none", "ready", "deferred" or "eof"
    \* the handler coroutine
    handler,    \* "none", "spawned", "running", inside Pop, or "done"
    returned,   \* its status
    received,   \* messages Read has returned
    readEnd,    \* what ended the reading: "eos", a status, or not yet
    written,    \* messages Write has accepted
    \* the peer, the deadline and the server
    stream,     \* "new", "open" or "closed"
    nData,      \* DATA callbacks so far
    sent,       \* messages the peer has sent
    halfClosed, \* the peer has sent END_STREAM
    deadline,   \* "none", "ahead" or "passed"
    shutdown,   \* Shutdown has called Cancel
    \* what the call has said on its stream
    heads,      \* write_head calls
    sentOut,    \* messages sent
    ends        \* statuses it was ended with, in trailers or trailers-only

gateVars    == <<responded, timer>>
queueVars   == <<buffer, error, eos>>
writerVars  == <<out, finished, trail, gen>>
handlerVars == <<returned, received, readEnd, written>>
peerVars    == <<stream, nData, sent, halfClosed>>
wireVars    == <<heads, sentOut, ends>>
vars == <<kind, gateVars, closed, cancelled, dec, onData, posted, queueVars,
          writerVars, handler, handlerVars, peerVars, deadline, shutdown,
          wireVars>>

Init ==
    /\ kind \in Kinds
    /\ responded = FALSE /\ closed = FALSE /\ timer = "off"
    /\ cancelled = FALSE /\ dec = "empty" /\ onData = FALSE /\ posted = {}
    /\ buffer = <<>> /\ error = "none" /\ eos = FALSE
    /\ out = <<>> /\ finished = FALSE /\ trail = "none" /\ gen = "none"
    /\ handler = "none" /\ returned = "none"
    /\ received = <<>> /\ readEnd = "none" /\ written = 0
    /\ stream = "new" /\ nData = 0 /\ sent = 0 /\ halfClosed = FALSE
    /\ deadline \in {"none", "ahead"} /\ shutdown = FALSE
    /\ heads = 0 /\ sentOut = <<>> /\ ends = <<>>

-----------------------------------------------------------------------------
(* What the call states share                                               *)

Disarmed == IF timer = "armed" THEN "off" ELSE timer   \* timer_.cancel()

(* Mutant: responded_ is not looked at.                                    *)
SendError_Ungated(s) ==
    /\ responded' = TRUE
    /\ timer' = Disarmed
    /\ heads' = heads + 1
    /\ ends' = Append(ends, s)

(* SendError: a trailers-only response, unless one has been begun.         *)
SendError(s) ==
    IF responded
    THEN UNCHANGED <<gateVars, heads, ends>>
    ELSE /\ responded' = TRUE
         /\ timer' = Disarmed
         /\ heads' = heads + 1
         /\ ends' = Append(ends, s)

(* StreamMessageQueue::Wake reaches a coroutine that is waiting in Pop.    *)
Woken == IF handler = "waiting" THEN "check" ELSE handler

SetError(s) == error' = s /\ handler' = Woken

(* resume(): the session pulls again from a generator that has deferred.   *)
Resumed == IF gen = "deferred" THEN "ready" ELSE gen

(* Mutant: the trailers are not built.                                     *)
WriterFinish_NoTrailers(s) ==
    IF finished
    THEN UNCHANGED <<finished, trail, gen>>
    ELSE finished' = TRUE /\ trail' = trail /\ gen' = Resumed

(* RawServerWriterImpl::Finish.                                            *)
WriterFinish(s) ==
    IF finished
    THEN UNCHANGED <<finished, trail, gen>>
    ELSE finished' = TRUE /\ trail' = s /\ gen' = Resumed

(* The response to a call that a failure ends before its handler does:     *)
(* through the writer if the headers are out, else trailers-only.          *)
EndWith(s) ==
    IF kind \in Writing /\ responded
    THEN WriterFinish(s) /\ UNCHANGED <<gateVars, heads, ends>>
    ELSE SendError(s) /\ UNCHANGED <<finished, trail, gen>>

(* The flag by which OnClose and Cancel tell that the response is settled. *)
Settled == IF kind \in Writing THEN finished ELSE responded

(* A reading call's failure also unblocks its Read.                        *)
Unblock(s) ==
    IF kind \in Reading THEN SetError(s) ELSE UNCHANGED <<error, handler>>

-----------------------------------------------------------------------------
(* Start                                                                    *)

(* Metadata over its limit, or an unknown encoding: no callback for DATA.  *)
StartRefused ==
    /\ stream = "new"
    /\ stream' = "open"
    /\ SendError("BAD_REQUEST")
    /\ UNCHANGED <<kind, closed, cancelled, dec, onData, posted, queueVars,
                   writerVars, handler, handlerVars, nData, sent, halfClosed,
                   deadline, shutdown, sentOut>>

(* Arm the timer, register OnData; a reading call spawns its handler now,  *)
(* and a bidirectional one sends its headers first.                        *)
Start ==
    /\ stream = "new"
    /\ stream' = "open"
    /\ timer' = IF deadline = "ahead" THEN "armed" ELSE timer
    /\ onData' = TRUE
    /\ handler' = IF kind \in Reading THEN "spawned" ELSE handler
    /\ IF kind = "bidi"
       THEN responded' = TRUE /\ heads' = heads + 1 /\ gen' = "ready"
       ELSE UNCHANGED <<responded, heads, gen>>
    /\ UNCHANGED <<kind, closed, cancelled, dec, posted, queueVars, out,
                   finished, trail, handlerVars, nData, sent, halfClosed,
                   deadline, shutdown, sentOut, ends>>

-----------------------------------------------------------------------------
(* The peer: DATA, END_STREAM and the close of the stream                   *)

Receives == stream = "open" /\ onData /\ ~halfClosed

(* FrameDecoder::Feed: exactly one message is allowed.                     *)
Feed(chunk) ==
    IF chunk = "bad" \/ dec \in {"done", "error"} THEN "error"
    ELSE IF chunk = "part" THEN "partial" ELSE "done"

(* OnData of a call with one request message.                              *)
OnRequest(chunk) ==
    /\ Receives /\ kind \notin Reading
    /\ nData < MaxIn
    /\ nData' = nData + 1
    /\ IF responded
       THEN UNCHANGED <<dec, gateVars, heads, ends>>
       ELSE /\ dec' = Feed(chunk)
            /\ IF dec' = "error"
               THEN SendError("BAD_REQUEST")
               ELSE UNCHANGED <<gateVars, heads, ends>>
    /\ UNCHANGED <<kind, closed, cancelled, onData, posted, queueVars,
                   writerVars, handler, handlerVars, stream, sent,
                   halfClosed, deadline, shutdown, sentOut>>

(* OnRequestEnd accepts a whole message and spawns the handler; the        *)
(* server-streaming one sends its headers first and gives up its timer.    *)
OnRequestEnd ==
    /\ Receives /\ kind \notin Reading
    /\ ~responded /\ dec = "done"
    /\ halfClosed' = TRUE
    /\ handler' = "spawned"
    /\ IF kind = "serverStream"
       THEN /\ responded' = TRUE /\ timer' = Disarmed
            /\ heads' = heads + 1 /\ gen' = "ready"
       ELSE UNCHANGED <<gateVars, heads, gen>>
    /\ UNCHANGED <<kind, closed, cancelled, dec, onData, posted, queueVars,
                   out, finished, trail, handlerVars, stream, nData, sent,
                   deadline, shutdown, sentOut, ends>>

(* OnRequestEnd refuses a request that is missing or cut short; a unary    *)
(* one may also fail to decompress.                                        *)
OnRequestBad ==
    /\ Receives /\ kind \notin Reading
    /\ responded \/ dec # "done" \/ kind = "unary"
    /\ halfClosed' = TRUE
    /\ SendError("BAD_REQUEST")
    /\ UNCHANGED <<kind, closed, cancelled, dec, onData, posted, queueVars,
                   writerVars, handler, handlerVars, stream, nData, sent,
                   deadline, shutdown, sentOut>>

Push(payloads) == buffer' = buffer \o payloads /\ handler' = Woken

(* The client-streaming state ignores DATA once it has responded.          *)
Ignores == kind = "clientStream" /\ responded

(* OnData of a reading call, with the bytes that complete a message.  A    *)
(* parser that has met a bad header keeps what it had read of it and is    *)
(* fed on: it makes payload 0 of bytes that are no frame, and it may or    *)
(* may not fall into step again for the message.                           *)
OnMessage ==
    /\ Receives /\ kind \in Reading
    /\ nData < MaxIn
    /\ nData' = nData + 1
    /\ sent' = sent + 1
    /\ \/ /\ Ignores
          /\ UNCHANGED <<buffer, handler, dec>>
       \/ /\ ~Ignores /\ dec # "error"
          /\ Push(<<sent'>>) /\ dec' = "empty"
       \/ /\ ~Ignores /\ dec = "error"
          /\ \/ \E payloads \in {<<0>>, <<0, sent'>>, <<sent'>>} : Push(payloads)
             \/ UNCHANGED <<buffer, handler>>
          /\ UNCHANGED dec
    /\ UNCHANGED <<kind, gateVars, closed, cancelled, onData, posted, error,
                   eos, writerVars, handlerVars, stream, halfClosed,
                   deadline, shutdown, wireVars>>

(* OnData of a reading call, with bytes that leave a message incomplete.   *)
OnPart ==
    /\ Receives /\ kind \in Reading
    /\ nData < MaxIn
    /\ nData' = nData + 1
    /\ dec' = IF Ignores \/ dec = "error" THEN dec ELSE "partial"
    /\ UNCHANGED <<kind, gateVars, closed, cancelled, onData, posted,
                   queueVars, writerVars, handler, handlerVars, stream, sent,
                   halfClosed, deadline, shutdown, wireVars>>

(* OnData of a reading call, with a header the parser refuses.             *)
OnBadHeader ==
    /\ Receives /\ kind \in Reading
    /\ nData < MaxIn
    /\ nData' = nData + 1
    /\ IF Ignores
       THEN UNCHANGED <<dec, error, handler, gateVars, finished, trail, gen,
                        heads, ends>>
       ELSE /\ dec' = "error"
            /\ SetError("BAD_REQUEST")
            /\ EndWith("BAD_REQUEST")
    /\ UNCHANGED <<kind, closed, cancelled, onData, posted, buffer, eos, out,
                   handlerVars, stream, sent, halfClosed, deadline, shutdown,
                   sentOut>>

(* OnData of a reading call with no bytes: the client has half-closed.     *)
(* Nothing asks the parser whether it is between frames.                   *)
OnHalfClose ==
    /\ Receives /\ kind \in Reading
    /\ halfClosed' = TRUE
    /\ IF Ignores
       THEN UNCHANGED <<eos, handler>>
       ELSE eos' = TRUE /\ handler' = Woken
    /\ UNCHANGED <<kind, gateVars, closed, cancelled, dec, onData, posted,
                   buffer, error, writerVars, handlerVars, stream, nData,
                   sent, deadline, shutdown, wireVars>>

(* Mutant: the reader is not told.                                         *)
OnClose_Silent ==
    /\ stream = "open"
    /\ stream' = "closed" /\ closed' = TRUE
    /\ timer' = Disarmed
    /\ responded' = (responded \/ kind \notin Writing)
    /\ finished' = (finished \/ kind \in Writing)
    /\ UNCHANGED <<kind, cancelled, error, handler, dec, onData, posted,
                   buffer, eos, out, trail, gen, handlerVars, nData, sent,
                   halfClosed, deadline, shutdown, wireVars>>

(* OnClose: a call whose response is not complete is cancelled, and the    *)
(* flag that stops its response is set: responded_, or the writer's.       *)
OnClose ==
    /\ stream = "open"
    /\ stream' = "closed" /\ closed' = TRUE
    /\ timer' = Disarmed
    /\ IF Settled
       THEN UNCHANGED <<cancelled, error, handler, responded, finished>>
       ELSE /\ cancelled' = TRUE
            /\ Unblock("CANCELLED")
            /\ responded' = (responded \/ kind \notin Writing)
            /\ finished' = (finished \/ kind \in Writing)
    /\ UNCHANGED <<kind, dec, onData, posted, buffer, eos, out, trail, gen,
                   handlerVars, nData, sent, halfClosed, deadline, shutdown,
                   wireVars>>

-----------------------------------------------------------------------------
(* The deadline and the server's Shutdown                                   *)

(* The client's deadline passes; an armed timer queues its handler.        *)
DeadlinePasses ==
    /\ deadline = "ahead" /\ stream # "new"
    /\ deadline' = "passed"
    /\ IF timer = "armed"
       THEN timer' = "fired" /\ posted' = posted \cup {"deadline"}
       ELSE UNCHANGED <<timer, posted>>
    /\ UNCHANGED <<kind, responded, closed, cancelled, dec, onData, queueVars,
                   writerVars, handler, handlerVars, peerVars, shutdown,
                   wireVars>>

(* ServerImpl::Shutdown calls Cancel, which dispatches to the executor.    *)
Shutdown ==
    /\ stream # "new" /\ ~shutdown
    /\ shutdown' = TRUE
    /\ posted' = posted \cup {"cancel"}
    /\ UNCHANGED <<kind, gateVars, closed, cancelled, dec, onData, queueVars,
                   writerVars, handler, handlerVars, peerVars, deadline,
                   wireVars>>

(* Mutant: the deadline does not respond.                                  *)
RunDeadline_OnlyCancels ==
    /\ "deadline" \in posted
    /\ posted' = posted \ {"deadline"}
    /\ cancelled' = TRUE
    /\ Unblock("DEADLINE")
    /\ UNCHANGED <<finished, trail, gen, gateVars, heads, ends>>
    /\ UNCHANGED <<kind, closed, dec, onData, buffer, eos, out, handlerVars,
                   peerVars, deadline, shutdown, sentOut>>

(* The timer's handler.  The server-streaming one leaves a response that   *)
(* has begun alone; the bidirectional one finishes it.                     *)
RunDeadline ==
    /\ "deadline" \in posted
    /\ posted' = posted \ {"deadline"}
    /\ cancelled' = TRUE
    /\ Unblock("DEADLINE")
    /\ IF kind = "bidi"
       THEN WriterFinish("DEADLINE") /\ UNCHANGED <<gateVars, heads, ends>>
       ELSE SendError("DEADLINE") /\ UNCHANGED <<finished, trail, gen>>
    /\ UNCHANGED <<kind, closed, dec, onData, buffer, eos, out, handlerVars,
                   peerVars, deadline, shutdown, sentOut>>

(* Mutant: headers that are out are ignored.                               *)
RunCancel_AlwaysTrailersOnly ==
    /\ "cancel" \in posted
    /\ posted' = posted \ {"cancel"}
    /\ cancelled' = TRUE
    /\ Unblock("UNAVAILABLE")
    /\ SendError("UNAVAILABLE") /\ UNCHANGED <<finished, trail, gen>>
    /\ UNCHANGED <<kind, closed, dec, onData, buffer, eos, out, handlerVars,
                   peerVars, deadline, shutdown, sentOut>>

(* The function that Cancel dispatched.                                    *)
RunCancel ==
    /\ "cancel" \in posted
    /\ posted' = posted \ {"cancel"}
    /\ IF closed \/ Settled
       THEN UNCHANGED <<cancelled, error, handler, finished, trail, gen,
                        gateVars, heads, ends>>
       ELSE /\ cancelled' = TRUE
            /\ Unblock("UNAVAILABLE")
            /\ EndWith("UNAVAILABLE")
    /\ UNCHANGED <<kind, closed, dec, onData, buffer, eos, out, handlerVars,
                   peerVars, deadline, shutdown, sentOut>>

-----------------------------------------------------------------------------
(* The handler coroutine                                                    *)

HandlerStarts ==
    /\ handler = "spawned"
    /\ handler' = "running"
    /\ UNCHANGED <<kind, gateVars, closed, cancelled, dec, onData, posted,
                   queueVars, writerVars, handlerVars, peerVars, deadline,
                   shutdown, wireVars>>

(* RawServerReader::Read enters Pop.  A handler stops at the end.          *)
Read ==
    /\ handler = "running" /\ kind \in Reading /\ readEnd = "none"
    /\ handler' = "check"
    /\ UNCHANGED <<kind, gateVars, closed, cancelled, dec, onData, posted,
                   queueVars, writerVars, handlerVars, peerVars, deadline,
                   shutdown, wireVars>>

(* Mutant: the end is returned before what is buffered.                    *)
PopCheck_EndFirst ==
    /\ handler = "check"
    /\ \/ /\ buffer # <<>> /\ ~eos
          /\ received' = Append(received, Head(buffer))
          /\ buffer' = Tail(buffer)
          /\ handler' = "running" /\ UNCHANGED readEnd
       \/ /\ eos \/ (buffer = <<>> /\ error # "none")
          /\ readEnd' = IF eos THEN "eos" ELSE error
          /\ handler' = "running" /\ UNCHANGED <<received, buffer>>
       \/ /\ buffer = <<>> /\ error = "none" /\ ~eos
          /\ handler' = "waiting" /\ UNCHANGED <<received, buffer, readEnd>>
    /\ UNCHANGED <<kind, gateVars, closed, cancelled, dec, onData, posted,
                   error, eos, writerVars, returned, written, peerVars,
                   deadline, shutdown, wireVars>>

(* A round of Pop: a message, then the error, then the end, else wait.     *)
PopCheck ==
    /\ handler = "check"
    /\ \/ /\ buffer # <<>>
          /\ received' = Append(received, Head(buffer))
          /\ buffer' = Tail(buffer)
          /\ handler' = "running" /\ UNCHANGED readEnd
       \/ /\ buffer = <<>> /\ (error # "none" \/ eos)
          /\ readEnd' = IF error # "none" THEN error ELSE "eos"
          /\ handler' = "running" /\ UNCHANGED <<received, buffer>>
       \/ /\ buffer = <<>> /\ error = "none" /\ ~eos
          /\ handler' = "waiting" /\ UNCHANGED <<received, buffer, readEnd>>
    /\ UNCHANGED <<kind, gateVars, closed, cancelled, dec, onData, posted,
                   error, eos, writerVars, returned, written, peerVars,
                   deadline, shutdown, wireVars>>

(* RawServerWriterImpl::Write: a message after Finish is refused, one over *)
(* the limit finishes the call.                                            *)
Write ==
    /\ handler = "running" /\ kind \in Writing
    /\ ~finished
    /\ \/ /\ written < MaxOut
          /\ written' = written + 1
          /\ out' = Append(out, written')
          /\ gen' = Resumed
          /\ UNCHANGED <<finished, trail>>
       \/ WriterFinish("TOO_LARGE") /\ UNCHANGED <<out, written>>
    /\ UNCHANGED <<kind, gateVars, closed, cancelled, dec, onData, posted,
                   queueVars, handler, returned, received, readEnd, peerVars,
                   deadline, shutdown, wireVars>>

(* Mutant: the handler's status is ignored.                                *)
StreamReturns_AlwaysOK(s) ==
    /\ handler = "running" /\ kind \in Writing
    /\ handler' = "done" /\ returned' = s
    /\ timer' = IF kind = "bidi" THEN Disarmed ELSE timer
    /\ WriterFinish("OK")
    /\ UNCHANGED <<kind, responded, closed, cancelled, dec, onData, posted,
                   queueVars, out, received, readEnd, written, peerVars,
                   deadline, shutdown, wireVars>>

(* The handler of a writing call returns or throws.  Only the              *)
(* bidirectional call state still has its timer to cancel.                 *)
StreamReturns(s) ==
    /\ handler = "running" /\ kind \in Writing
    /\ handler' = "done" /\ returned' = s
    /\ timer' = IF kind = "bidi" THEN Disarmed ELSE timer
    /\ WriterFinish(s)
    /\ UNCHANGED <<kind, responded, closed, cancelled, dec, onData, posted,
                   queueVars, out, received, readEnd, written, peerVars,
                   deadline, shutdown, wireVars>>

(* The handler of the other calls returns or throws, and SendResponse      *)
(* sends a failure, or a response over the limit, trailers-only, and an OK *)
(* with its message through a generator.                                   *)
HandlerReturns(s) ==
    /\ handler = "running" /\ kind \notin Writing
    /\ handler' = "done" /\ returned' = s
    /\ \/ responded /\ UNCHANGED <<gateVars, heads, ends, out, trail, gen>>
       \/ /\ ~responded
          /\ SendError(IF s = "OK" THEN "TOO_LARGE" ELSE s)
          /\ UNCHANGED <<out, trail, gen>>
       \/ /\ ~responded /\ s = "OK"
          /\ responded' = TRUE /\ timer' = Disarmed
          /\ heads' = heads + 1
          /\ out' = <<1>> /\ trail' = s /\ gen' = "ready"
          /\ UNCHANGED ends
    /\ UNCHANGED <<kind, closed, cancelled, dec, onData, posted, queueVars,
                   finished, received, readEnd, written, peerVars, deadline,
                   shutdown, sentOut>>

-----------------------------------------------------------------------------
(* The session pulls: the front frame, the trailers after the last one, or *)
(* nothing yet (the generator of SendResponse has its one frame and never  *)
(* waits).  A pull that takes a part of a frame only moves offset_;        *)
(* ClientWriter, whose generator is the same, models that.                 *)
Generate ==
    /\ stream = "open" /\ gen = "ready"
    /\ \/ /\ out # <<>>
          /\ sentOut' = Append(sentOut, Head(out))
          /\ out' = Tail(out) /\ UNCHANGED <<gen, ends>>
       \/ /\ out = <<>> /\ (kind \in Writing => finished)
          /\ ends' = Append(ends, trail) /\ gen' = "eof"
          /\ UNCHANGED <<out, sentOut>>
       \/ /\ out = <<>> /\ kind \in Writing /\ ~finished
          /\ gen' = "deferred" /\ UNCHANGED <<out, sentOut, ends>>
    /\ UNCHANGED <<kind, gateVars, closed, cancelled, dec, onData, posted,
                   queueVars, finished, trail, handler, handlerVars, peerVars,
                   deadline, shutdown, heads>>

OnData ==
    \/ \E chunk \in {"part", "rest", "bad"} : OnRequest(chunk)
    \/ OnRequestEnd \/ OnRequestBad
    \/ OnMessage \/ OnPart \/ OnBadHeader \/ OnHalfClose

RunTask == RunDeadline \/ RunCancel

(* The user's handler inside the adapter of Server::Register*, where a     *)
(* message that does not parse or serialise returns a failure too.         *)
Handler ==
    \/ HandlerStarts \/ Read \/ PopCheck \/ Write
    \/ \E s \in {"OK", "APP"} : StreamReturns(s) \/ HandlerReturns(s)

Next ==
    \/ StartRefused \/ Start
    \/ OnData \/ OnClose
    \/ DeadlinePasses \/ Shutdown \/ RunTask
    \/ Handler \/ Generate

Safety == Init /\ [][Next]_vars

(* The executor runs what is posted to it and the session pulls while the  *)
(* peer's window is open.  Nothing is assumed of the peer, and of the      *)
(* user's handler only that Pop runs once it has been woken.               *)
Spec ==
    /\ Safety
    /\ WF_vars(RunTask) /\ WF_vars(PopCheck) /\ WF_vars(Generate)

-----------------------------------------------------------------------------
Msg == 0..MaxIn

StateOK ==
    /\ kind \in Kinds /\ responded \in BOOLEAN /\ closed \in BOOLEAN
    /\ timer \in {"off", "armed", "fired"} /\ cancelled \in BOOLEAN
    /\ dec \in {"empty", "partial", "done", "error"} /\ onData \in BOOLEAN
    /\ posted \subseteq {"deadline", "cancel"}

QueueOK ==
    /\ buffer \in Seq(Msg) /\ error \in Status \cup {"none"} /\ eos \in BOOLEAN

WriterOK ==
    /\ out \in Seq(Nat) /\ finished \in BOOLEAN
    /\ trail \in Status \cup {"none"}
    /\ gen \in {"none", "ready", "deferred", "eof"}

HandlerOK ==
    /\ handler \in {"none", "spawned", "running", "check", "waiting", "done"}
    /\ returned \in {"none", "OK", "APP"}
    /\ received \in Seq(Msg) /\ readEnd \in Status \cup {"none", "eos"}
    /\ written \in 0..MaxOut

PeerOK ==
    /\ stream \in {"new", "open", "closed"} /\ nData \in 0..MaxIn
    /\ sent \in 0..MaxIn /\ halfClosed \in BOOLEAN
    /\ deadline \in {"none", "ahead", "passed"} /\ shutdown \in BOOLEAN

WireOK == heads \in Nat /\ sentOut \in Seq(Nat) /\ ends \in Seq(Status)

TypeOK ==
    /\ StateOK /\ QueueOK /\ WriterOK /\ HandlerOK /\ PeerOK /\ WireOK

(* Whatever races to answer a call (the handler's return, a bad request,   *)
(* the deadline, Shutdown), its headers are written once, it is ended at   *)
(* most once, and nothing follows the end.                                 *)
OneResponse ==
    /\ heads <= 1 /\ Len(ends) <= heads
    /\ ends # <<>> => out = <<>>

(* OK is sent only for a handler that returned OK and after every message  *)
(* it wrote, each once and in order; and a deadline or a shutdown is       *)
(* reported only if there was one.                                         *)
HonestEnd ==
    /\ ends = <<"OK">> =>
           /\ returned = "OK"
           /\ Len(sentOut) = (IF kind \in Writing THEN written ELSE 1)
    /\ \A i \in 1..Len(sentOut) : sentOut[i] = i
    /\ ends = <<"DEADLINE">> => deadline = "passed"
    /\ ends = <<"UNAVAILABLE">> => shutdown

(* The handler reads the messages of the peer in order and without a gap,  *)
(* and sees a clean end only after the last one.  In a bidirectional call  *)
(* that has met a bad header, what follows may have gaps and payloads of   *)
(* no message, but the messages keep their order and no clean end follows. *)
RequestInOrder ==
    LET got == received \o buffer IN
    /\ dec # "error" => \A i \in 1..Len(got) : got[i] = i
    /\ \A i, j \in 1..Len(got) : i < j /\ got[i] # 0 /\ got[j] # 0 => got[i] < got[j]
    /\ readEnd = "eos" => halfClosed /\ Len(received) = sent /\ dec # "error"

(* Cancelling a call at shutdown ends its stream, or finds it closed.      *)
CancelEnds == ("cancel" \in posted) ~> (ends # <<>> \/ closed)

(* A deadline that fires ends the stream as well, whatever raced with it,  *)
(* except that a server-streaming call whose request was complete before   *)
(* the timer's handler ran is left to the user's handler.                  *)
DeadlineEnds ==
    LET leftToHandler == kind = "serverStream" /\ handler # "none" IN
    (timer = "fired") ~> (ends # <<>> \/ closed \/ leftToHandler)

(* A handler that waits for a message when the stream closes is released,  *)
(* unless a response over the limit had already finished the call.         *)
ReadReleased ==
    (handler = "waiting" /\ closed /\ trail # "TOO_LARGE") ~> (handler # "waiting")

(* docs/concurrency.md, Cancellation, Server, 3: the server does not send  *)
(* a response on a stream that has been reset.                             *)
SilentAfterClose == [][closed => UNCHANGED wireVars]_vars
=============================================================================
