------------------------------ MODULE Channel ------------------------------
(***************************************************************************)
(* One ChannelImpl and everything that meets on it: callers of Connect,    *)
(* unary and streaming calls, the session's callbacks and Shutdown.  What  *)
(* a single call does with its stream is in UnaryCall and StreamCall; here *)
(* a call is where the channel keeps it and what ended it.                 *)
(*                                                                         *)
(* All state belongs to the strand.  A handler on the strand is a stack of *)
(* steps (todo), because a Connect callback and the handle of a streaming  *)
(* call resume the user's coroutine inside the handler: until the next     *)
(* step, that coroutine may call the channel again, and dispatch() then    *)
(* runs the new operation at once, on top of the unfinished one.  A unary  *)
(* completion is posted to its own executor and resumes nobody here.       *)
(***************************************************************************)
EXTENDS Naturals, Sequences

CONSTANTS
    Unary,        \* unary calls
    Streaming,    \* server-streaming, client-streaming and bidirectional calls
    Waiters,      \* calls of Connect
    MaxId         \* bound: highest last_stream_id that a GOAWAY names

ASSUME ActorsAssumption ==
    Unary \cap Streaming = {} /\ (Unary \cup Streaming) \cap Waiters = {}
ASSUME MaxIdAssumption == MaxId \in Nat

Calls == Unary \cup Streaming

ConnState == {"kIdle", "kConnecting", "kReady", "kFailed", "kShutdown"}

(* "OK" is told to a Connect only.  "OWN" is a result the call reached by  *)
(* itself: trailers, deadline, cancellation; "CLOSED" what OnStreamClose   *)
(* makes of a stream without one; "NOT_SENT" a refusal of the submit.      *)
Status == {"OK", "OWN", "CLOSED", "NOT_SENT", "CONN_ERROR", "UNAVAILABLE",
           "CANCELLED", "INVALID_ARGUMENT"}

VARIABLES
    conn,         \* state_
    terminal,     \* terminal_status_ holds a TLS configuration error
    connecting,   \* connecting_session_ is not null
    session,      \* session_ is not null
    waiters,      \* connect_waiters_
    pending,      \* pending_calls_
    generic,      \* pending_generic_calls_
    active,       \* active_calls_ and active_streaming_calls_
    strand,       \* tasks posted to strand_
    todo,         \* steps the running handler still has to take
    inline,       \* a user's coroutine is running inside the handler
    asked,        \* calls and Connects the user has made
    answer,       \* the first status of each call and Connect
    id,           \* stream ids; 0 is none
    lastId,       \* highest stream id in use
    limit,        \* lowest last_stream_id of the GOAWAYs handled, MaxId + 1 for none
    link,         \* the session's connection
    lastSent      \* last_stream_id of the peer's latest GOAWAY

sessionVars == <<conn, terminal, connecting, session>>
queueVars   == <<waiters, pending, generic>>
streamVars  == <<active, id, lastId, limit>>
linkVars    == <<link, lastSent>>
vars == <<sessionVars, queueVars, streamVars, strand, todo, inline, asked, answer, linkVars>>

Init ==
    /\ conn = "kIdle" /\ terminal = FALSE /\ connecting = FALSE /\ session = FALSE
    /\ waiters = <<>> /\ pending = <<>> /\ generic = <<>>
    /\ active = {} /\ id = [c \in Calls |-> 0] /\ lastId = 0 /\ limit = MaxId + 1
    /\ strand = <<>> /\ todo = <<>> /\ inline = FALSE
    /\ asked = {} /\ answer = [x \in Calls \cup Waiters |-> "none"]
    /\ link = "none" /\ lastSent = MaxId + 1

(* A task of the strand or a step of a handler: what, for whom, and the    *)
(* status or last_stream_id that goes with it.                             *)
Task(k, x) == [kind |-> k, for |-> x]

Goaway(n) == [kind |-> "goaway", last |-> n]

Step(k, x, s) == [do |-> k, for |-> x, with |-> s]

Each(k, xs, s) == [i \in 1..Len(xs) |-> Step(k, xs[i], s)]

(* The completion gate of a call; a Connect is told once in any case.      *)
Answered(xs, s) ==
    [x \in Calls \cup Waiters |->
        IF x \in xs /\ answer[x] = "none" THEN s ELSE answer[x]]

ShutdownStatus == IF terminal THEN "INVALID_ARGUMENT" ELSE "CANCELLED"

-----------------------------------------------------------------------------
(* What the operations do to the channel, as parts of an action.  rest is  *)
(* what the handlers below on the stack still have to do.                  *)

(* DoConnect and, if TLS cannot be configured, DrainWithStatus.            *)
DoConnect(ws, rest) ==
    \/ /\ conn' = "kConnecting" /\ connecting' = TRUE /\ link' = "dialing"
       /\ waiters' = ws /\ todo' = rest
       /\ UNCHANGED <<terminal, session, lastSent>>
    \/ /\ conn' = "kShutdown" /\ terminal' = TRUE
       /\ waiters' = <<>>
       /\ todo' = Each("tell", ws, "INVALID_ARGUMENT")
                    \o <<Step("failAll", "none", "INVALID_ARGUMENT")>> \o rest
       /\ UNCHANGED <<connecting, session, linkVars>>

(* Connect, on the strand.                                                 *)
Connect(w, rest) ==
    /\ UNCHANGED <<pending, generic, streamVars>>
    /\ \/ /\ conn = "kIdle"
          /\ DoConnect(Append(waiters, w), rest)
          /\ inline' = FALSE /\ UNCHANGED answer
       \/ /\ conn = "kConnecting"
          /\ waiters' = Append(waiters, w) /\ todo' = rest
          /\ inline' = FALSE /\ UNCHANGED <<answer, sessionVars, linkVars>>
       \/ /\ conn \in {"kReady", "kFailed", "kShutdown"}
          /\ answer' = Answered({w}, CASE conn = "kReady"  -> "OK"
                                       [] conn = "kFailed" -> "UNAVAILABLE"
                                       [] OTHER            -> ShutdownStatus)
          /\ todo' = rest /\ inline' = TRUE
          /\ UNCHANGED <<sessionVars, waiters, linkVars>>

(* A submission ends here with s; a streaming call still gets its handle.  *)
Refuse(c, s, rest) ==
    /\ answer' = Answered({c}, s)
    /\ todo' = rest /\ inline' = (c \in Streaming)
    /\ UNCHANGED <<sessionVars, queueVars, streamVars, linkVars>>

(* Mutant: one queue for all submissions.                                  *)
Enqueue_OneQueue(c) == pending' = Append(pending, c) /\ UNCHANGED generic

Enqueue(c) ==
    IF c \in Unary THEN pending' = Append(pending, c) /\ UNCHANGED generic
                   ELSE generic' = Append(generic, c) /\ UNCHANGED pending

Queue(c, rest) ==
    /\ Enqueue(c)
    /\ inline' = FALSE
    /\ UNCHANGED <<answer, streamVars>>
    /\ IF conn = "kIdle"
       THEN DoConnect(waiters, rest)
       ELSE todo' = rest /\ UNCHANGED <<sessionVars, waiters, linkVars>>

(* session_->submit succeeds, and the stream is tracked by its id.         *)
Open(c, rest) ==
    /\ lastId' = lastId + 1
    /\ id' = [id EXCEPT ![c] = lastId']
    /\ active' = active \cup {c}
    /\ todo' = rest /\ inline' = (c \in Streaming)
    /\ UNCHANGED <<answer, limit, sessionVars, queueVars, linkVars>>

(* SubmitCall, SubmitServerStreamingCall and their siblings, on the        *)
(* strand.  A unary call that was cancelled meanwhile is dropped.          *)
Submit(c, rest) ==
    \/ /\ c \in Unary /\ answer[c] # "none"
       /\ Refuse(c, "OWN", rest)
    \/ /\ c \in Streaming \/ answer[c] = "none"
       /\ \/ conn = "kShutdown" /\ Refuse(c, ShutdownStatus, rest)
          \/ conn \in {"kIdle", "kConnecting"} /\ Queue(c, rest)
          \/ conn = "kFailed" /\ Refuse(c, "UNAVAILABLE", rest)
          \/ conn = "kReady" /\ Refuse(c, "NOT_SENT", rest)
          \/ conn = "kReady" /\ Open(c, rest)

(* Mutant: the maps of active streams are not failed.                      *)
DoShutdown_KeepsStreams(rest) ==
    /\ UNCHANGED <<terminal, pending, generic, streamVars, answer, lastSent>>
    /\ inline' = FALSE
    /\ IF conn = "kShutdown"
       THEN todo' = rest /\ UNCHANGED <<conn, connecting, session, waiters, link>>
       ELSE /\ conn' = "kShutdown" /\ connecting' = FALSE /\ session' = FALSE
            /\ link' = IF link = "none" THEN "none" ELSE "down"
            /\ waiters' = <<>>
            /\ todo' = Each("tell", waiters, "CANCELLED")
                         \o <<Step("failAll", "none", "CANCELLED")>> \o rest

(* DoShutdown closes both sessions and their callbacks, then answers       *)
(* everybody.                                                              *)
DoShutdown(rest) ==
    /\ UNCHANGED <<terminal, pending, generic, streamVars, answer, lastSent>>
    /\ inline' = FALSE
    /\ IF conn = "kShutdown"
       THEN todo' = rest /\ UNCHANGED <<conn, connecting, session, waiters, link>>
       ELSE /\ conn' = "kShutdown" /\ connecting' = FALSE /\ session' = FALSE
            /\ link' = IF link = "none" THEN "none" ELSE "down"
            /\ waiters' = <<>>
            /\ todo' = Each("tell", waiters, "CANCELLED")
                         \o <<Step("failActive", "none", "CANCELLED"),
                              Step("failAll", "none", "CANCELLED")>> \o rest

-----------------------------------------------------------------------------
(* The user, on any thread: the operation is posted to the strand.         *)

Post(t) == strand' = Append(strand, t)

UserCalls(c) ==
    /\ c \in Calls \ asked
    /\ asked' = asked \cup {c} /\ Post(Task("call", c))
    /\ UNCHANGED <<sessionVars, queueVars, streamVars, todo, inline, answer, linkVars>>

UserConnects(w) ==
    /\ w \in Waiters \ asked
    /\ asked' = asked \cup {w} /\ Post(Task("connect", w))
    /\ UNCHANGED <<sessionVars, queueVars, streamVars, todo, inline, answer, linkVars>>

(* Shutdown, or the destructor of the last Channel.                        *)
UserShutsDown ==
    /\ conn # "kShutdown"
    /\ \A i \in 1..Len(strand) : strand[i].kind # "shutdown"
    /\ Post(Task("shutdown", "none"))
    /\ UNCHANGED <<sessionVars, queueVars, streamVars, todo, inline, asked, answer,
                   linkVars>>

(* The coroutine resumed inside a handler calls the channel: dispatch()    *)
(* finds itself on the strand and runs the operation on the spot.          *)
InlineCall(c) ==
    /\ inline /\ c \in Calls \ asked
    /\ asked' = asked \cup {c}
    /\ Submit(c, todo)
    /\ UNCHANGED strand

InlineConnect(w) ==
    /\ inline /\ w \in Waiters \ asked
    /\ asked' = asked \cup {w}
    /\ Connect(w, todo)
    /\ UNCHANGED strand

InlineShutdown ==
    /\ inline /\ conn # "kShutdown"
    /\ DoShutdown(todo)
    /\ UNCHANGED <<strand, asked>>

(* The call's own state machine completes it: a cancellation at any time   *)
(* of a unary call; trailers or a deadline once it has a stream.           *)
CallEnds(c) ==
    /\ c \in asked /\ answer[c] = "none"
    /\ c \in Unary \/ id[c] # 0
    /\ answer' = Answered({c}, "OWN")
    /\ UNCHANGED <<sessionVars, queueVars, streamVars, strand, todo, inline, asked, linkVars>>

-----------------------------------------------------------------------------
(* The steps of a handler, taken before the strand's next task.            *)

TakeStep(k) == todo # <<>> /\ Head(todo).do = k

(* A Connect callback resumes its coroutine.                               *)
Tell ==
    /\ TakeStep("tell")
    /\ answer' = Answered({Head(todo).for}, Head(todo).with)
    /\ todo' = Tail(todo) /\ inline' = TRUE
    /\ UNCHANGED <<sessionVars, queueVars, streamVars, strand, asked, linkVars>>

(* A queued call is submitted again.                                       *)
Resubmit ==
    /\ TakeStep("submit")
    /\ Submit(Head(todo).for, Tail(todo))
    /\ UNCHANGED <<strand, asked>>

(* The end of DrainQueue on success: both queues are submitted.            *)
DrainQueue ==
    /\ TakeStep("drain")
    /\ pending' = <<>> /\ generic' = <<>>
    /\ todo' = Each("submit", pending, "none") \o Each("submit", generic, "none")
                 \o Tail(todo)
    /\ inline' = FALSE
    /\ UNCHANGED <<sessionVars, waiters, streamVars, strand, asked, answer, linkVars>>

(* FailAll completes the queued unary calls and runs the queued streaming  *)
(* submissions, which look at state_ for themselves.                       *)
FailAll ==
    /\ TakeStep("failAll")
    /\ answer' = Answered({pending[i] : i \in 1..Len(pending)}, Head(todo).with)
    /\ pending' = <<>> /\ generic' = <<>>
    /\ todo' = Each("submit", generic, "none") \o Tail(todo)
    /\ inline' = FALSE
    /\ UNCHANGED <<sessionVars, waiters, streamVars, strand, asked, linkVars>>

(* Mutant: the maps are cleared, their calls not completed.                *)
FailActive_ClearsOnly ==
    /\ TakeStep("failActive")
    /\ active' = {}
    /\ todo' = Tail(todo) /\ inline' = FALSE
    /\ UNCHANGED <<sessionVars, queueVars, id, lastId, limit, strand, asked, answer,
                   linkVars>>

(* DoShutdown fails what both maps hold and clears them.                   *)
FailActive ==
    /\ TakeStep("failActive")
    /\ answer' = Answered(active, Head(todo).with)
    /\ active' = {}
    /\ todo' = Tail(todo) /\ inline' = FALSE
    /\ UNCHANGED <<sessionVars, queueVars, id, lastId, limit, strand, asked, linkVars>>

-----------------------------------------------------------------------------
(* The tasks of the strand                                                  *)

StartTask(k) ==
    /\ todo = <<>> /\ strand # <<>> /\ Head(strand).kind = k
    /\ strand' = Tail(strand)

RunCall == StartTask("call") /\ Submit(Head(strand).for, <<>>) /\ UNCHANGED asked

RunConnect == StartTask("connect") /\ Connect(Head(strand).for, <<>>) /\ UNCHANGED asked

RunShutdown == StartTask("shutdown") /\ DoShutdown(<<>>) /\ UNCHANGED asked

(* Mutant: the waiters are told, the queues not submitted.                 *)
RunConnected_NoDrain ==
    /\ StartTask("connected")
    /\ connecting' = FALSE
    /\ inline' = FALSE
    /\ UNCHANGED <<terminal, pending, generic, streamVars, asked, answer, linkVars>>
    /\ IF conn = "kShutdown"
       THEN UNCHANGED <<conn, session, waiters, todo>>
       ELSE /\ session' = TRUE /\ conn' = "kReady"
            /\ waiters' = <<>>
            /\ todo' = Each("tell", waiters, "OK")

(* What on_connect posts: OnConnected and DrainQueue.                      *)
RunConnected ==
    /\ StartTask("connected")
    /\ connecting' = FALSE
    /\ inline' = FALSE
    /\ UNCHANGED <<terminal, pending, generic, streamVars, asked, answer, linkVars>>
    /\ IF conn = "kShutdown"
       THEN UNCHANGED <<conn, session, waiters, todo>>
       ELSE /\ session' = TRUE /\ conn' = "kReady"
            /\ waiters' = <<>>
            /\ todo' = Each("tell", waiters, "OK") \o <<Step("drain", "none", "none")>>

(* Mutant: a failed attempt tells the Connects and forgets the queues.     *)
RunError_KeepsQueues ==
    /\ StartTask("error")
    /\ inline' = FALSE
    /\ UNCHANGED <<terminal, session, pending, generic, streamVars, asked, answer, linkVars>>
    /\ \/ /\ conn \in {"kShutdown", "kReady"}
          /\ UNCHANGED <<conn, connecting, waiters, todo>>
       \/ /\ conn \notin {"kShutdown", "kReady"}
          /\ conn' = "kFailed" /\ connecting' = FALSE
          /\ waiters' = <<>>
          /\ todo' = Each("tell", waiters, "CONN_ERROR")

(* What on_error posts.  A ready channel only fails its queues, which are  *)
(* empty, and stays ready; any other but a shut down one has failed.       *)
RunError ==
    /\ StartTask("error")
    /\ inline' = FALSE
    /\ UNCHANGED <<terminal, session, pending, generic, streamVars, asked, answer, linkVars>>
    /\ \/ /\ conn = "kShutdown"
          /\ UNCHANGED <<conn, connecting, waiters, todo>>
       \/ /\ conn = "kReady"
          /\ todo' = <<Step("failAll", "none", "CONN_ERROR")>>
          /\ UNCHANGED <<conn, connecting, waiters>>
       \/ /\ conn \notin {"kShutdown", "kReady"}
          /\ conn' = "kFailed" /\ connecting' = FALSE
          /\ waiters' = <<>>
          /\ todo' = Each("tell", waiters, "CONN_ERROR")
                       \o <<Step("failAll", "none", "CONN_ERROR")>>

Unaccepted(n) == {c \in active : id[c] > n}

(* Mutant: the channel stays open for new streams.                         *)
RunGoaway_StaysReady ==
    /\ StartTask("goaway")
    /\ inline' = FALSE
    /\ UNCHANGED <<terminal, connecting, session, queueVars, id, lastId, asked, linkVars>>
    /\ IF conn = "kShutdown"
       THEN UNCHANGED <<conn, active, limit, answer, todo>>
       ELSE LET n == Head(strand).last IN
            /\ answer' = Answered(Unaccepted(n), "UNAVAILABLE")
            /\ active' = active \ Unaccepted(n)
            /\ limit' = IF n < limit THEN n ELSE limit
            /\ todo' = <<Step("failAll", "none", "UNAVAILABLE")>>
            /\ UNCHANGED conn

(* What on_goaway posts: OnGoaway fails the streams the peer has not seen. *)
RunGoaway ==
    /\ StartTask("goaway")
    /\ inline' = FALSE
    /\ UNCHANGED <<terminal, connecting, session, queueVars, id, lastId, asked, linkVars>>
    /\ IF conn = "kShutdown"
       THEN UNCHANGED <<conn, active, limit, answer, todo>>
       ELSE LET n == Head(strand).last IN
            /\ conn' = "kFailed"
            /\ answer' = Answered(Unaccepted(n), "UNAVAILABLE")
            /\ active' = active \ Unaccepted(n)
            /\ limit' = IF n < limit THEN n ELSE limit
            /\ todo' = <<Step("failAll", "none", "UNAVAILABLE")>>

(* What on_close posts: the call leaves its map and OnStreamClose runs.    *)
RunClose ==
    /\ StartTask("close")
    /\ active' = active \ {Head(strand).for}
    /\ answer' = Answered({Head(strand).for}, "CLOSED")
    /\ inline' = FALSE
    /\ UNCHANGED <<sessionVars, queueVars, id, lastId, limit, todo, asked, linkVars>>

-----------------------------------------------------------------------------
(* The session and the peer: its callbacks post.  DoShutdown has cleared   *)
(* them when the link is down.                                             *)

Report(t) ==
    /\ Post(t)
    /\ UNCHANGED <<sessionVars, queueVars, streamVars, todo, inline, asked, answer>>

LinkUp ==
    /\ link = "dialing" /\ link' = "up"
    /\ Report(Task("connected", "none"))
    /\ UNCHANGED lastSent

(* The connection cannot be made, or is lost.                              *)
LinkFails ==
    /\ link \in {"dialing", "up"} /\ link' = "down"
    /\ Report(Task("error", "none"))
    /\ UNCHANGED lastSent

(* A later GOAWAY never names a higher stream.                             *)
PeerGoesAway(n) ==
    /\ link = "up" /\ n < lastSent
    /\ lastSent' = n
    /\ Report(Goaway(n))
    /\ UNCHANGED link

StreamCloses(c) ==
    /\ id[c] # 0
    /\ \A i \in 1..Len(strand) : strand[i] # Task("close", c)
    /\ c \in active
    /\ Report(Task("close", c))
    /\ UNCHANGED linkVars

-----------------------------------------------------------------------------
User ==
    \/ \E c \in Calls : UserCalls(c) \/ InlineCall(c) \/ CallEnds(c)
    \/ \E w \in Waiters : UserConnects(w) \/ InlineConnect(w)
    \/ UserShutsDown \/ InlineShutdown

RunStep == Tell \/ Resubmit \/ DrainQueue \/ FailAll \/ FailActive

RunTask ==
    RunCall \/ RunConnect \/ RunShutdown \/ RunConnected \/ RunError \/ RunGoaway \/ RunClose

Peer ==
    \/ LinkUp \/ LinkFails
    \/ \E n \in 0..MaxId : PeerGoesAway(n)
    \/ \E c \in Calls : StreamCloses(c)

Next == User \/ RunStep \/ RunTask \/ Peer

Safety == Init /\ [][Next]_vars

(* The strand runs what is posted to it.  Nothing is assumed of the peer,  *)
(* of the connection or of the user.                                       *)
Spec == Safety /\ WF_vars(RunStep \/ RunTask)

-----------------------------------------------------------------------------
Settled == {"kReady", "kFailed", "kShutdown"}

TaskType ==
    [kind : {"call", "close"}, for : Calls] \cup [kind : {"connect"}, for : Waiters]
    \cup [kind : {"shutdown", "connected", "error"}, for : {"none"}]
    \cup [kind : {"goaway"}, last : 0..MaxId]

StepType ==
    [do : {"submit"}, for : Calls, with : {"none"}]
    \cup [do : {"drain"}, for : {"none"}, with : {"none"}]
    \cup [do : {"tell"}, for : Waiters, with : Status]
    \cup [do : {"failAll", "failActive"}, for : {"none"}, with : Status]

TypeOK ==
    /\ conn \in ConnState
    /\ terminal \in BOOLEAN /\ connecting \in BOOLEAN /\ session \in BOOLEAN
    /\ waiters \in Seq(Waiters) /\ pending \in Seq(Unary) /\ generic \in Seq(Streaming)
    /\ active \subseteq Calls /\ id \in [Calls -> Nat] /\ lastId \in Nat
    /\ limit \in 0..(MaxId + 1) /\ lastSent \in 0..(MaxId + 1)
    /\ strand \in Seq(TaskType) /\ todo \in Seq(StepType)
    /\ inline \in BOOLEAN /\ asked \subseteq Calls \cup Waiters
    /\ answer \in [Calls \cup Waiters -> Status \cup {"none"}]
    /\ link \in {"none", "dialing", "up", "down"}

(* The places where the channel can hold a call it owes an answer.         *)
Places(c) ==
    {<<"strand", i>> : i \in {j \in 1..Len(strand) : strand[j] = Task("call", c)}}
    \cup {<<"todo", i>> : i \in {j \in 1..Len(todo) : todo[j] = Step("submit", c, "none")}}
    \cup {<<"pending", i>> : i \in {j \in 1..Len(pending) : pending[j] = c}}
    \cup {<<"generic", i>> : i \in {j \in 1..Len(generic) : generic[j] = c}}
    \cup {<<"active", 0>> : a \in {c} \cap active}

(* Until it is answered, a call is in exactly one place: on its way to the *)
(* strand, in a queue, taken from one by the handler that drains it, or in *)
(* a map of active streams.  So it is neither lost nor submitted twice,    *)
(* however Shutdown, GOAWAY and a user called back in the middle of a      *)
(* drain interleave.                                                       *)
NeverForgotten ==
    \A c \in Calls \cap asked :
        answer[c] = "none" => \E p \in Places(c) : Places(c) = {p}

(* A channel that is no longer connecting holds nothing back once its      *)
(* handler has ended: the queues and the Connects are drained.  A ready    *)
(* one has the session that submit() is called on without a check, a shut  *)
(* down one has no stream and no session left.                             *)
SettledIsDrained ==
    conn \in Settled /\ todo = <<>>
        => /\ waiters = <<>> /\ pending = <<>> /\ generic = <<>>
           /\ conn = "kReady" => session
           /\ conn = "kShutdown" => active = {} /\ ~session /\ ~connecting

(* Once a GOAWAY has been handled, no stream above its last_stream_id is   *)
(* active, and none is opened later.                                       *)
GoawayHolds == limit <= MaxId => \A c \in active : id[c] <= limit

(* When the connection attempt is over, every Connect is answered and no   *)
(* call stays in a queue.                                                  *)
AttemptSettles ==
    (link \in {"up", "down"})
        ~> (\A x \in asked : answer[x] # "none" \/ (x \in Calls /\ id[x] # 0))

(* Shutdown answers every call, be it posted, queued or active, also those *)
(* that are made after it.                                                 *)
ShutdownAnswers ==
    (conn = "kShutdown") ~> (\A x \in asked : answer[x] # "none")

(* channel_impl.h: streams the peer accepted are left to complete or to be *)
(* closed by the connection error that follows; prompt.md: active calls    *)
(* fail predictably on connection failure.                                 *)
LossAnswers ==
    \A c \in Calls : (c \in active /\ link = "down") ~> (answer[c] # "none")
=============================================================================
