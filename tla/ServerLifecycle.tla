-------------------------- MODULE ServerLifecycle --------------------------
(***************************************************************************)
(* One ServerImpl: Start, its failure and its cleanup, HandleRequest up to *)
(* the start of a call, Shutdown, FinishShutdown and Wait.  What a call    *)
(* does with its stream is in ServerCall; here it is one of the phases     *)
(*                                                                         *)
(*   none -> checked -> open -> closed -> gone,  or none -> refused        *)
(*                                                                         *)
(* checked: HandleRequest has passed the test of shutdown_; open: tracked  *)
(* and started; closed: OnClose has run (IsTerminal); gone: the handler    *)
(* has returned and active_calls_ holds an expired pointer.                *)
(*                                                                         *)
(* Start runs on the application's thread, Shutdown in a handler or on any *)
(* other thread and at any time, and everything else on the io_context: a  *)
(* private one with Workers, or the caller's, which any number of threads  *)
(* may run and which the caller may stop.                                  *)
(*                                                                         *)
(* Assumption: nobody calls Wait while Start runs, for docs/concurrency.md *)
(* lists Start as not thread-safe.  NotStarting states it; the code has no *)
(* such test, and a Wait inside a failing Start would take the threads     *)
(* that its cleanup is to join.                                            *)
(***************************************************************************)
EXTENDS Naturals, FiniteSets

CONSTANTS
    Calls,     \* streams the peers open
    Workers    \* threads of a private io_context: num_threads

ASSUME WorkersAssumption == IsFiniteSet(Workers)

Waiters == {"application", "handler", "cleanup"}

VARIABLES
    private,     \* num_threads is not 0
    started,     \* started_
    listening,   \* listening_
    shutdown,    \* shutdown_
    guard,       \* work_guard_ is held
    threads,     \* threads_
    alive,       \* workers inside ioc_.run()
    tracked,     \* active_calls_
    start,       \* where Start is
    stopper,     \* where the Shutdown that won the exchange is
    collected,   \* its vector of calls
    wait,        \* where each caller of Wait is
    joining,     \* its vector of threads
    phase,       \* of each call
    cancels,     \* Cancel()s on their way to a call's executor
    cancelled,   \* calls that Shutdown has cancelled
    finish,      \* FinishShutdown: posted, waiting for its timer, or neither
    deadline,    \* its deadline: not computed, ahead or passed
    transport,   \* http2_
    stops,       \* calls of http2_.stop()
    iocStopped   \* the caller has stopped the context

startVars   == <<private, started, start>>
flagVars    == <<listening, guard, transport, stops>>
threadVars  == <<threads, alive, wait, joining>>
callVars    == <<tracked, phase, cancels, cancelled>>
stopperVars == <<shutdown, stopper, collected>>
finishVars  == <<finish, deadline>>
vars == <<startVars, flagVars, threadVars, callVars, stopperVars, finishVars, iocStopped>>

Init ==
    /\ private \in BOOLEAN /\ guard = private
    /\ started = FALSE /\ listening = FALSE /\ shutdown = FALSE
    /\ threads = {} /\ alive = {}
    /\ tracked = {} /\ phase = [c \in Calls |-> "none"]
    /\ cancels = {} /\ cancelled = {}
    /\ start = "idle" /\ stopper = "no" /\ collected = {}
    /\ wait = [w \in Waiters |-> "no"] /\ joining = [w \in Waiters |-> {}]
    /\ finish = "no" /\ deadline = "none"
    /\ transport = "none" /\ stops = 0 /\ iocStopped = FALSE

-----------------------------------------------------------------------------
(* Mutant: listening_ is tested and not taken.                             *)
StopTransport_NoExchange ==
    /\ IF listening THEN stops' = stops + 1 /\ transport' = "stopped"
                    ELSE UNCHANGED <<stops, transport>>
    /\ guard' = FALSE
    /\ UNCHANGED listening

(* Mutant: the work guard stays.                                           *)
StopTransport_KeepsGuard ==
    /\ listening' = FALSE
    /\ IF listening THEN stops' = stops + 1 /\ transport' = "stopped"
                    ELSE UNCHANGED <<stops, transport>>
    /\ UNCHANGED guard

(* shutdown_timer_.cancel() is left to the action, where FinishShutdown    *)
(* may be waiting.                                                         *)
StopTransport ==
    /\ listening' = FALSE
    /\ IF listening THEN stops' = stops + 1 /\ transport' = "stopped"
                    ELSE UNCHANGED <<stops, transport>>
    /\ guard' = FALSE

(* A wait that is cancelled does not call FinishShutdown, unless it was    *)
(* over and its handler queued already.                                    *)
TimerCancelled == finish' \in IF finish = "timer" THEN {"no", "posted"} ELSE {finish}

-----------------------------------------------------------------------------
(* Start.  A failure before listen_and_serve has succeeded is ResolvePort, *)
(* the TLS files or the listen; the only other one is a thread that cannot *)
(* be created.                                                             *)

StartImpl ==
    /\ start = "idle" /\ ~started
    /\ started' = TRUE
    /\ \/ start' = "cleanup" /\ UNCHANGED transport
       \/ start' = "bound" /\ transport' = "listening"
    /\ UNCHANGED <<private, listening, guard, stops, threadVars, callVars, stopperVars,
                   finishVars, iocStopped>>

SetListening ==
    /\ start = "bound"
    /\ listening' = TRUE /\ start' = "spawn"
    /\ UNCHANGED <<private, started, guard, transport, stops, threadVars, callVars,
                   stopperVars, finishVars, iocStopped>>

Spawn ==
    /\ start = "spawn" /\ private /\ threads # Workers
    /\ \/ \E w \in Workers \ threads :
             /\ threads' = threads \cup {w} /\ alive' = alive \cup {w}
             /\ UNCHANGED start
       \/ start' = "cleanup" /\ UNCHANGED <<threads, alive>>
    /\ UNCHANGED <<private, started, flagVars, wait, joining, callVars, stopperVars,
                   finishVars, iocStopped>>

StartReturns ==
    /\ start = "spawn" /\ (private => threads = Workers)
    /\ start' = "done"
    /\ UNCHANGED <<private, started, flagVars, threadVars, callVars, stopperVars, finishVars,
                   iocStopped>>

CleanupStops ==
    /\ start = "cleanup"
    /\ StopTransport /\ TimerCancelled
    /\ start' = "cleanupWait"
    /\ UNCHANGED <<private, started, threadVars, callVars, stopperVars, deadline, iocStopped>>

-----------------------------------------------------------------------------
(* Wait, by the application or the destructor, in a handler on one of the  *)
(* workers, or at the end of a failed Start.  NotStarting is the caller's  *)
(* obligation.                                                             *)

TakeThreads(w, own) ==
    /\ wait' = [wait EXCEPT ![w] = "joining"]
    /\ joining' = [joining EXCEPT ![w] = threads \ own]
    /\ threads' = {}
    /\ UNCHANGED <<startVars, flagVars, alive, callVars, stopperVars, finishVars, iocStopped>>

NotStarting == start \in {"idle", "done", "failed"}

WaitBegins ==
    /\ wait["application"] = "no" /\ NotStarting
    /\ TakeThreads("application", {})

(* The handler's own thread is detached.                                   *)
HandlerWaits ==
    /\ wait["handler"] = "no" /\ NotStarting /\ private
    /\ \E c \in Calls : phase[c] = "open"
    /\ \E w \in alive : TakeThreads("handler", {w})

CleanupWaits ==
    /\ start = "cleanupWait" /\ wait["cleanup"] = "no"
    /\ TakeThreads("cleanup", {})

(* Mutant: Start returns without joining.                                  *)
WaitReturns_Early(w) ==
    /\ wait[w] = "joining"
    /\ wait' = [wait EXCEPT ![w] = "done"]
    /\ start' = IF w = "cleanup" THEN "failed" ELSE start
    /\ UNCHANGED <<private, started, flagVars, threads, alive, joining, callVars, stopperVars,
                   finishVars, iocStopped>>

WaitReturns(w) ==
    /\ wait[w] = "joining" /\ joining[w] \cap alive = {}
    /\ wait' = [wait EXCEPT ![w] = "done"]
    /\ start' = IF w = "cleanup" THEN "failed" ELSE start
    /\ UNCHANGED <<private, started, flagVars, threads, alive, joining, callVars, stopperVars,
                   finishVars, iocStopped>>

-----------------------------------------------------------------------------
(* The io_context                                                          *)

IoRuns == IF private THEN alive # {} ELSE ~iocStopped

(* A handler inside Wait counts as work of its context, as does every call *)
(* that is not gone; ioc_.run() returns when there is none.                *)
Idle ==
    /\ ~guard /\ transport \in {"none", "stopped"}
    /\ finish = "no" /\ cancels = {}
    /\ wait["handler"] # "joining"
    /\ \A c \in Calls : phase[c] \in {"none", "refused", "gone"}

WorkerExits(w) ==
    /\ w \in alive /\ Idle
    /\ alive' = alive \ {w}
    /\ UNCHANGED <<startVars, flagVars, threads, wait, joining, callVars, stopperVars,
                   finishVars, iocStopped>>

(* HandleRequest: the server is shutting down, or the method, the headers  *)
(* or the path are refused; or the call is let in.                         *)
HandleRequest(c) ==
    /\ IoRuns /\ transport \in {"listening", "draining"} /\ phase[c] = "none"
    /\ \/ phase' = [phase EXCEPT ![c] = "refused"]
       \/ ~shutdown /\ phase' = [phase EXCEPT ![c] = "checked"]
    /\ UNCHANGED <<startVars, flagVars, threadVars, tracked, cancels, cancelled, stopperVars,
                   finishVars, iocStopped>>

TrackCall(c) ==
    /\ IoRuns /\ phase[c] = "checked"
    /\ tracked' = {d \in tracked : phase[d] # "gone"} \cup {c}
    /\ phase' = [phase EXCEPT ![c] = "open"]
    /\ UNCHANGED <<startVars, flagVars, threadVars, cancels, cancelled, stopperVars,
                   finishVars, iocStopped>>

OnClose(c) ==
    /\ IoRuns /\ phase[c] = "open"
    /\ phase' = [phase EXCEPT ![c] = "closed"]
    /\ UNCHANGED <<startVars, flagVars, threadVars, tracked, cancels, cancelled, stopperVars,
                   finishVars, iocStopped>>

HandlerReturns(c) ==
    /\ IoRuns /\ phase[c] = "closed" /\ c \notin cancels \cup collected
    /\ phase' = [phase EXCEPT ![c] = "gone"]
    /\ UNCHANGED <<startVars, flagVars, threadVars, tracked, cancels, cancelled, stopperVars,
                   finishVars, iocStopped>>

(* Cancel, on the call's executor.                                         *)
RunCancel(c) ==
    /\ IoRuns /\ c \in cancels
    /\ cancels' = cancels \ {c}
    /\ cancelled' = cancelled \cup (IF phase[c] = "open" THEN {c} ELSE {})
    /\ UNCHANGED <<startVars, flagVars, threadVars, tracked, phase, stopperVars, finishVars,
                   iocStopped>>

CallerStops ==
    /\ ~private /\ ~iocStopped
    /\ iocStopped' = TRUE
    /\ UNCHANGED <<startVars, flagVars, threadVars, callVars, stopperVars, finishVars>>

-----------------------------------------------------------------------------
(* Shutdown                                                                *)

ShutdownBegins ==
    /\ stopper = "no"
    /\ shutdown' = TRUE /\ stopper' = "listening"
    /\ UNCHANGED <<startVars, flagVars, threadVars, callVars, collected, finishVars,
                   iocStopped>>

StopListening ==
    /\ stopper = "listening"
    /\ stopper' = "collect"
    /\ transport' = IF listening /\ transport = "listening" THEN "draining" ELSE transport
    /\ UNCHANGED <<startVars, listening, guard, stops, threadVars, callVars, shutdown,
                   collected, finishVars, iocStopped>>

CollectCalls ==
    /\ stopper = "collect"
    /\ collected' = {c \in tracked : phase[c] # "gone"}
    /\ tracked' = {}
    /\ stopper' = "cancel"
    /\ UNCHANGED <<startVars, flagVars, threadVars, phase, cancels, cancelled, shutdown,
                   finishVars, iocStopped>>

(* Mutant: active_calls_ is cleared when the calls have been told.         *)
CancelCalls_ThenClears ==
    /\ stopper = "cancel"
    /\ cancels' = cancels \cup collected
    /\ collected' = {} /\ tracked' = {}
    /\ stopper' = "end"
    /\ UNCHANGED <<startVars, flagVars, threadVars, phase, cancelled, shutdown, finishVars,
                   iocStopped>>

CancelCalls ==
    /\ stopper = "cancel"
    /\ cancels' = cancels \cup collected
    /\ collected' = {}
    /\ stopper' = "end"
    /\ UNCHANGED <<startVars, flagVars, threadVars, tracked, phase, cancelled, shutdown,
                   finishVars, iocStopped>>

ShutdownEnds ==
    /\ stopper = "end" /\ stopper' = "done"
    /\ UNCHANGED <<startVars, threadVars, callVars, shutdown, collected, deadline, iocStopped>>
    /\ \/ /\ ~listening
          /\ guard' = FALSE
          /\ UNCHANGED <<listening, transport, stops, finish>>
       \/ /\ listening /\ iocStopped
          /\ StopTransport /\ UNCHANGED finish
       \/ /\ listening /\ ~iocStopped
          /\ finish' = "posted"
          /\ UNCHANGED flagVars

(* Mutant: the calls are waited for without a deadline.                    *)
FinishShutdown_NoDeadline ==
    /\ IoRuns /\ finish \in {"posted", "timer"}
    /\ tracked' = {c \in tracked : phase[c] \notin {"closed", "gone"}}
    /\ deadline' = IF deadline = "none" THEN "ahead" ELSE deadline
    /\ IF tracked' = {}
       THEN StopTransport /\ finish' = "no"
       ELSE finish' = "timer" /\ UNCHANGED flagVars
    /\ UNCHANGED <<startVars, threadVars, phase, cancels, cancelled, stopperVars, iocStopped>>

FinishShutdown ==
    /\ IoRuns /\ finish \in {"posted", "timer"}
    /\ tracked' = {c \in tracked : phase[c] \notin {"closed", "gone"}}
    /\ deadline' = IF deadline = "none" THEN "ahead" ELSE deadline
    /\ IF tracked' = {} \/ deadline = "passed"
       THEN StopTransport /\ finish' = "no"
       ELSE finish' = "timer" /\ UNCHANGED flagVars
    /\ UNCHANGED <<startVars, threadVars, phase, cancels, cancelled, stopperVars, iocStopped>>

(* The grace period runs out.                                              *)
GraceEnds ==
    /\ deadline = "ahead" /\ deadline' = "passed"
    /\ UNCHANGED <<startVars, flagVars, threadVars, callVars, stopperVars, finish, iocStopped>>

-----------------------------------------------------------------------------
StartStep == StartImpl \/ SetListening \/ Spawn \/ StartReturns \/ CleanupStops \/ CleanupWaits

ShutdownStep == StopListening \/ CollectCalls \/ CancelCalls \/ ShutdownEnds

Next ==
    \/ StartStep \/ ShutdownBegins \/ ShutdownStep
    \/ WaitBegins \/ HandlerWaits \/ \E w \in Waiters : WaitReturns(w)
    \/ \E c \in Calls :
          HandleRequest(c) \/ TrackCall(c) \/ OnClose(c) \/ HandlerReturns(c) \/ RunCancel(c)
    \/ \E w \in Workers : WorkerExits(w)
    \/ FinishShutdown \/ GraceEnds \/ CallerStops

Safety == Init /\ [][Next]_vars

(* Threads that are inside Start or Shutdown go on, the io_context runs    *)
(* what is ready and time passes.  A stopped transport closes its streams, *)
(* and a handler whose stream is closed returns, as concurrency.md asks.   *)
(* Nobody need call Start, Shutdown or Wait.                               *)
Spec ==
    /\ Safety
    /\ WF_vars(start # "idle" /\ StartStep) /\ WF_vars(ShutdownStep)
    /\ \A w \in Waiters : WF_vars(WaitReturns(w))
    /\ \A w \in Workers : WF_vars(WorkerExits(w))
    /\ \A c \in Calls :
        /\ WF_vars(TrackCall(c)) /\ WF_vars(RunCancel(c)) /\ WF_vars(HandlerReturns(c))
        /\ WF_vars(transport = "stopped" /\ OnClose(c))
    /\ WF_vars(FinishShutdown) /\ WF_vars(GraceEnds)

-----------------------------------------------------------------------------
TypeOK ==
    /\ private \in BOOLEAN /\ started \in BOOLEAN /\ listening \in BOOLEAN
    /\ shutdown \in BOOLEAN /\ guard \in BOOLEAN /\ iocStopped \in BOOLEAN
    /\ threads \subseteq Workers /\ alive \subseteq Workers
    /\ tracked \subseteq Calls /\ collected \subseteq Calls
    /\ cancels \subseteq Calls /\ cancelled \subseteq Calls
    /\ start \in {"idle", "bound", "spawn", "done", "cleanup", "cleanupWait", "failed"}
    /\ stopper \in {"no", "listening", "collect", "cancel", "end", "done"}
    /\ wait \in [Waiters -> {"no", "joining", "done"}]
    /\ joining \in [Waiters -> SUBSET Workers]
    /\ phase \in [Calls -> {"none", "refused", "checked", "open", "closed", "gone"}]
    /\ finish \in {"no", "posted", "timer"} /\ deadline \in {"none", "ahead", "passed"}
    /\ transport \in {"none", "listening", "draining", "stopped"}
    /\ stops \in {0, 1}

(* http2_.stop(), which must not be called on a server that is not         *)
(* listening, is called at most once and exactly when the transport was    *)
(* stopped, though FinishShutdown, Shutdown on a stopped context and the   *)
(* cleanup of a failed Start may all reach it.                             *)
StopOnce ==
    /\ stops = IF transport = "stopped" THEN 1 ELSE 0
    /\ listening => transport \in {"listening", "draining"}

(* A call that is open once Shutdown has emptied active_calls_ was         *)
(* collected, and so is or will be cancelled, or it was tracked later and  *)
(* FinishShutdown watches it.                                              *)
NoCallForgotten ==
    stopper \in {"cancel", "end", "done"}
        => \A c \in Calls : phase[c] = "open"
                               => c \in collected \cup cancels \cup cancelled \cup tracked

(* A Start that has failed leaves no thread, no work guard and no          *)
(* listening socket behind, whichever step of Shutdown came in between and *)
(* as long as nobody else calls Wait during Start.                         *)
FailedStartIsClean ==
    start = "failed" => alive = {} /\ ~guard /\ ~listening /\ transport # "listening"

(* A server that Shutdown has stopped from accepting is stopped for good,  *)
(* at the latest when its grace period is over and whatever its calls do,  *)
(* unless the caller stops the context first.                              *)
ShutdownStops == (transport = "draining") ~> (transport = "stopped" \/ iocStopped)

(* After that Shutdown, Wait returns to the application.                   *)
ApplicationReturns ==
    (wait["application"] = "joining" /\ transport \in {"draining", "stopped"})
        ~> (wait["application"] = "done")
=============================================================================
