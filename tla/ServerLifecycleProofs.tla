----------------------- MODULE ServerLifecycleProofs -----------------------
(***************************************************************************)
(* What TLC checks of ServerLifecycle for two calls and two workers,       *)
(* proved for any sets of calls and workers: the types, that http2_ is     *)
(* stopped once, that Shutdown forgets no call, and that a failed Start    *)
(* leaves nothing behind.                                                  *)
(***************************************************************************)
EXTENDS ServerLifecycle, TLAPS

-----------------------------------------------------------------------------
(* The inductive invariants                                                 *)

(* The transport follows Start: nothing listens before it, listening_ is   *)
(* still to be set right after listen_and_serve, and later the two agree.  *)
TransportInv ==
    /\ start = "idle" => transport = "none"
    /\ start \in {"idle", "bound"} => ~listening
    /\ start = "bound" => transport = "listening"
    /\ transport = "listening" => listening \/ start = "bound"
    /\ start \in {"cleanupWait", "failed"} => ~listening /\ ~guard

(* Threads that Start has made are still its own while it cleans up, then  *)
(* in the hands of its own Wait, however many have returned meanwhile.     *)
ThreadInv ==
    /\ start \in {"idle", "bound"} => threads = {} /\ alive = {}
    /\ start \in {"spawn", "cleanup"} => alive \subseteq threads
    /\ start = "cleanupWait" /\ wait["cleanup"] = "no" => alive \subseteq threads
    /\ start = "cleanupWait" /\ wait["cleanup"] = "joining" => alive \subseteq joining["cleanup"]
    /\ wait["cleanup"] = "joining" => start = "cleanupWait"
    /\ wait["cleanup"] = "done" => start = "failed"
    /\ start = "failed" => alive = {}

(* An open call is in active_calls_ until Shutdown collects it.            *)
CallInv ==
    \A c \in Calls : phase[c] = "open" =>
        /\ c \in tracked \cup collected \cup cancels \cup cancelled
        /\ stopper \in {"no", "listening", "collect"} => c \in tracked

Inv == TypeOK /\ StopOnce /\ TransportInv /\ ThreadInv /\ CallInv

-----------------------------------------------------------------------------
LEMMA InvInit == Init => Inv
<1> SUFFICES ASSUME Init PROVE Inv
  OBVIOUS
<1>1. TypeOK
  BY DEF Init, TypeOK
<1>2. StopOnce /\ TransportInv
  BY DEF Init, StopOnce, TransportInv
<1>3. ThreadInv /\ CallInv
  BY DEF Init, ThreadInv, CallInv, Waiters
<1> QED BY <1>1, <1>2, <1>3 DEF Inv

(* Every step keeps the types and the agreement of stops and transport.    *)
LEMMA StopStep == Inv /\ [Next]_vars => TypeOK' /\ StopOnce' /\ TransportInv'
<1> SUFFICES ASSUME Inv, [Next]_vars PROVE TypeOK' /\ StopOnce' /\ TransportInv'
  OBVIOUS
<1> USE DEF Inv, startVars, flagVars, threadVars, callVars, stopperVars, finishVars
<1>1. CASE StartImpl
  BY <1>1 DEF StartImpl, TypeOK, StopOnce, TransportInv
<1>2. CASE SetListening
  BY <1>2 DEF SetListening, TypeOK, StopOnce, TransportInv
<1>3. CASE Spawn
  BY <1>3 DEF Spawn, TypeOK, StopOnce, TransportInv
<1>4. CASE StartReturns
  BY <1>4 DEF StartReturns, TypeOK, StopOnce, TransportInv
<1>5. CASE CleanupStops
  <2>1. StopOnce' /\ TransportInv'
    BY <1>5 DEF CleanupStops, StopTransport, TypeOK, StopOnce, TransportInv
  <2>2. stops' \in {0, 1} /\ transport' \in {"none", "listening", "draining", "stopped"}
    BY <1>5 DEF CleanupStops, StopTransport, TypeOK, StopOnce
  <2>3. finish' \in {"no", "posted", "timer"}
    BY <1>5 DEF CleanupStops, TimerCancelled, TypeOK
  <2>4. start' = "cleanupWait" /\ listening' = FALSE /\ guard' = FALSE
    BY <1>5 DEF CleanupStops, StopTransport
  <2>5. UNCHANGED <<private, started, shutdown, alive, threads, joining, wait, callVars,
                    stopperVars, deadline, iocStopped>>
    BY <1>5 DEF CleanupStops, StopTransport
  <2> QED
    BY <2>1, <2>2, <2>3, <2>4, <2>5 DEF TypeOK
<1>6. ASSUME NEW w \in Waiters, NEW own, TakeThreads(w, own)
      PROVE  TypeOK' /\ StopOnce' /\ TransportInv'
  BY <1>6 DEF TakeThreads, TypeOK, StopOnce, TransportInv
<1>7. CASE ShutdownBegins
  BY <1>7 DEF ShutdownBegins, TypeOK, StopOnce, TransportInv
<1>8. CASE StopListening
  BY <1>8 DEF StopListening, TypeOK, StopOnce, TransportInv
<1>9. CASE CollectCalls
  BY <1>9 DEF CollectCalls, TypeOK, StopOnce, TransportInv
<1>10. CASE CancelCalls
  BY <1>10 DEF CancelCalls, TypeOK, StopOnce, TransportInv
<1>11. CASE ShutdownEnds
  <2>1. StopOnce' /\ TransportInv'
    BY <1>11 DEF ShutdownEnds, StopTransport, TypeOK, StopOnce, TransportInv
  <2>2. stops' \in {0, 1} /\ transport' \in {"none", "listening", "draining", "stopped"}
    BY <1>11 DEF ShutdownEnds, StopTransport, TypeOK, StopOnce
  <2>3. listening' \in BOOLEAN /\ guard' \in BOOLEAN /\ finish' \in {"no", "posted", "timer"}
    <3>1. CASE ~listening  BY <1>11, <3>1 DEF ShutdownEnds, TypeOK
    <3>2. CASE listening /\ iocStopped  BY <1>11, <3>2 DEF ShutdownEnds, StopTransport, TypeOK
    <3>3. CASE listening /\ ~iocStopped  BY <1>11, <3>3 DEF ShutdownEnds, TypeOK
    <3> QED BY <3>1, <3>2, <3>3
  <2> QED
    BY <1>11, <2>1, <2>2, <2>3 DEF ShutdownEnds, TypeOK
<1>12. ASSUME NEW w \in Waiters, WaitReturns(w)
       PROVE  TypeOK' /\ StopOnce' /\ TransportInv'
  BY <1>12 DEF WaitReturns, TypeOK, StopOnce, TransportInv, ThreadInv
<1>13. ASSUME NEW c \in Calls, HandleRequest(c)
       PROVE  TypeOK' /\ StopOnce' /\ TransportInv'
  BY <1>13 DEF HandleRequest, TypeOK, StopOnce, TransportInv
<1>14. ASSUME NEW c \in Calls, TrackCall(c)
       PROVE  TypeOK' /\ StopOnce' /\ TransportInv'
  BY <1>14 DEF TrackCall, TypeOK, StopOnce, TransportInv
<1>15. ASSUME NEW c \in Calls, OnClose(c)
       PROVE  TypeOK' /\ StopOnce' /\ TransportInv'
  BY <1>15 DEF OnClose, TypeOK, StopOnce, TransportInv
<1>16. ASSUME NEW c \in Calls, HandlerReturns(c)
       PROVE  TypeOK' /\ StopOnce' /\ TransportInv'
  BY <1>16 DEF HandlerReturns, TypeOK, StopOnce, TransportInv
<1>17. ASSUME NEW c \in Calls, RunCancel(c)
       PROVE  TypeOK' /\ StopOnce' /\ TransportInv'
  BY <1>17 DEF RunCancel, TypeOK, StopOnce, TransportInv
<1>18. ASSUME NEW w \in Workers, WorkerExits(w)
       PROVE  TypeOK' /\ StopOnce' /\ TransportInv'
  BY <1>18 DEF WorkerExits, TypeOK, StopOnce, TransportInv
<1>19. CASE FinishShutdown
  <2>1. StopOnce' /\ TransportInv'
    BY <1>19 DEF FinishShutdown, StopTransport, TypeOK, StopOnce, TransportInv
  <2>2. stops' \in {0, 1} /\ transport' \in {"none", "listening", "draining", "stopped"}
    BY <1>19 DEF FinishShutdown, StopTransport, TypeOK, StopOnce
  <2>3. listening' \in BOOLEAN /\ guard' \in BOOLEAN /\ finish' \in {"no", "posted", "timer"}
    <3>1. CASE tracked' = {} \/ deadline = "passed"
      BY <1>19, <3>1 DEF FinishShutdown, StopTransport, TypeOK
    <3>2. CASE ~(tracked' = {} \/ deadline = "passed")
      BY <1>19, <3>2 DEF FinishShutdown, TypeOK
    <3> QED BY <3>1, <3>2
  <2> QED
    BY <1>19, <2>1, <2>2, <2>3 DEF FinishShutdown, TypeOK
<1>20. CASE GraceEnds
  BY <1>20 DEF GraceEnds, TypeOK, StopOnce, TransportInv
<1>21. CASE CallerStops
  BY <1>21 DEF CallerStops, TypeOK, StopOnce, TransportInv
<1>22. CASE UNCHANGED vars
  BY <1>22 DEF vars, TypeOK, StopOnce, TransportInv
<1>23. CleanupWaits \/ WaitBegins \/ HandlerWaits
         => \E w \in Waiters, own \in SUBSET Workers : TakeThreads(w, own)
  BY DEF CleanupWaits, WaitBegins, HandlerWaits, Waiters, TypeOK
<1> QED
  BY <1>1, <1>2, <1>3, <1>4, <1>5, <1>6, <1>7, <1>8, <1>9, <1>10, <1>11, <1>12, <1>13,
     <1>14, <1>15, <1>16, <1>17, <1>18, <1>19, <1>20, <1>21, <1>22, <1>23
     DEF Next, StartStep, ShutdownStep

(* Threads are made by Start alone, and taken by one Wait.                 *)
LEMMA ThreadStep == Inv /\ [Next]_vars => ThreadInv'
<1> SUFFICES ASSUME Inv, [Next]_vars PROVE ThreadInv'
  OBVIOUS
<1> USE DEF Inv, startVars, flagVars, threadVars, callVars, stopperVars, finishVars
<1>1. CASE StartImpl \/ SetListening \/ StartReturns
  BY <1>1 DEF StartImpl, SetListening, StartReturns, ThreadInv
<1>2. CASE Spawn
  BY <1>2 DEF Spawn, ThreadInv
<1>3. CASE CleanupStops
  BY <1>3 DEF CleanupStops, ThreadInv, TypeOK, Waiters
<1>4. CASE CleanupWaits
  BY <1>4 DEF CleanupWaits, TakeThreads, ThreadInv, TypeOK, Waiters
<1>5. CASE WaitBegins \/ HandlerWaits
  <2>1. PICK w \in Waiters \ {"cleanup"}, own \in SUBSET Workers :
          TakeThreads(w, own) /\ start \in {"idle", "done", "failed"}
    BY <1>5 DEF WaitBegins, HandlerWaits, NotStarting, Waiters, TypeOK
  <2> QED BY <2>1 DEF TakeThreads, ThreadInv, TypeOK, Waiters
<1>6. ASSUME NEW w \in Waiters, WaitReturns(w) PROVE ThreadInv'
  BY <1>6 DEF WaitReturns, ThreadInv, TypeOK, Waiters
<1>7. ASSUME NEW w \in Workers, WorkerExits(w) PROVE ThreadInv'
  BY <1>7 DEF WorkerExits, ThreadInv
<1>8. CASE UNCHANGED <<start, threadVars>>
  BY <1>8 DEF ThreadInv
<1>9. ASSUME NEW c \in Calls,
             HandleRequest(c) \/ TrackCall(c) \/ OnClose(c) \/ HandlerReturns(c) \/ RunCancel(c)
      PROVE  UNCHANGED <<start, threadVars>>
  BY <1>9 DEF HandleRequest, TrackCall, OnClose, HandlerReturns, RunCancel
<1>10. ShutdownBegins \/ ShutdownStep \/ FinishShutdown \/ GraceEnds \/ CallerStops
         => UNCHANGED <<start, threadVars>>
  BY DEF ShutdownBegins, ShutdownStep, StopListening, CollectCalls, CancelCalls, ShutdownEnds,
         FinishShutdown, GraceEnds, CallerStops
<1>11. UNCHANGED vars => UNCHANGED <<start, threadVars>>
  BY DEF vars
<1> QED
  BY <1>1, <1>2, <1>3, <1>4, <1>5, <1>6, <1>7, <1>8, <1>9, <1>10, <1>11 DEF Next, StartStep

(* A call joins active_calls_ as it opens and leaves it collected, closed  *)
(* or gone; a collected one is cancelled.                                  *)
LEMMA CallStep == Inv /\ [Next]_vars => CallInv'
<1> SUFFICES ASSUME Inv, [Next]_vars PROVE CallInv'
  OBVIOUS
<1> USE DEF Inv, startVars, flagVars, threadVars, callVars, stopperVars, finishVars
<1>1. CASE ShutdownBegins
  BY <1>1 DEF ShutdownBegins, CallInv
<1>2. CASE StopListening
  BY <1>2 DEF StopListening, CallInv
<1>3. CASE CollectCalls
  BY <1>3 DEF CollectCalls, CallInv
<1>4. CASE CancelCalls
  BY <1>4 DEF CancelCalls, CallInv
<1>5. CASE ShutdownEnds
  BY <1>5 DEF ShutdownEnds, CallInv
<1>6. ASSUME NEW c \in Calls, HandleRequest(c) PROVE CallInv'
  BY <1>6 DEF HandleRequest, CallInv, TypeOK
<1>7. ASSUME NEW c \in Calls, TrackCall(c) PROVE CallInv'
  BY <1>7 DEF TrackCall, CallInv, TypeOK
<1>8. ASSUME NEW c \in Calls, OnClose(c) \/ HandlerReturns(c) PROVE CallInv'
  BY <1>8 DEF OnClose, HandlerReturns, CallInv, TypeOK
<1>9. ASSUME NEW c \in Calls, RunCancel(c) PROVE CallInv'
  BY <1>9 DEF RunCancel, CallInv, TypeOK
<1>10. CASE FinishShutdown
  BY <1>10 DEF FinishShutdown, CallInv
<1>11. CASE UNCHANGED <<callVars, stopper, collected>>
  BY <1>11 DEF CallInv
<1>12. StartStep => UNCHANGED <<callVars, stopper, collected>>
  BY DEF StartStep, StartImpl, SetListening, Spawn, StartReturns, CleanupStops, CleanupWaits,
         TakeThreads
<1>13. WaitBegins \/ HandlerWaits \/ GraceEnds \/ CallerStops
         => UNCHANGED <<callVars, stopper, collected>>
  BY DEF WaitBegins, HandlerWaits, TakeThreads, GraceEnds, CallerStops
<1>14. \A w : WaitReturns(w) \/ WorkerExits(w) => UNCHANGED <<callVars, stopper, collected>>
  BY DEF WaitReturns, WorkerExits
<1>15. UNCHANGED vars => UNCHANGED <<callVars, stopper, collected>>
  BY DEF vars
<1> QED
  BY <1>1, <1>2, <1>3, <1>4, <1>5, <1>6, <1>7, <1>8, <1>9, <1>10, <1>11, <1>12, <1>13,
     <1>14, <1>15 DEF Next, ShutdownStep

LEMMA Invariance == Safety => []Inv
<1>1. Inv /\ [Next]_vars => Inv'
  BY StopStep, ThreadStep, CallStep DEF Inv
<1> QED BY InvInit, <1>1, PTL DEF Safety

-----------------------------------------------------------------------------
(* Every variable of the server keeps its type.                            *)
THEOREM LifecycleTypeCorrect == Safety => []TypeOK
<1>1. Inv => TypeOK  BY DEF Inv
<1> QED BY Invariance, <1>1, PTL

(* http2_.stop() is called at most once, and only on a server that         *)
(* listens, whichever of FinishShutdown, Shutdown and the cleanup of a     *)
(* failed Start reaches StopTransport first.                               *)
THEOREM TransportStopsOnce == Safety => []StopOnce
<1>1. Inv => StopOnce  BY DEF Inv
<1> QED BY Invariance, <1>1, PTL

(* Once Shutdown has emptied active_calls_, every open call is on its way  *)
(* to be cancelled, or was tracked later and is watched by FinishShutdown. *)
THEOREM ShutdownForgetsNoCall == Safety => []NoCallForgotten
<1>1. Inv => NoCallForgotten  BY DEF Inv, CallInv, NoCallForgotten
<1> QED BY Invariance, <1>1, PTL

(* A Start that has failed has joined all its threads, given up its work   *)
(* guard and left no socket listening.                                     *)
THEOREM FailedStartLeavesNothing == Safety => []FailedStartIsClean
<1>1. Inv => FailedStartIsClean
  BY DEF Inv, TransportInv, ThreadInv, FailedStartIsClean
<1> QED BY Invariance, <1>1, PTL
=============================================================================
