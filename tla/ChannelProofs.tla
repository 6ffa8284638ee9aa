--------------------------- MODULE ChannelProofs ---------------------------
(***************************************************************************)
(* What TLC checks of Channel for a few calls and Connects, proved for any *)
(* sets of them: the types, that a settled channel holds nothing back,     *)
(* that a GOAWAY is honoured, and that a call is never lost or doubled.    *)
(***************************************************************************)
EXTENDS Channel, TLAPS

-----------------------------------------------------------------------------
(* The inductive invariants                                                 *)

(* Whether a sequence has x, and has it once at most; whether a handler    *)
(* has a step of kind k to take, and the strand a task of kind k to run.   *)
Has(q, x)   == \E i \in 1..Len(q) : q[i] = x
Once(q, x)  == \A i, j \in 1..Len(q) : q[i] = x /\ q[j] = x => i = j
ToDo(q, k)  == \E i \in 1..Len(q) : q[i].do = k
ToRun(q, k) == \E i \in 1..Len(q) : q[i].kind = k

Reports == {"connected", "error", "goaway"}

(* No report stands before "connected", and "connected" before any GOAWAY. *)
First(q) ==
    \A i, j \in 1..Len(q) : i < j /\ q[j].kind = "connected" => q[i].kind \notin Reports
Led(q) ==
    \A j \in 1..Len(q) : q[j].kind = "goaway" =>
        \E i \in 1..Len(q) : i < j /\ q[i].kind = "connected"

(* The link is dialed once, from kIdle, and its reports come in order:     *)
(* "connected" before all others.  So the channel is still connecting when *)
(* it learns of the connection, and not any more when it learns of GOAWAY. *)
LinkInv ==
    /\ conn = "kIdle" => link = "none" /\ ~session /\ ~connecting /\ active = {}
    /\ link = "dialing" => conn = "kConnecting"
    /\ link \in {"none", "dialing"} =>
           limit = MaxId + 1 /\ \A k \in Reports : ~ToRun(strand, k)
    /\ link = "up" /\ conn = "kConnecting" => ToRun(strand, "connected")
    /\ ToRun(strand, "connected") =>
           conn \in {"kConnecting", "kShutdown"} /\ limit = MaxId + 1
    /\ First(strand)
    /\ conn = "kConnecting" => Led(strand)
    /\ limit <= MaxId => conn \in {"kFailed", "kShutdown"}

(* What a settled channel still has in its queues, or one that is shut     *)
(* down in its maps, the running handler has a step to drain.              *)
DrainInv ==
    /\ conn \in Settled => waiters = <<>>
    /\ conn \in Settled /\ (pending # <<>> \/ generic # <<>>) =>
           ToDo(todo, "drain") \/ ToDo(todo, "failAll")
    /\ conn = "kReady" => session
    /\ conn = "kShutdown" =>
           ~session /\ ~connecting /\ (active = {} \/ ToDo(todo, "failActive"))

(* Where a call can be, as in Places, with q for the strand and r for the  *)
(* steps of the handler.                                                   *)
Posting(c)    == Task("call", c)
Submitting(c) == Step("submit", c, "none")

SomewhereIn(c, q, r) ==
    \/ Has(q, Posting(c)) \/ Has(r, Submitting(c))
    \/ Has(pending, c) \/ Has(generic, c) \/ c \in active

AtMostOnceIn(c, q, r) ==
    /\ Once(q, Posting(c)) /\ Once(r, Submitting(c)) /\ Once(pending, c) /\ Once(generic, c)
    /\ Has(q, Posting(c)) =>
           ~Has(r, Submitting(c)) /\ ~Has(pending, c) /\ ~Has(generic, c) /\ c \notin active
    /\ Has(r, Submitting(c)) => ~Has(pending, c) /\ ~Has(generic, c) /\ c \notin active
    /\ Has(pending, c) => ~Has(generic, c) /\ c \notin active
    /\ Has(generic, c) => c \notin active

Somewhere(c)  == SomewhereIn(c, strand, todo)
AtMostOnce(c) == AtMostOnceIn(c, strand, todo)

(* A call is nowhere before the user makes it, never in two places, and    *)
(* somewhere until it has its answer.                                      *)
PlaceInv ==
    \A c \in Calls :
        /\ AtMostOnce(c)
        /\ Somewhere(c) => c \in asked
        /\ c \in asked /\ answer[c] = "none" => Somewhere(c)

-----------------------------------------------------------------------------
(* Facts about the operators the actions are built from                     *)

LEMMA Literals == ("none" \notin Status) /\ ShutdownStatus \in Status
BY DEF Status, ShutdownStatus

LEMMA SeqTypes ==
    ASSUME NEW S, NEW q \in Seq(S)
    PROVE  /\ Len(q) \in Nat
           /\ \A i \in 1..Len(q) : q[i] \in S
           /\ \A x \in S : Append(q, x) \in Seq(S)
           /\ q # <<>> => Head(q) \in S /\ Tail(q) \in Seq(S)
OBVIOUS

LEMMA ConcatType ==
    \A S : \A p, q \in Seq(S) : p \o q \in Seq(S)
OBVIOUS

LEMMA EmptySeq == \A S : <<>> \in Seq(S)
OBVIOUS

(* The tasks by their kind.                                                *)
LEMMA TaskFields ==
    ASSUME NEW t \in TaskType
    PROVE  /\ t.kind \in {"call", "close"} => t.for \in Calls /\ t = Task(t.kind, t.for)
           /\ t.kind = "connect" => t.for \in Waiters
           /\ t.kind = "goaway" => t.last \in 0..MaxId
<1>1. CASE t \in [kind : {"call", "close"}, for : Calls]
  BY <1>1 DEF Task
<1>2. CASE t \in [kind : {"connect"}, for : Waiters]
  BY <1>2
<1>3. CASE t \in [kind : {"shutdown", "connected", "error"}, for : {"none"}]
  BY <1>3
<1>4. CASE t \in [kind : {"goaway"}, last : 0..MaxId]
  BY <1>4
<1> QED BY <1>1, <1>2, <1>3, <1>4 DEF TaskType

LEMMA TasksTyped ==
    /\ \A c \in Calls : Task("call", c) \in TaskType /\ Task("close", c) \in TaskType
    /\ \A w \in Waiters : Task("connect", w) \in TaskType
    /\ \A k \in {"shutdown", "connected", "error"} : Task(k, "none") \in TaskType
    /\ \A n \in 0..MaxId : Goaway(n) \in TaskType
<1>1. \A c \in Calls : Task("call", c) \in TaskType /\ Task("close", c) \in TaskType
  BY DEF Task, TaskType
<1>2. \A w \in Waiters : Task("connect", w) \in TaskType
  BY DEF Task, TaskType
<1>3. \A k \in {"shutdown", "connected", "error"} : Task(k, "none") \in TaskType
  BY DEF Task, TaskType
<1>4. \A n \in 0..MaxId : Goaway(n) \in TaskType
  BY DEF Goaway, TaskType
<1> QED BY <1>1, <1>2, <1>3, <1>4

(* The steps by their kind.                                                *)
LEMMA StepFields ==
    ASSUME NEW t \in StepType
    PROVE  /\ t.do \in {"submit", "drain", "tell", "failAll", "failActive"}
           /\ t.do = "submit" => t.for \in Calls /\ t = Step("submit", t.for, "none")
           /\ t.do \in {"tell", "failAll", "failActive"} => t.with \in Status
           /\ t.do = "tell" => t.for \in Waiters
<1>1. CASE t \in [do : {"submit"}, for : Calls, with : {"none"}]
  BY <1>1 DEF Step
<1>2. CASE t \in [do : {"drain"}, for : {"none"}, with : {"none"}]
  BY <1>2
<1>3. CASE t \in [do : {"tell"}, for : Waiters, with : Status]
  BY <1>3
<1>4. CASE t \in [do : {"failAll", "failActive"}, for : {"none"}, with : Status]
  BY <1>4
<1> QED BY <1>1, <1>2, <1>3, <1>4 DEF StepType

LEMMA StepsTyped ==
    /\ \A c \in Calls : Step("submit", c, "none") \in StepType
    /\ Step("drain", "none", "none") \in StepType
    /\ \A w \in Waiters, s \in Status : Step("tell", w, s) \in StepType
    /\ \A k \in {"failAll", "failActive"}, s \in Status : Step(k, "none", s) \in StepType
<1>1. \A c \in Calls : Step("submit", c, "none") \in StepType
  BY DEF Step, StepType
<1>2. Step("drain", "none", "none") \in StepType
  BY DEF Step, StepType
<1>3. \A w \in Waiters, s \in Status : Step("tell", w, s) \in StepType
  BY DEF Step, StepType
<1>4. \A k \in {"failAll", "failActive"}, s \in Status : Step(k, "none", s) \in StepType
  BY DEF Step, StepType
<1> QED BY <1>1, <1>2, <1>3, <1>4

LEMMA StepDo == \A k, x, s : Step(k, x, s).do = k
BY DEF Step

(* A step for each of xs, in their order.                                  *)
LEMMA EachFacts ==
    ASSUME NEW S, NEW k, NEW s, NEW X, NEW xs \in Seq(X),
           \A x \in X : Step(k, x, s) \in S
    PROVE  /\ Each(k, xs, s) \in Seq(S) /\ Len(Each(k, xs, s)) = Len(xs)
           /\ \A i \in 1..Len(xs) : Each(k, xs, s)[i] = Step(k, xs[i], s)
<1> DEFINE e == [i \in 1..Len(xs) |-> Step(k, xs[i], s)]
<1>1. Len(xs) \in Nat /\ \A i \in 1..Len(xs) : Step(k, xs[i], s) \in S
  OBVIOUS
<1>2. e \in Seq(S) /\ Len(e) = Len(xs) /\ \A i \in 1..Len(xs) : e[i] = Step(k, xs[i], s)
  BY <1>1
<1> QED BY <1>2 DEF Each

(* The gate: a status is set at most once, and only for those named.       *)
LEMMA AnsweredFacts ==
    ASSUME NEW xs, NEW s \in Status,
           answer \in [Calls \cup Waiters -> Status \cup {"none"}]
    PROVE  /\ Answered(xs, s) \in [Calls \cup Waiters -> Status \cup {"none"}]
           /\ \A c \in Calls : /\ c \in xs => Answered(xs, s)[c] # "none"
                               /\ c \notin xs => Answered(xs, s)[c] = answer[c]
                               /\ Answered(xs, s)[c] = "none" => answer[c] = "none"
BY Literals DEF Answered

-----------------------------------------------------------------------------
(* Type correctness                                                         *)

ConnOK ==
    /\ conn \in ConnState
    /\ terminal \in BOOLEAN /\ connecting \in BOOLEAN /\ session \in BOOLEAN
    /\ link \in {"none", "dialing", "up", "down"} /\ lastSent \in 0..(MaxId + 1)

QueueOK ==
    /\ waiters \in Seq(Waiters) /\ pending \in Seq(Unary) /\ generic \in Seq(Streaming)

StreamOK ==
    /\ active \subseteq Calls /\ id \in [Calls -> Nat] /\ lastId \in Nat
    /\ limit \in 0..(MaxId + 1)

TodoOK == todo \in Seq(StepType) /\ inline \in BOOLEAN

AnswerOK == answer \in [Calls \cup Waiters -> Status \cup {"none"}]

LEMMA TypeGroups ==
    TypeOK <=> /\ ConnOK /\ QueueOK /\ StreamOK /\ TodoOK /\ AnswerOK
               /\ strand \in Seq(TaskType) /\ asked \subseteq Calls \cup Waiters
BY DEF TypeOK, ConnOK, QueueOK, StreamOK, TodoOK, AnswerOK

(* The parts of the actions keep the types of what they change.            *)
LEMMA DoConnectType ==
    ASSUME ConnOK, NEW ws \in Seq(Waiters), NEW rest \in Seq(StepType), DoConnect(ws, rest)
    PROVE  ConnOK' /\ waiters' \in Seq(Waiters) /\ todo' \in Seq(StepType)
<1>1. CASE todo' = rest /\ conn' = "kConnecting"
  BY <1>1, EmptySeq DEF DoConnect, ConnOK, ConnState, linkVars
<1>2. CASE /\ conn' = "kShutdown" /\ terminal' = TRUE /\ waiters' = <<>>
           /\ todo' = Each("tell", ws, "INVALID_ARGUMENT")
                        \o <<Step("failAll", "none", "INVALID_ARGUMENT")>> \o rest
           /\ UNCHANGED <<connecting, session, linkVars>>
  <2>1. "INVALID_ARGUMENT" \in Status
    BY DEF Status
  <2>2. Each("tell", ws, "INVALID_ARGUMENT") \in Seq(StepType)
    BY <2>1, StepsTyped, EachFacts
  <2>3. <<Step("failAll", "none", "INVALID_ARGUMENT")>> \in Seq(StepType)
    BY <2>1, StepsTyped
  <2>4. todo' \in Seq(StepType)
    BY <1>2, <2>2, <2>3, ConcatType
  <2>5. ConnOK'
    BY <1>2 DEF ConnOK, ConnState, linkVars
  <2> QED BY <1>2, <2>4, <2>5, EmptySeq
<1> QED BY <1>1, <1>2 DEF DoConnect

LEMMA ConnectType ==
    ASSUME ConnOK, QueueOK, StreamOK, AnswerOK, NEW w \in Waiters,
           NEW rest \in Seq(StepType), Connect(w, rest)
    PROVE  ConnOK' /\ QueueOK' /\ StreamOK' /\ TodoOK' /\ AnswerOK'
<1>1. StreamOK' /\ pending' \in Seq(Unary) /\ generic' \in Seq(Streaming)
  BY DEF Connect, StreamOK, QueueOK, streamVars
<1>2. Append(waiters, w) \in Seq(Waiters)
  BY DEF QueueOK
<1>3. CASE DoConnect(Append(waiters, w), rest) /\ inline' = FALSE /\ UNCHANGED answer
  BY <1>1, <1>2, <1>3, DoConnectType DEF QueueOK, TodoOK, AnswerOK
<1>4. CASE /\ waiters' = Append(waiters, w) /\ todo' = rest
           /\ inline' = FALSE /\ UNCHANGED <<answer, sessionVars, linkVars>>
  BY <1>1, <1>2, <1>4 DEF ConnOK, QueueOK, TodoOK, AnswerOK, sessionVars, linkVars
<1>5. CASE /\ \E s \in Status : answer' = Answered({w}, s)
           /\ todo' = rest /\ inline' = TRUE
           /\ UNCHANGED <<sessionVars, waiters, linkVars>>
  <2>1. AnswerOK'
    BY <1>5, AnsweredFacts DEF AnswerOK
  <2> QED
    BY <1>1, <1>5, <2>1 DEF ConnOK, QueueOK, TodoOK, sessionVars, linkVars
<1>6. (CASE conn = "kReady"  -> "OK"
         [] conn = "kFailed" -> "UNAVAILABLE"
         [] OTHER            -> ShutdownStatus) \in Status
  <2>1. {"OK", "UNAVAILABLE"} \subseteq Status /\ ShutdownStatus \in Status
    BY Literals DEF Status
  <2> QED BY <2>1
<1> QED BY <1>3, <1>4, <1>5, <1>6 DEF Connect

LEMMA RefuseType ==
    ASSUME ConnOK, QueueOK, StreamOK, AnswerOK, NEW c \in Calls, NEW s \in Status,
           NEW rest \in Seq(StepType), Refuse(c, s, rest)
    PROVE  ConnOK' /\ QueueOK' /\ StreamOK' /\ TodoOK' /\ AnswerOK'
<1>1. AnswerOK'
  BY AnsweredFacts DEF Refuse, AnswerOK
<1>2. TodoOK'
  BY DEF Refuse, TodoOK
<1>3. ConnOK' /\ QueueOK' /\ StreamOK'
  BY DEF Refuse, ConnOK, QueueOK, StreamOK, sessionVars, queueVars, streamVars, linkVars
<1> QED BY <1>1, <1>2, <1>3

LEMMA EnqueueType ==
    ASSUME QueueOK, NEW c \in Calls, Enqueue(c)
    PROVE  pending' \in Seq(Unary) /\ generic' \in Seq(Streaming)
<1>1. CASE c \in Unary
  BY <1>1, SeqTypes DEF Enqueue, QueueOK
<1>2. CASE c \notin Unary
  BY <1>2, SeqTypes DEF Enqueue, QueueOK, Calls
<1> QED BY <1>1, <1>2

LEMMA SubmitType ==
    ASSUME ConnOK, QueueOK, StreamOK, AnswerOK, NEW c \in Calls,
           NEW rest \in Seq(StepType), Submit(c, rest)
    PROVE  ConnOK' /\ QueueOK' /\ StreamOK' /\ TodoOK' /\ AnswerOK'
<1>1. CASE \E s \in Status : Refuse(c, s, rest)
  BY <1>1, RefuseType
<1>2. CASE Queue(c, rest)
  <2>1. pending' \in Seq(Unary) /\ generic' \in Seq(Streaming)
    BY <1>2, EnqueueType DEF Queue
  <2>2. StreamOK' /\ AnswerOK' /\ inline' \in BOOLEAN
    BY <1>2 DEF Queue, StreamOK, AnswerOK, streamVars
  <2>3. CASE DoConnect(waiters, rest)
    BY <2>1, <2>2, <2>3, DoConnectType DEF QueueOK, TodoOK
  <2>4. CASE todo' = rest /\ UNCHANGED <<sessionVars, waiters, linkVars>>
    BY <2>1, <2>2, <2>4 DEF ConnOK, QueueOK, TodoOK, sessionVars, linkVars
  <2> QED BY <1>2, <2>3, <2>4 DEF Queue
<1>3. CASE Open(c, rest)
  <2>1. StreamOK'
    BY <1>3 DEF Open, StreamOK
  <2>2. ConnOK' /\ QueueOK' /\ TodoOK' /\ AnswerOK'
    BY <1>3 DEF Open, ConnOK, QueueOK, TodoOK, AnswerOK, sessionVars, queueVars, linkVars
  <2> QED BY <2>1, <2>2
<1>4. {"OWN", "UNAVAILABLE", "NOT_SENT"} \subseteq Status /\ ShutdownStatus \in Status
  BY Literals DEF Status
<1> QED BY <1>1, <1>2, <1>3, <1>4 DEF Submit

LEMMA DoShutdownType ==
    ASSUME ConnOK, QueueOK, StreamOK, AnswerOK, NEW rest \in Seq(StepType), DoShutdown(rest)
    PROVE  ConnOK' /\ QueueOK' /\ StreamOK' /\ TodoOK' /\ AnswerOK'
<1>1. StreamOK' /\ AnswerOK' /\ pending' \in Seq(Unary) /\ generic' \in Seq(Streaming)
      /\ inline' \in BOOLEAN
  BY DEF DoShutdown, StreamOK, AnswerOK, QueueOK, streamVars
<1>2. CASE conn = "kShutdown"
  BY <1>1, <1>2 DEF DoShutdown, ConnOK, QueueOK, TodoOK
<1>3. CASE conn # "kShutdown"
  <2>1. "CANCELLED" \in Status
    BY DEF Status
  <2>2. Each("tell", waiters, "CANCELLED") \in Seq(StepType)
    BY <2>1, StepsTyped, EachFacts DEF QueueOK
  <2>3. <<Step("failActive", "none", "CANCELLED"),
          Step("failAll", "none", "CANCELLED")>> \in Seq(StepType)
    BY <2>1, StepsTyped
  <2>4. todo' \in Seq(StepType)
    BY <1>3, <2>2, <2>3, ConcatType DEF DoShutdown
  <2>5. ConnOK' /\ waiters' \in Seq(Waiters)
    BY <1>3, EmptySeq DEF DoShutdown, ConnOK, ConnState
  <2> QED BY <1>1, <2>4, <2>5 DEF QueueOK, TodoOK
<1> QED BY <1>2, <1>3

LEMMA InitTypes == Init => TypeOK
<1> SUFFICES ASSUME Init PROVE TypeOK
  OBVIOUS
<1>1. ConnOK
  <2>1. MaxId + 1 \in 0..(MaxId + 1)
    BY MaxIdAssumption
  <2> QED BY <2>1 DEF Init, ConnOK, ConnState
<1>2. QueueOK /\ TodoOK /\ strand \in Seq(TaskType)
  BY EmptySeq DEF Init, QueueOK, TodoOK
<1>3. StreamOK
  BY MaxIdAssumption DEF Init, StreamOK
<1>4. AnswerOK /\ asked \subseteq Calls \cup Waiters
  BY DEF Init, AnswerOK
<1> QED BY <1>1, <1>2, <1>3, <1>4, TypeGroups

(* The head of the strand, when its handler starts.                        *)
LEMMA StartFacts ==
    ASSUME TypeOK, NEW k, StartTask(k)
    PROVE  /\ Head(strand) \in TaskType /\ Head(strand).kind = k
           /\ strand' \in Seq(TaskType) /\ todo = <<>>
BY SeqTypes DEF StartTask, TypeOK

(* The step a handler takes next.                                          *)
LEMMA TakeFacts ==
    ASSUME TypeOK, NEW k, TakeStep(k)
    PROVE  /\ Head(todo) \in StepType /\ Head(todo).do = k
           /\ Tail(todo) \in Seq(StepType)
BY SeqTypes DEF TakeStep, TypeOK

LEMMA TypeStep == TypeOK /\ [Next]_vars => TypeOK'
<1> SUFFICES ASSUME TypeOK, [Next]_vars PROVE TypeOK'
  OBVIOUS
<1>0. /\ ConnOK /\ QueueOK /\ StreamOK /\ TodoOK /\ AnswerOK
      /\ strand \in Seq(TaskType) /\ asked \subseteq Calls \cup Waiters
  BY TypeGroups
<1>a. ASSUME /\ ConnOK' /\ QueueOK' /\ StreamOK' /\ TodoOK' /\ AnswerOK'
             /\ strand' \in Seq(TaskType) /\ asked' \subseteq Calls \cup Waiters
      PROVE  TypeOK'
  BY <1>a DEF TypeOK, ConnOK, QueueOK, StreamOK, TodoOK, AnswerOK
<1> USE DEF sessionVars, queueVars, streamVars, linkVars
<1>1. ASSUME NEW t \in TaskType, Post(t)
      PROVE  strand' \in Seq(TaskType)
  BY <1>0, <1>1, SeqTypes DEF Post
<1>2. ASSUME NEW c \in Calls, UserCalls(c) PROVE TypeOK'
  <2>1. strand' \in Seq(TaskType)
    BY <1>1, <1>2, TasksTyped DEF UserCalls
  <2> QED
    BY <1>0, <1>a, <1>2, <2>1 DEF UserCalls, ConnOK, QueueOK, StreamOK, TodoOK, AnswerOK
<1>3. ASSUME NEW w \in Waiters, UserConnects(w) PROVE TypeOK'
  <2>1. strand' \in Seq(TaskType)
    BY <1>1, <1>3, TasksTyped DEF UserConnects
  <2> QED
    BY <1>0, <1>a, <1>3, <2>1 DEF UserConnects, ConnOK, QueueOK, StreamOK, TodoOK, AnswerOK
<1>4. CASE UserShutsDown
  <2>1. strand' \in Seq(TaskType)
    BY <1>1, <1>4, TasksTyped DEF UserShutsDown
  <2> QED
    BY <1>0, <1>a, <1>4, <2>1 DEF UserShutsDown, ConnOK, QueueOK, StreamOK, TodoOK, AnswerOK
<1>5. ASSUME NEW c \in Calls, InlineCall(c) PROVE TypeOK'
  BY <1>0, <1>a, <1>5, SubmitType DEF InlineCall, TodoOK
<1>6. ASSUME NEW w \in Waiters, InlineConnect(w) PROVE TypeOK'
  BY <1>0, <1>a, <1>6, ConnectType DEF InlineConnect, TodoOK
<1>7. CASE InlineShutdown
  BY <1>0, <1>a, <1>7, DoShutdownType DEF InlineShutdown, TodoOK
<1>8. ASSUME NEW c \in Calls, CallEnds(c) PROVE TypeOK'
  <2>1. AnswerOK'
    BY <1>0, <1>8, AnsweredFacts DEF CallEnds, AnswerOK, Status
  <2> QED
    BY <1>0, <1>a, <1>8, <2>1 DEF CallEnds, ConnOK, QueueOK, StreamOK, TodoOK
<1>9. CASE Tell
  <2>1. Head(todo).with \in Status /\ Tail(todo) \in Seq(StepType)
    BY <1>9, TakeFacts, StepFields DEF Tell
  <2>2. AnswerOK'
    BY <1>0, <1>9, <2>1, AnsweredFacts DEF Tell, AnswerOK
  <2> QED
    BY <1>0, <1>a, <1>9, <2>1, <2>2 DEF Tell, ConnOK, QueueOK, StreamOK, TodoOK
<1>10. CASE Resubmit
  <2>1. Head(todo).for \in Calls /\ Tail(todo) \in Seq(StepType)
    BY <1>10, TakeFacts, StepFields DEF Resubmit
  <2> QED BY <1>0, <1>a, <1>10, <2>1, SubmitType DEF Resubmit
<1>11. \A c \in Unary \cup Streaming : Step("submit", c, "none") \in StepType
  BY StepsTyped DEF Calls
<1>12. CASE DrainQueue
  <2>1. Tail(todo) \in Seq(StepType)
    BY <1>12, TakeFacts DEF DrainQueue
  <2>2. /\ Each("submit", pending, "none") \in Seq(StepType)
        /\ Each("submit", generic, "none") \in Seq(StepType)
    BY <1>0, <1>11, EachFacts DEF QueueOK
  <2>3. todo' \in Seq(StepType)
    BY <1>12, <2>1, <2>2, ConcatType DEF DrainQueue
  <2> QED
    BY <1>0, <1>a, <1>12, <2>3, EmptySeq DEF DrainQueue, ConnOK, QueueOK, StreamOK,
       TodoOK, AnswerOK
<1>13. CASE FailAll
  <2>1. Head(todo).with \in Status /\ Tail(todo) \in Seq(StepType)
    BY <1>13, TakeFacts, StepFields DEF FailAll
  <2>2. Each("submit", generic, "none") \in Seq(StepType)
    BY <1>0, <1>11, EachFacts DEF QueueOK
  <2>3. todo' \in Seq(StepType)
    BY <1>13, <2>1, <2>2, ConcatType DEF FailAll
  <2>4. AnswerOK'
    BY <1>0, <1>13, <2>1, AnsweredFacts DEF FailAll, AnswerOK
  <2> QED
    BY <1>0, <1>a, <1>13, <2>3, <2>4, EmptySeq DEF FailAll, ConnOK, QueueOK, StreamOK,
       TodoOK
<1>14. CASE FailActive
  <2>1. Head(todo).with \in Status /\ Tail(todo) \in Seq(StepType)
    BY <1>14, TakeFacts, StepFields DEF FailActive
  <2>2. AnswerOK'
    BY <1>0, <1>14, <2>1, AnsweredFacts DEF FailActive, AnswerOK
  <2> QED
    BY <1>0, <1>a, <1>14, <2>1, <2>2 DEF FailActive, ConnOK, QueueOK, StreamOK, TodoOK
<1>15. CASE RunCall
  <2>1. Head(strand).for \in Calls /\ strand' \in Seq(TaskType)
    BY <1>15, StartFacts, TaskFields DEF RunCall
  <2> QED BY <1>0, <1>a, <1>15, <2>1, SubmitType, EmptySeq DEF RunCall
<1>16. CASE RunConnect
  <2>1. Head(strand).for \in Waiters /\ strand' \in Seq(TaskType)
    BY <1>16, StartFacts, TaskFields DEF RunConnect
  <2> QED BY <1>0, <1>a, <1>16, <2>1, ConnectType, EmptySeq DEF RunConnect
<1>17. CASE RunShutdown
  <2>1. strand' \in Seq(TaskType)
    BY <1>17, StartFacts DEF RunShutdown
  <2> QED BY <1>0, <1>a, <1>17, <2>1, DoShutdownType, EmptySeq DEF RunShutdown
<1>18. CASE RunConnected
  <2>1. strand' \in Seq(TaskType)
    BY <1>18, StartFacts DEF RunConnected
  <2>2. todo' \in Seq(StepType)
    <3>1. Each("tell", waiters, "OK") \in Seq(StepType)
      BY <1>0, StepsTyped, EachFacts DEF QueueOK, Status
    <3>2. <<Step("drain", "none", "none")>> \in Seq(StepType)
      BY StepsTyped
    <3> QED BY <1>0, <1>18, <3>1, <3>2, ConcatType DEF RunConnected, TodoOK
  <2>3. ConnOK'
    BY <1>0, <1>18 DEF RunConnected, ConnOK, ConnState
  <2> QED
    BY <1>0, <1>a, <1>18, <2>1, <2>2, <2>3, EmptySeq DEF RunConnected, QueueOK, StreamOK,
       TodoOK, AnswerOK
<1>19. CASE RunError
  <2>1. strand' \in Seq(TaskType)
    BY <1>19, StartFacts DEF RunError
  <2>2. todo' \in Seq(StepType)
    <3>1. "CONN_ERROR" \in Status
      BY DEF Status
    <3>2. Each("tell", waiters, "CONN_ERROR") \in Seq(StepType)
      BY <1>0, <3>1, StepsTyped, EachFacts DEF QueueOK
    <3>3. <<Step("failAll", "none", "CONN_ERROR")>> \in Seq(StepType)
      BY <3>1, StepsTyped
    <3> QED BY <1>0, <1>19, <3>2, <3>3, ConcatType DEF RunError, TodoOK
  <2>3. ConnOK'
    BY <1>0, <1>19 DEF RunError, ConnOK, ConnState
  <2> QED
    BY <1>0, <1>a, <1>19, <2>1, <2>2, <2>3, EmptySeq DEF RunError, QueueOK, StreamOK,
       TodoOK, AnswerOK
<1>20. CASE RunGoaway
  <2>1. strand' \in Seq(TaskType) /\ Head(strand).last \in 0..MaxId
    BY <1>20, StartFacts, TaskFields DEF RunGoaway
  <2>2. "UNAVAILABLE" \in Status
    BY DEF Status
  <2>3. todo' \in Seq(StepType)
    <3>1. <<Step("failAll", "none", "UNAVAILABLE")>> \in Seq(StepType)
      BY <2>2, StepsTyped
    <3> QED BY <1>0, <1>20, <3>1 DEF RunGoaway, TodoOK
  <2>4. AnswerOK'
    BY <1>0, <1>20, <2>2, AnsweredFacts DEF RunGoaway, AnswerOK
  <2>5. StreamOK'
    <3>1. limit' \in 0..(MaxId + 1)
      BY <1>0, <1>20, <2>1, MaxIdAssumption DEF RunGoaway, StreamOK
    <3>2. active' \subseteq Calls
      BY <1>0, <1>20 DEF RunGoaway, StreamOK
    <3> QED BY <1>0, <1>20, <3>1, <3>2 DEF RunGoaway, StreamOK
  <2>6. ConnOK'
    BY <1>0, <1>20 DEF RunGoaway, ConnOK, ConnState
  <2> QED
    BY <1>0, <1>a, <1>20, <2>1, <2>3, <2>4, <2>5, <2>6 DEF RunGoaway, QueueOK, TodoOK
<1>21. CASE RunClose
  <2>1. strand' \in Seq(TaskType)
    BY <1>21, StartFacts DEF RunClose
  <2>2. AnswerOK'
    BY <1>0, <1>21, AnsweredFacts DEF RunClose, AnswerOK, Status
  <2> QED
    BY <1>0, <1>a, <1>21, <2>1, <2>2 DEF RunClose, ConnOK, QueueOK, StreamOK, TodoOK
<1>22. CASE LinkUp \/ LinkFails
  <2>1. strand' \in Seq(TaskType)
    BY <1>1, <1>22, TasksTyped DEF LinkUp, LinkFails, Report
  <2>2. ConnOK'
    BY <1>0, <1>22 DEF LinkUp, LinkFails, Report, ConnOK
  <2> QED
    BY <1>0, <1>a, <1>22, <2>1, <2>2 DEF LinkUp, LinkFails, Report, QueueOK, StreamOK,
       TodoOK, AnswerOK
<1>23. ASSUME NEW n \in 0..MaxId, PeerGoesAway(n) PROVE TypeOK'
  <2>1. strand' \in Seq(TaskType)
    BY <1>1, <1>23, TasksTyped DEF PeerGoesAway, Report
  <2>2. n \in 0..(MaxId + 1)
    BY MaxIdAssumption
  <2>3. ConnOK'
    BY <1>0, <1>23, <2>2 DEF PeerGoesAway, Report, ConnOK
  <2> QED
    BY <1>0, <1>a, <1>23, <2>1, <2>3 DEF PeerGoesAway, Report, QueueOK, StreamOK, TodoOK,
       AnswerOK
<1>24. ASSUME NEW c \in Calls, StreamCloses(c) PROVE TypeOK'
  <2>1. strand' \in Seq(TaskType)
    BY <1>1, <1>24, TasksTyped DEF StreamCloses, Report
  <2> QED
    BY <1>0, <1>a, <1>24, <2>1 DEF StreamCloses, Report, ConnOK, QueueOK, StreamOK, TodoOK,
       AnswerOK
<1>25. CASE UNCHANGED vars
  BY <1>0, <1>a, <1>25 DEF vars, ConnOK, QueueOK, StreamOK, TodoOK, AnswerOK
<1> QED
  BY <1>2, <1>3, <1>4, <1>5, <1>6, <1>7, <1>8, <1>9, <1>10, <1>12, <1>13, <1>14, <1>15,
     <1>16, <1>17, <1>18, <1>19, <1>20, <1>21, <1>22, <1>23, <1>24, <1>25
  DEF Next, User, RunStep, RunTask, Peer

(* Every variable of the channel keeps its type: each queue holds only its *)
(* own kind of call, and a Connect is only ever told a status.             *)
THEOREM ChannelTypeCorrect == Safety => []TypeOK
BY InitTypes, TypeStep, PTL DEF Safety

-----------------------------------------------------------------------------
(* The order of the reports                                                 *)

LEMMA AppendRun ==
    ASSUME NEW q \in Seq(TaskType), NEW t \in TaskType
    PROVE  /\ \A k : ToRun(Append(q, t), k) <=> ToRun(q, k) \/ t.kind = k
           /\ First(q) /\ (t.kind = "connected" => \A k \in Reports : ~ToRun(q, k))
                  => First(Append(q, t))
           /\ Led(q) /\ (t.kind = "goaway" => ToRun(q, "connected")) => Led(Append(q, t))
<1> DEFINE n == Len(q)
           a == Append(q, t)
<1>1. /\ n \in Nat /\ Len(a) = n + 1 /\ a[n + 1] = t
      /\ \A i \in 1..n : a[i] = q[i]
  OBVIOUS
<1> HIDE DEF n, a
<1>2. \A i \in 1..(n + 1) : i \in 1..n \/ i = n + 1
  BY <1>1
<1>3. 1..n \subseteq 1..(n + 1) /\ n + 1 \in 1..(n + 1)
  BY <1>1
<1>4. ASSUME NEW k PROVE ToRun(a, k) <=> ToRun(q, k) \/ t.kind = k
  BY <1>1, <1>2, <1>3 DEF ToRun, n
<1>5. ASSUME First(q), t.kind = "connected" => \A k \in Reports : ~ToRun(q, k)
      PROVE  First(a)
  <2> SUFFICES ASSUME NEW i \in 1..(n + 1), NEW j \in 1..(n + 1), i < j,
                      a[j].kind = "connected"
               PROVE  a[i].kind \notin Reports
    BY <1>1 DEF First
  <2>1. i \in 1..n /\ a[i] = q[i]
    BY <1>1, <1>2
  <2>2. CASE j \in 1..n
    <3>1. a[j] = q[j]
      BY <1>1, <2>2
    <3> QED BY <1>5, <2>1, <2>2, <3>1 DEF First, n
  <2>3. CASE j = n + 1
    BY <1>1, <1>5, <2>1, <2>3 DEF ToRun, n
  <2> QED BY <1>2, <2>2, <2>3
<1>6. ASSUME Led(q), t.kind = "goaway" => ToRun(q, "connected")
      PROVE  Led(a)
  <2> SUFFICES ASSUME NEW j \in 1..(n + 1), a[j].kind = "goaway"
               PROVE  \E i \in 1..(n + 1) : i < j /\ a[i].kind = "connected"
    BY <1>1 DEF Led
  <2>1. CASE j \in 1..n
    <3>1. q[j].kind = "goaway"
      BY <1>1, <2>1
    <3>2. PICK i \in 1..n : i < j /\ q[i].kind = "connected"
      BY <1>6, <2>1, <3>1 DEF Led, n
    <3> QED BY <1>1, <1>3, <3>2
  <2>2. CASE j = n + 1
    <3>1. PICK i \in 1..n : q[i].kind = "connected"
      BY <1>1, <1>6, <2>2 DEF ToRun, n
    <3>2. i < j
      BY <1>1, <2>2
    <3> QED BY <1>1, <1>3, <3>1, <3>2
  <2> QED BY <1>2, <2>1, <2>2
<1> QED BY <1>4, <1>5, <1>6 DEF a

LEMMA TailRun ==
    ASSUME NEW q \in Seq(TaskType), q # <<>>
    PROVE  /\ \A k : ToRun(q, k) <=> Head(q).kind = k \/ ToRun(Tail(q), k)
           /\ First(q) => First(Tail(q))
           /\ First(q) /\ Head(q).kind \in Reports => ~ToRun(Tail(q), "connected")
           /\ Led(q) => Head(q).kind # "goaway"
           /\ Led(q) /\ Head(q).kind # "connected" => Led(Tail(q))
<1> DEFINE n == Len(q)
           r == Tail(q)
<1>1. /\ n \in Nat /\ n > 0 /\ Len(r) = n - 1 /\ Head(q) = q[1]
      /\ \A i \in 1..(n - 1) : r[i] = q[i + 1]
  OBVIOUS
<1> HIDE DEF n, r
<1>2. \A i \in 1..(n - 1) : i + 1 \in 1..n
  BY <1>1
<1>3. \A i \in 1..n : i = 1 \/ (i - 1 \in 1..(n - 1) /\ r[i - 1] = q[i])
  <2> SUFFICES ASSUME NEW i \in 1..n, i # 1
               PROVE  i - 1 \in 1..(n - 1) /\ r[i - 1] = q[i]
    OBVIOUS
  <2>1. i - 1 \in 1..(n - 1) /\ (i - 1) + 1 = i
    BY <1>1
  <2> QED BY <1>1, <2>1
<1>4. 1 \in 1..n
  BY <1>1
<1>5. ASSUME NEW k PROVE ToRun(q, k) <=> Head(q).kind = k \/ ToRun(r, k)
  <2>1. ToRun(q, k) => Head(q).kind = k \/ ToRun(r, k)
    BY <1>1, <1>3 DEF ToRun, n
  <2>2. Head(q).kind = k => ToRun(q, k)
    BY <1>1, <1>4 DEF ToRun, n
  <2>3. ToRun(r, k) => ToRun(q, k)
    BY <1>1, <1>2 DEF ToRun, n
  <2> QED BY <2>1, <2>2, <2>3
<1>6. First(q) => First(r)
  <2> SUFFICES ASSUME First(q), NEW i \in 1..(n - 1), NEW j \in 1..(n - 1), i < j,
                      r[j].kind = "connected"
               PROVE  r[i].kind \notin Reports
    BY <1>1 DEF First
  <2>1. i + 1 \in 1..n /\ j + 1 \in 1..n /\ i + 1 < j + 1
    BY <1>1
  <2>2. q[j + 1].kind = "connected" /\ r[i] = q[i + 1]
    BY <1>1
  <2> QED BY <2>1, <2>2 DEF First, n
<1>7. First(q) /\ Head(q).kind \in Reports => ~ToRun(r, "connected")
  <2> SUFFICES ASSUME First(q), NEW j \in 1..(n - 1), r[j].kind = "connected"
               PROVE  Head(q).kind \notin Reports
    BY <1>1 DEF ToRun
  <2>1. j + 1 \in 1..n /\ 1 < j + 1 /\ q[j + 1].kind = "connected"
    BY <1>1
  <2> QED BY <1>1, <1>4, <2>1 DEF First, n
<1>8. Led(q) => Head(q).kind # "goaway"
  BY <1>1, <1>4 DEF Led, n
<1>9. ASSUME Led(q), Head(q).kind # "connected" PROVE Led(r)
  <2> SUFFICES ASSUME NEW j \in 1..(n - 1), r[j].kind = "goaway"
               PROVE  \E i \in 1..(n - 1) : i < j /\ r[i].kind = "connected"
    BY <1>1 DEF Led
  <2>1. j + 1 \in 1..n /\ q[j + 1].kind = "goaway"
    BY <1>1
  <2>2. PICK i \in 1..n : i < j + 1 /\ q[i].kind = "connected"
    BY <1>9, <2>1 DEF Led, n
  <2>3. i # 1
    BY <1>1, <1>9, <2>2
  <2>4. i - 1 \in 1..(n - 1) /\ r[i - 1] = q[i]
    BY <1>3, <2>3
  <2>5. i - 1 < j
    BY <2>2
  <2> QED BY <2>2, <2>4, <2>5
<1> QED BY <1>5, <1>6, <1>7, <1>8, <1>9 DEF r

(* A change of the strand that brings and takes no report.                 *)
Quiet ==
    /\ \A k \in Reports : ToRun(strand', k) <=> ToRun(strand, k)
    /\ First(strand) => First(strand')
    /\ Led(strand) => Led(strand')

LEMMA QuietPost ==
    ASSUME strand \in Seq(TaskType), NEW t \in TaskType, t.kind \notin Reports, Post(t)
    PROVE  Quiet
<1>1. t.kind # "connected" /\ t.kind # "goaway"
  BY DEF Reports
<1> QED BY <1>1, AppendRun DEF Quiet, Post

LEMMA QuietStart ==
    ASSUME strand \in Seq(TaskType), NEW k, k \notin Reports, StartTask(k)
    PROVE  Quiet
<1>1. strand # <<>> /\ Head(strand).kind = k /\ strand' = Tail(strand) /\ k # "connected"
  BY DEF StartTask, Reports
<1> QED BY <1>1, TailRun DEF Quiet

LEMMA QuietIdle ==
    ASSUME UNCHANGED strand
    PROVE  Quiet
BY DEF Quiet

(* What the operations do to the connection: nothing, or dial from kIdle,  *)
(* which may end in the kShutdown of a TLS error; and only a ready channel *)
(* opens a stream.                                                         *)
Dials ==
    /\ UNCHANGED <<session, limit>>
    /\ \/ /\ UNCHANGED <<conn, connecting, link>>
          /\ active' = active \/ conn = "kReady"
       \/ /\ conn = "kIdle" /\ UNCHANGED active
          /\ \/ conn' = "kConnecting" /\ link' = "dialing"
             \/ conn' = "kShutdown" /\ UNCHANGED <<connecting, link>>

LEMMA SubmitDials ==
    ASSUME NEW c, NEW rest, Submit(c, rest)
    PROVE  Dials
BY DEF Submit, Refuse, Queue, Open, DoConnect, Dials, sessionVars, streamVars, linkVars

LEMMA ConnectDials ==
    ASSUME NEW w, NEW rest, Connect(w, rest)
    PROVE  Dials
BY DEF Connect, DoConnect, Dials, sessionVars, streamVars, linkVars

LEMMA DialsLink ==
    ASSUME TypeOK, LinkInv, Dials, Quiet
    PROVE  LinkInv'
<1>1. CASE UNCHANGED <<conn, connecting, link>>
  BY <1>1 DEF LinkInv, Dials, Quiet, Reports
<1>2. CASE /\ conn = "kIdle" /\ UNCHANGED active
           /\ conn' = "kConnecting" /\ link' = "dialing"
  <2>1. /\ link = "none" /\ limit' = MaxId + 1
        /\ \A k \in Reports : ~ToRun(strand', k)
    BY <1>2 DEF LinkInv, Dials, Quiet
  <2>2. Led(strand')
    <3>1. ~ToRun(strand', "goaway")
      BY <2>1 DEF Reports
    <3> QED BY <3>1 DEF ToRun, Led
  <2>3. ~(limit' <= MaxId) /\ ~ToRun(strand', "connected")
    BY <2>1, MaxIdAssumption DEF Reports
  <2> QED BY <1>2, <2>1, <2>2, <2>3 DEF LinkInv, Quiet
<1>3. CASE conn = "kIdle" /\ UNCHANGED active /\ conn' = "kShutdown" /\ UNCHANGED <<connecting, link>>
  <2>1. link' = "none" /\ limit' = MaxId + 1 /\ \A k \in Reports : ~ToRun(strand', k)
    BY <1>3 DEF LinkInv, Dials, Quiet
  <2> QED BY <1>3, <2>1 DEF LinkInv, Quiet, Reports
<1> QED BY <1>1, <1>2, <1>3 DEF Dials

(* DoShutdown takes the link down, if there is one.                        *)
LEMMA ShutdownLink ==
    ASSUME TypeOK, LinkInv, NEW rest, DoShutdown(rest), Quiet
    PROVE  LinkInv'
<1>1. CASE conn = "kShutdown"
  BY <1>1 DEF DoShutdown, LinkInv, Quiet, Reports, streamVars
<1>2. CASE conn # "kShutdown"
  BY <1>2 DEF DoShutdown, LinkInv, Quiet, Reports, streamVars
<1> QED BY <1>1, <1>2

LEMMA InitLink == Init => LinkInv
<1> SUFFICES ASSUME Init PROVE LinkInv
  OBVIOUS
<1>1. \A k : ~ToRun(strand, k)
  BY DEF Init, ToRun
<1>2. First(strand) /\ Led(strand)
  BY DEF Init, First, Led
<1>3. ~(limit <= MaxId)
  BY MaxIdAssumption DEF Init
<1> QED BY <1>1, <1>2, <1>3 DEF Init, LinkInv

LEMMA LinkStep == TypeOK /\ LinkInv /\ [Next]_vars => LinkInv'
<1> SUFFICES ASSUME TypeOK, LinkInv, [Next]_vars PROVE LinkInv'
  OBVIOUS
<1>0. strand \in Seq(TaskType)
  BY DEF TypeOK
<1>a. ASSUME Quiet, UNCHANGED <<conn, connecting, session, link, active, limit>>
      PROVE  LinkInv'
  BY <1>a, DialsLink DEF Dials
<1> USE DEF sessionVars, queueVars, streamVars, linkVars
<1>1. ASSUME NEW t, Post(t), t \in TaskType, t.kind \in {"call", "connect", "shutdown", "close"}
      PROVE  Quiet
  BY <1>0, <1>1, QuietPost DEF Reports
<1>2. ASSUME NEW k \in {"call", "connect", "shutdown", "close"}, StartTask(k)
      PROVE  Quiet
  BY <1>0, <1>2, QuietStart DEF Reports
<1>3. ASSUME NEW c \in Calls, UserCalls(c) PROVE LinkInv'
  <2>1. Quiet
    BY <1>1, <1>3, TasksTyped DEF UserCalls, Task
  <2> QED BY <1>a, <1>3, <2>1 DEF UserCalls
<1>4. ASSUME NEW w \in Waiters, UserConnects(w) PROVE LinkInv'
  <2>1. Quiet
    BY <1>1, <1>4, TasksTyped DEF UserConnects, Task
  <2> QED BY <1>a, <1>4, <2>1 DEF UserConnects
<1>5. CASE UserShutsDown
  <2>1. Quiet
    BY <1>1, <1>5, TasksTyped DEF UserShutsDown, Task
  <2> QED BY <1>a, <1>5, <2>1 DEF UserShutsDown
<1>6. ASSUME NEW c \in Calls, InlineCall(c) PROVE LinkInv'
  BY <1>6, QuietIdle, SubmitDials, DialsLink DEF InlineCall
<1>7. ASSUME NEW w \in Waiters, InlineConnect(w) PROVE LinkInv'
  BY <1>7, QuietIdle, ConnectDials, DialsLink DEF InlineConnect
<1>8. CASE InlineShutdown
  BY <1>8, QuietIdle, ShutdownLink DEF InlineShutdown
<1>9. ASSUME NEW c \in Calls, CallEnds(c) PROVE LinkInv'
  BY <1>a, <1>9, QuietIdle DEF CallEnds
<1>10. CASE Tell \/ DrainQueue \/ FailAll
  BY <1>a, <1>10, QuietIdle DEF Tell, DrainQueue, FailAll
<1>11. CASE Resubmit
  BY <1>11, QuietIdle, SubmitDials, DialsLink DEF Resubmit
<1>12. CASE FailActive
  <2>1. Quiet
    BY <1>12, QuietIdle DEF FailActive
  <2> QED BY <1>12, <2>1 DEF FailActive, LinkInv
<1>13. CASE RunCall
  BY <1>2, <1>13, SubmitDials, DialsLink DEF RunCall
<1>14. CASE RunConnect
  BY <1>2, <1>14, ConnectDials, DialsLink DEF RunConnect
<1>15. CASE RunShutdown
  BY <1>2, <1>15, ShutdownLink DEF RunShutdown
<1>16. CASE RunConnected
  <2>1. strand # <<>> /\ Head(strand).kind = "connected" /\ strand' = Tail(strand)
    BY <1>16 DEF RunConnected, StartTask
  <2>2. /\ ToRun(strand, "connected") /\ ~ToRun(strand', "connected") /\ First(strand')
    BY <1>0, <2>1, TailRun DEF LinkInv, Reports
  <2>3. conn \in {"kConnecting", "kShutdown"} /\ limit = MaxId + 1 /\ link \in {"up", "down"}
    BY <2>2 DEF LinkInv, TypeOK, Reports
  <2>4. ~(limit <= MaxId)
    BY <2>3, MaxIdAssumption
  <2> QED BY <1>16, <2>2, <2>3, <2>4 DEF RunConnected, LinkInv
<1>17. CASE RunError
  <2>1. strand # <<>> /\ Head(strand).kind = "error" /\ strand' = Tail(strand)
    BY <1>17 DEF RunError, StartTask
  <2>2. /\ ToRun(strand, "error") /\ ~ToRun(strand', "connected") /\ First(strand')
    BY <1>0, <2>1, TailRun DEF LinkInv, Reports
  <2>3. link \in {"up", "down"}
    BY <2>2 DEF LinkInv, TypeOK, Reports
  <2>4. conn' \in {conn, "kFailed"} /\ conn' # "kConnecting" /\ UNCHANGED <<link, limit>>
    BY <1>17 DEF RunError
  <2> QED BY <1>17, <2>2, <2>3, <2>4 DEF RunError, LinkInv
<1>18. CASE RunGoaway
  <2>1. strand # <<>> /\ Head(strand).kind = "goaway" /\ strand' = Tail(strand)
    BY <1>18 DEF RunGoaway, StartTask
  <2>2. /\ ToRun(strand, "goaway") /\ ~ToRun(strand', "connected") /\ First(strand')
    BY <1>0, <2>1, TailRun DEF LinkInv, Reports
  <2>3. link \in {"up", "down"}
    BY <2>2 DEF LinkInv, TypeOK, Reports
  <2>4. conn' \in {"kFailed", "kShutdown"} /\ UNCHANGED link
    BY <1>18 DEF RunGoaway
  <2> QED BY <1>18, <2>2, <2>3, <2>4 DEF LinkInv
<1>19. CASE RunClose
  <2>1. Quiet
    BY <1>2, <1>19 DEF RunClose
  <2> QED BY <1>19, <2>1 DEF RunClose, LinkInv, Quiet, Reports
<1>20. CASE LinkUp
  <2>1. Task("connected", "none") \in TaskType /\ Task("connected", "none").kind = "connected"
    BY TasksTyped DEF Task
  <2>2. /\ conn = "kConnecting" /\ limit = MaxId + 1 /\ \A k \in Reports : ~ToRun(strand, k)
    BY <1>20 DEF LinkUp, LinkInv
  <2>3. ToRun(strand', "connected") /\ First(strand') /\ Led(strand')
    BY <1>0, <1>20, <2>1, <2>2, AppendRun DEF LinkUp, Report, Post, LinkInv
  <2> QED BY <1>20, <2>2, <2>3, MaxIdAssumption DEF LinkUp, Report, LinkInv
<1>21. CASE LinkFails
  <2>1. Task("error", "none") \in TaskType /\ Task("error", "none").kind = "error"
    BY TasksTyped DEF Task
  <2>2. /\ ToRun(strand', "connected") <=> ToRun(strand, "connected")
        /\ First(strand') /\ (Led(strand) => Led(strand'))
    BY <1>0, <1>21, <2>1, AppendRun DEF LinkFails, Report, Post, LinkInv
  <2> QED BY <1>21, <2>2 DEF LinkFails, Report, LinkInv
<1>22. ASSUME NEW n \in 0..MaxId, PeerGoesAway(n) PROVE LinkInv'
  <2>1. Goaway(n) \in TaskType /\ Goaway(n).kind = "goaway"
    BY TasksTyped DEF Goaway
  <2>2. /\ ToRun(strand', "connected") <=> ToRun(strand, "connected")
        /\ First(strand') /\ (conn = "kConnecting" => Led(strand'))
    BY <1>0, <1>22, <2>1, AppendRun DEF PeerGoesAway, Report, Post, LinkInv
  <2> QED BY <1>22, <2>2 DEF PeerGoesAway, Report, LinkInv
<1>23. ASSUME NEW c \in Calls, StreamCloses(c) PROVE LinkInv'
  <2>1. Quiet
    BY <1>1, <1>23, TasksTyped DEF StreamCloses, Report, Task
  <2> QED BY <1>a, <1>23, <2>1 DEF StreamCloses, Report
<1>24. CASE UNCHANGED vars
  BY <1>a, <1>24, QuietIdle DEF vars
<1> QED
  BY <1>3, <1>4, <1>5, <1>6, <1>7, <1>8, <1>9, <1>10, <1>11, <1>12, <1>13, <1>14, <1>15,
     <1>16, <1>17, <1>18, <1>19, <1>20, <1>21, <1>22, <1>23, <1>24
  DEF Next, User, RunStep, RunTask, Peer

(* After a GOAWAY nothing is opened: the channel is not ready any more.    *)
LEMMA GoawayStep == TypeOK /\ LinkInv /\ GoawayHolds /\ [Next]_vars => GoawayHolds'
<1> SUFFICES ASSUME TypeOK, LinkInv, GoawayHolds, [Next]_vars PROVE GoawayHolds'
  OBVIOUS
<1> USE DEF sessionVars, queueVars, streamVars, linkVars
<1>1. ASSUME UNCHANGED <<id, limit>>, active' \subseteq active
      PROVE  GoawayHolds'
  BY <1>1 DEF GoawayHolds
<1>2. ASSUME NEW c, NEW rest, Submit(c, rest)
      PROVE  GoawayHolds'
  <2>1. CASE UNCHANGED <<id, limit, active>>
    BY <1>1, <2>1
  <2>2. CASE Open(c, rest) /\ conn = "kReady"
    BY <2>2 DEF Open, LinkInv, GoawayHolds
  <2> QED BY <1>2, <2>1, <2>2 DEF Submit, Refuse, Queue
<1>3. ASSUME NEW w, NEW rest, Connect(w, rest)
      PROVE  GoawayHolds'
  BY <1>1, <1>3 DEF Connect
<1>4. CASE User
  BY <1>1, <1>2, <1>3, <1>4 DEF User, UserCalls, InlineCall, CallEnds, UserConnects,
     InlineConnect, UserShutsDown, InlineShutdown, DoShutdown
<1>5. CASE RunStep
  BY <1>1, <1>2, <1>5 DEF RunStep, Tell, Resubmit, DrainQueue, FailAll, FailActive
<1>6. CASE RunCall \/ RunConnect \/ RunShutdown \/ RunConnected \/ RunError \/ RunClose
  BY <1>1, <1>2, <1>3, <1>6 DEF RunCall, RunConnect, RunShutdown, DoShutdown,
     RunConnected, RunError, RunClose
<1>7. CASE RunGoaway
  <2>1. CASE conn = "kShutdown"
    BY <1>1, <1>7, <2>1 DEF RunGoaway
  <2>2. CASE conn # "kShutdown"
    <3> DEFINE n == Head(strand).last
    <3>1. n \in 0..MaxId
      BY <1>7, StartFacts, TaskFields DEF RunGoaway
    <3> HIDE DEF n
    <3>2. /\ active' = active \ Unaccepted(n) /\ UNCHANGED id
          /\ limit' = IF n < limit THEN n ELSE limit
      BY <1>7, <2>2 DEF RunGoaway, n
    <3>3. limit \in Nat /\ n \in Nat /\ MaxId \in Nat /\ \A c \in active : id[c] \in Nat
      BY <3>1, MaxIdAssumption DEF TypeOK
    <3> SUFFICES ASSUME NEW c \in active' PROVE id[c] <= limit'
      BY <3>2 DEF GoawayHolds
    <3>4. c \in active /\ id[c] <= n
      BY <3>2, <3>3 DEF Unaccepted
    <3>5. CASE n < limit
      BY <3>2, <3>4, <3>5
    <3>6. CASE ~(n < limit)
      <4>1. limit <= MaxId
        BY <3>1, <3>3, <3>6
      <4> QED BY <3>2, <3>4, <3>6, <4>1 DEF GoawayHolds
    <3> QED BY <3>5, <3>6
  <2> QED BY <2>1, <2>2
<1>8. CASE Peer
  BY <1>1, <1>8 DEF Peer, LinkUp, LinkFails, PeerGoesAway, StreamCloses, Report
<1>9. CASE UNCHANGED vars
  BY <1>1, <1>9 DEF vars
<1> QED
  BY <1>4, <1>5, <1>6, <1>7, <1>8, <1>9 DEF Next, RunTask

(* Once a GOAWAY is handled, no stream above its last_stream_id stays in   *)
(* the maps, and no later stream gets in, whatever the user calls back.    *)
THEOREM GoawayIsHonoured == Safety => []GoawayHolds
<1>1. Init => TypeOK /\ LinkInv /\ GoawayHolds
  <2>1. Init => GoawayHolds
    BY DEF Init, GoawayHolds
  <2> QED BY <2>1, InitTypes, InitLink
<1>2. TypeOK /\ LinkInv /\ GoawayHolds /\ [Next]_vars => (TypeOK /\ LinkInv /\ GoawayHolds)'
  BY TypeStep, LinkStep, GoawayStep
<1> QED
  BY <1>1, <1>2, PTL DEF Safety

-----------------------------------------------------------------------------
(* A settled channel is drained                                             *)

LEMMA ToDoConcat ==
    ASSUME NEW p \in Seq(StepType), NEW q \in Seq(StepType), NEW k
    PROVE  /\ p \o q \in Seq(StepType)
           /\ ToDo(p \o q, k) <=> ToDo(p, k) \/ ToDo(q, k)
<1> DEFINE r == p \o q
<1>1. /\ r \in Seq(StepType) /\ Len(p) \in Nat /\ Len(q) \in Nat
      /\ Len(r) = Len(p) + Len(q)
      /\ \A i \in 1..Len(p) : r[i] = p[i]
      /\ \A i \in 1..Len(q) : r[Len(p) + i] = q[i]
  OBVIOUS
<1> HIDE DEF r
<1>2. /\ \A i \in 1..Len(p) : i \in 1..Len(r)
      /\ \A i \in 1..Len(q) : Len(p) + i \in 1..Len(r)
      /\ \A i \in 1..Len(r) : i \in 1..Len(p) \/
             (i - Len(p) \in 1..Len(q) /\ Len(p) + (i - Len(p)) = i)
  BY <1>1
<1>3. ToDo(p, k) \/ ToDo(q, k) => ToDo(r, k)
  BY <1>1, <1>2 DEF ToDo
<1>4. ASSUME ToDo(r, k) PROVE ToDo(p, k) \/ ToDo(q, k)
  <2>1. PICK i \in 1..Len(r) : r[i].do = k
    BY <1>4 DEF ToDo
  <2>2. CASE i \in 1..Len(p)
    BY <1>1, <2>1, <2>2 DEF ToDo
  <2>3. CASE i - Len(p) \in 1..Len(q) /\ Len(p) + (i - Len(p)) = i
    <3>1. r[i] = q[i - Len(p)]
      BY <1>1, <2>3
    <3> QED BY <2>1, <2>3, <3>1 DEF ToDo
  <2> QED BY <1>2, <2>2, <2>3
<1> QED BY <1>1, <1>3, <1>4 DEF r

LEMMA ToDoTail ==
    ASSUME NEW q \in Seq(StepType), q # <<>>, NEW k, ToDo(q, k), Head(q).do # k
    PROVE  ToDo(Tail(q), k)
<1>1. PICK i \in 1..Len(q) : q[i].do = k
  BY DEF ToDo
<1>2. i # 1
  BY <1>1
<1>3. i - 1 \in 1..Len(Tail(q)) /\ Tail(q)[i - 1] = q[i]
  BY <1>2
<1> QED BY <1>1, <1>3 DEF ToDo

LEMMA ToDoOne ==
    /\ \A k, x, s : ToDo(<<Step(k, x, s)>>, k)
    /\ \A k, x, s, l, y, t : /\ ToDo(<<Step(k, x, s), Step(l, y, t)>>, k)
                             /\ ToDo(<<Step(k, x, s), Step(l, y, t)>>, l)
<1>1. ASSUME NEW k, NEW x, NEW s PROVE ToDo(<<Step(k, x, s)>>, k)
  BY StepDo DEF ToDo
<1>2. ASSUME NEW k, NEW x, NEW s, NEW l, NEW y, NEW t
      PROVE  /\ ToDo(<<Step(k, x, s), Step(l, y, t)>>, k)
             /\ ToDo(<<Step(k, x, s), Step(l, y, t)>>, l)
  <2> DEFINE q == <<Step(k, x, s), Step(l, y, t)>>
  <2>1. Len(q) = 2 /\ q[1].do = k /\ q[2].do = l
    BY StepDo
  <2> QED BY <2>1 DEF ToDo
<1> QED BY <1>1, <1>2

(* The three steps that drain something.                                   *)
Drains == {"drain", "failAll", "failActive"}

(* Connect callbacks, then some steps, then the rest.                      *)
LEMMA TellThen ==
    ASSUME NEW ws \in Seq(Waiters), NEW s \in Status, NEW p \in Seq(StepType),
           NEW rest \in Seq(StepType), NEW k
    PROVE  ToDo(p, k) \/ ToDo(rest, k) => ToDo(Each("tell", ws, s) \o p \o rest, k)
<1>1. Each("tell", ws, s) \in Seq(StepType)
  BY StepsTyped, EachFacts
<1> DEFINE e == Each("tell", ws, s)
<1> HIDE DEF e
<1>2. e \o p \in Seq(StepType) /\ (ToDo(p, k) => ToDo(e \o p, k))
  BY <1>1, ToDoConcat DEF e
<1>3. ToDo(e \o p, k) \/ ToDo(rest, k) => ToDo((e \o p) \o rest, k)
  BY <1>2, ToDoConcat
<1> QED BY <1>2, <1>3 DEF e

(* rest has every draining step that todo has.                             *)
Keeps(rest) == \A k \in Drains : ToDo(todo, k) => ToDo(rest, k)

LEMMA KeepsTail ==
    ASSUME TypeOK, NEW j, j \notin Drains, TakeStep(j)
    PROVE  Keeps(Tail(todo))
BY ToDoTail DEF Keeps, TakeStep, TypeOK

LEMMA KeepsAll == Keeps(todo)
BY DEF Keeps

(* Steps that leave the connection and the queues alone, or empty them.    *)
LEMMA IdleDrain ==
    ASSUME DrainInv, UNCHANGED <<conn, session, connecting, waiters>>,
           pending' \in {pending, <<>>}, generic' \in {generic, <<>>},
           active' = active \/ active' = {}, Keeps(todo')
    PROVE  DrainInv'
BY DEF DrainInv, Keeps, Drains

(* DoConnect leaves kIdle; its failure puts everything in the handler.     *)
LEMMA DoConnectDrain ==
    ASSUME TypeOK, LinkInv, conn = "kIdle", NEW ws \in Seq(Waiters),
           NEW rest \in Seq(StepType), DoConnect(ws, rest), UNCHANGED active
    PROVE  DrainInv'
<1>1. ~session /\ ~connecting /\ active = {}
  BY DEF LinkInv
<1>2. CASE conn' = "kConnecting"
  BY <1>2 DEF DrainInv, Settled
<1>3. CASE /\ conn' = "kShutdown" /\ waiters' = <<>> /\ UNCHANGED <<connecting, session>>
           /\ todo' = Each("tell", ws, "INVALID_ARGUMENT")
                        \o <<Step("failAll", "none", "INVALID_ARGUMENT")>> \o rest
  <2>1. "INVALID_ARGUMENT" \in Status
    BY DEF Status
  <2> DEFINE p == <<Step("failAll", "none", "INVALID_ARGUMENT")>>
  <2>2. p \in Seq(StepType) /\ ToDo(p, "failAll")
    BY <2>1, StepsTyped, ToDoOne
  <2>3. todo' = Each("tell", ws, "INVALID_ARGUMENT") \o p \o rest
    BY <1>3
  <2> HIDE DEF p
  <2>4. ToDo(todo', "failAll")
    BY <2>1, <2>2, <2>3, TellThen
  <2> QED BY <1>1, <1>3, <2>4 DEF DrainInv
<1> QED BY <1>2, <1>3 DEF DoConnect

LEMMA ConnectDrain ==
    ASSUME TypeOK, LinkInv, DrainInv, NEW w \in Waiters, NEW rest \in Seq(StepType),
           Keeps(rest), Connect(w, rest)
    PROVE  DrainInv'
<1> USE DEF sessionVars, queueVars, streamVars, linkVars
<1>1. CASE conn = "kIdle"
  <2>1. Append(waiters, w) \in Seq(Waiters)
    BY DEF TypeOK
  <2> QED BY <1>1, <2>1, DoConnectDrain DEF Connect
<1>2. CASE conn = "kConnecting"
  BY <1>2 DEF Connect, DrainInv, Settled
<1>3. CASE conn \in Settled
  BY <1>3, IdleDrain DEF Connect, Settled
<1> QED BY <1>1, <1>2, <1>3 DEF TypeOK, ConnState, Settled

LEMMA SubmitDrain ==
    ASSUME TypeOK, LinkInv, DrainInv, NEW c \in Calls, NEW rest \in Seq(StepType),
           Keeps(rest), Submit(c, rest)
    PROVE  DrainInv'
<1> USE DEF sessionVars, queueVars, streamVars, linkVars
<1>1. ASSUME NEW s, Refuse(c, s, rest) PROVE DrainInv'
  BY <1>1, IdleDrain DEF Refuse
<1>2. CASE conn = "kIdle" /\ Queue(c, rest)
  BY <1>2, DoConnectDrain DEF Queue, TypeOK
<1>3. CASE conn = "kConnecting" /\ Queue(c, rest)
  BY <1>3 DEF Queue, DrainInv, Settled
<1>4. CASE conn = "kReady" /\ Open(c, rest)
  BY <1>4 DEF Open, DrainInv, Keeps, Drains
<1> QED BY <1>1, <1>2, <1>3, <1>4 DEF Submit

LEMMA ShutdownDrain ==
    ASSUME TypeOK, DrainInv, NEW rest \in Seq(StepType), Keeps(rest), DoShutdown(rest)
    PROVE  DrainInv'
<1> USE DEF sessionVars, queueVars, streamVars, linkVars
<1>1. CASE conn = "kShutdown"
  BY <1>1, IdleDrain DEF DoShutdown
<1>2. CASE conn # "kShutdown"
  <2> DEFINE p == <<Step("failActive", "none", "CANCELLED"), Step("failAll", "none", "CANCELLED")>>
  <2>1. "CANCELLED" \in Status /\ waiters \in Seq(Waiters)
    BY DEF Status, TypeOK
  <2>2. p \in Seq(StepType) /\ ToDo(p, "failActive") /\ ToDo(p, "failAll")
    BY <2>1, StepsTyped, ToDoOne
  <2>3. todo' = Each("tell", waiters, "CANCELLED") \o p \o rest
    BY <1>2 DEF DoShutdown
  <2> HIDE DEF p
  <2>4. ToDo(todo', "failActive") /\ ToDo(todo', "failAll")
    BY <2>1, <2>2, <2>3, TellThen
  <2> QED BY <1>2, <2>4 DEF DoShutdown, DrainInv
<1> QED BY <1>1, <1>2

LEMMA InitDrain == Init => DrainInv
BY DEF Init, DrainInv, Settled

LEMMA DrainStep == TypeOK /\ LinkInv /\ DrainInv /\ [Next]_vars => DrainInv'
<1> SUFFICES ASSUME TypeOK, LinkInv, DrainInv, [Next]_vars PROVE DrainInv'
  OBVIOUS
<1>0. todo \in Seq(StepType) /\ strand \in Seq(TaskType) /\ waiters \in Seq(Waiters)
  BY DEF TypeOK
<1> USE KeepsAll DEF sessionVars, queueVars, streamVars, linkVars
<1>1. CASE User
  <2>1. ASSUME NEW c \in Calls, UserCalls(c) \/ CallEnds(c) PROVE DrainInv'
    BY <2>1, IdleDrain DEF UserCalls, CallEnds
  <2>2. ASSUME NEW w \in Waiters, UserConnects(w) PROVE DrainInv'
    BY <2>2, IdleDrain DEF UserConnects
  <2>3. CASE UserShutsDown
    BY <2>3, IdleDrain DEF UserShutsDown
  <2>4. ASSUME NEW c \in Calls, InlineCall(c) PROVE DrainInv'
    BY <1>0, <2>4, SubmitDrain DEF InlineCall
  <2>5. ASSUME NEW w \in Waiters, InlineConnect(w) PROVE DrainInv'
    BY <1>0, <2>5, ConnectDrain DEF InlineConnect
  <2>6. CASE InlineShutdown
    BY <1>0, <2>6, ShutdownDrain DEF InlineShutdown
  <2> QED BY <1>1, <2>1, <2>2, <2>3, <2>4, <2>5, <2>6 DEF User
<1>2. CASE Tell
  <2>1. Keeps(Tail(todo))
    BY <1>2, KeepsTail DEF Tell, Drains
  <2> QED BY <1>2, <2>1, IdleDrain DEF Tell
<1>3. CASE Resubmit
  <2>1. Keeps(Tail(todo))
    BY <1>3, KeepsTail DEF Resubmit, Drains
  <2>2. Head(todo).for \in Calls /\ Tail(todo) \in Seq(StepType)
    BY <1>3, TakeFacts, StepFields DEF Resubmit
  <2> QED BY <1>3, <2>1, <2>2, SubmitDrain DEF Resubmit
<1>4. \A c \in Unary \cup Streaming : Step("submit", c, "none") \in StepType
  BY StepsTyped DEF Calls
<1>5. CASE DrainQueue
  <2>1. ToDo(todo, "failActive") => ToDo(Tail(todo), "failActive")
    BY <1>0, <1>5, ToDoTail DEF DrainQueue, TakeStep
  <2>2. Tail(todo) \in Seq(StepType)
    BY <1>5, TakeFacts DEF DrainQueue
  <2> DEFINE p == Each("submit", pending, "none")
             g == Each("submit", generic, "none")
  <2>3. p \in Seq(StepType) /\ g \in Seq(StepType)
    BY <1>4, EachFacts DEF TypeOK
  <2>4. todo' = (p \o g) \o Tail(todo)
    BY <1>5 DEF DrainQueue
  <2> HIDE DEF p, g
  <2>5. p \o g \in Seq(StepType)
    BY <2>3, ConcatType
  <2>6. ToDo(Tail(todo), "failActive") => ToDo(todo', "failActive")
    BY <2>2, <2>4, <2>5, ToDoConcat
  <2> QED BY <1>5, <2>1, <2>6 DEF DrainQueue, DrainInv
<1>6. CASE FailAll
  <2>1. ToDo(todo, "failActive") => ToDo(Tail(todo), "failActive")
    BY <1>0, <1>6, ToDoTail DEF FailAll, TakeStep
  <2>2. Tail(todo) \in Seq(StepType)
    BY <1>6, TakeFacts DEF FailAll
  <2> DEFINE g == Each("submit", generic, "none")
  <2>3. g \in Seq(StepType)
    BY <1>4, EachFacts DEF TypeOK
  <2>4. todo' = g \o Tail(todo)
    BY <1>6 DEF FailAll
  <2> HIDE DEF g
  <2>5. ToDo(Tail(todo), "failActive") => ToDo(todo', "failActive")
    BY <2>2, <2>3, <2>4, ToDoConcat
  <2> QED BY <1>6, <2>1, <2>5 DEF FailAll, DrainInv
<1>7. CASE FailActive
  <2>1. \A k \in {"drain", "failAll"} : ToDo(todo, k) => ToDo(Tail(todo), k)
    BY <1>0, <1>7, ToDoTail DEF FailActive, TakeStep
  <2> QED BY <1>7, <2>1 DEF FailActive, DrainInv
<1>8. \A k : ~ToDo(<<>>, k)
  BY DEF ToDo
<1>9. CASE RunCall
  <2>1. Head(strand).for \in Calls /\ Keeps(<<>>) /\ <<>> \in Seq(StepType)
    BY <1>0, <1>9, StartFacts, TaskFields DEF RunCall
  <2> QED BY <1>9, <2>1, SubmitDrain DEF RunCall
<1>10. CASE RunConnect
  <2>1. Head(strand).for \in Waiters /\ Keeps(<<>>) /\ <<>> \in Seq(StepType)
    BY <1>0, <1>10, StartFacts, TaskFields DEF RunConnect
  <2> QED BY <1>10, <2>1, ConnectDrain DEF RunConnect
<1>11. CASE RunShutdown
  <2>1. Keeps(<<>>) /\ <<>> \in Seq(StepType)
    BY <1>0, <1>11, StartFacts DEF RunShutdown
  <2> QED BY <1>11, <2>1, ShutdownDrain DEF RunShutdown
<1>12. CASE RunConnected
  <2>1. CASE conn = "kShutdown"
    BY <1>12, <2>1 DEF RunConnected, DrainInv
  <2>2. CASE conn # "kShutdown"
    <3> DEFINE e == Each("tell", waiters, "OK")
               p == <<Step("drain", "none", "none")>>
    <3>1. e \in Seq(StepType)
      BY <1>0, StepsTyped, EachFacts DEF Status
    <3>2. p \in Seq(StepType) /\ ToDo(p, "drain")
      BY StepsTyped, ToDoOne
    <3>3. todo' = e \o p
      BY <1>12, <2>2 DEF RunConnected
    <3> HIDE DEF e, p
    <3>4. ToDo(todo', "drain")
      BY <3>1, <3>2, <3>3, ToDoConcat
    <3> QED BY <1>12, <2>2, <3>4 DEF RunConnected, DrainInv
  <2> QED BY <2>1, <2>2
<1>13. CASE RunError
  <2>1. CASE conn = "kShutdown"
    BY <1>13, <2>1 DEF RunError, DrainInv
  <2>2. CASE conn = "kReady"
    BY <1>13, <2>2, ToDoOne DEF RunError, DrainInv, Settled
  <2>3. CASE conn \notin {"kShutdown", "kReady"}
    <3>1. "CONN_ERROR" \in Status
      BY DEF Status
    <3> DEFINE e == Each("tell", waiters, "CONN_ERROR")
               p == <<Step("failAll", "none", "CONN_ERROR")>>
    <3>2. e \in Seq(StepType)
      BY <1>0, <3>1, StepsTyped, EachFacts
    <3>3. p \in Seq(StepType) /\ ToDo(p, "failAll")
      BY <3>1, StepsTyped, ToDoOne
    <3>4. todo' = e \o p
      BY <1>13, <2>3 DEF RunError
    <3> HIDE DEF e, p
    <3>5. ToDo(todo', "failAll")
      BY <3>2, <3>3, <3>4, ToDoConcat
    <3> QED BY <1>13, <2>3, <3>5 DEF RunError, DrainInv
  <2> QED BY <2>1, <2>2, <2>3
<1>14. CASE RunGoaway
  <2>1. CASE conn = "kShutdown"
    BY <1>14, <2>1 DEF RunGoaway, DrainInv
  <2>2. CASE conn # "kShutdown"
    <3>1. ToRun(strand, "goaway") /\ (conn = "kConnecting" => Head(strand).kind # "goaway")
      BY <1>0, <1>14, TailRun DEF RunGoaway, StartTask, LinkInv
    <3>2. conn \in Settled
      BY <1>14, <3>1 DEF RunGoaway, StartTask, LinkInv, Reports, TypeOK, ConnState, Settled
    <3>3. ToDo(todo', "failAll")
      BY <1>14, <2>2, ToDoOne DEF RunGoaway
    <3> QED BY <1>14, <2>2, <3>2, <3>3 DEF RunGoaway, DrainInv
  <2> QED BY <2>1, <2>2
<1>15. CASE RunClose
  BY <1>15 DEF RunClose, DrainInv
<1>16. CASE Peer
  BY <1>16, IdleDrain DEF Peer, LinkUp, LinkFails, PeerGoesAway, StreamCloses, Report
<1>17. CASE UNCHANGED vars
  BY <1>17, IdleDrain DEF vars
<1> QED
  BY <1>1, <1>2, <1>3, <1>5, <1>6, <1>7, <1>9, <1>10, <1>11, <1>12, <1>13, <1>14, <1>15,
     <1>16, <1>17
  DEF Next, RunStep, RunTask

(* A channel that has settled holds back neither a Connect nor a call once *)
(* its handler has ended, even if users called back into it; a ready one   *)
(* has a session, a shut down one neither session nor stream.              *)
THEOREM SettledChannelIsDrained == Safety => []SettledIsDrained
<1>1. DrainInv => SettledIsDrained
  <2>1. \A k : ~ToDo(<<>>, k)
    BY DEF ToDo
  <2> QED BY <2>1 DEF DrainInv, SettledIsDrained
<1>2. Init => TypeOK /\ LinkInv /\ DrainInv
  BY InitTypes, InitLink, InitDrain
<1>3. TypeOK /\ LinkInv /\ DrainInv /\ [Next]_vars => (TypeOK /\ LinkInv /\ DrainInv)'
  BY TypeStep, LinkStep, DrainStep
<1> QED
  BY <1>1, <1>2, <1>3, PTL DEF Safety

-----------------------------------------------------------------------------
(* One place for every call                                                 *)

LEMMA HasAppend ==
    ASSUME NEW S, NEW q \in Seq(S), NEW t \in S, NEW x
    PROVE  /\ Has(Append(q, t), x) <=> Has(q, x) \/ t = x
           /\ Once(q, x) /\ (t = x => ~Has(q, x)) => Once(Append(q, t), x)
<1> DEFINE n == Len(q)
           a == Append(q, t)
<1>1. /\ n \in Nat /\ Len(a) = n + 1 /\ a[n + 1] = t
      /\ \A i \in 1..n : a[i] = q[i]
  OBVIOUS
<1> HIDE DEF n, a
<1>2. \A i \in 1..(n + 1) : i \in 1..n \/ i = n + 1
  BY <1>1
<1>3. 1..n \subseteq 1..(n + 1) /\ n + 1 \in 1..(n + 1)
  BY <1>1
<1>4. Has(a, x) <=> Has(q, x) \/ t = x
  BY <1>1, <1>2, <1>3 DEF Has, n
<1>5. ASSUME Once(q, x), t = x => ~Has(q, x) PROVE Once(a, x)
  BY <1>1, <1>2, <1>5 DEF Has, Once, n
<1> QED BY <1>4, <1>5 DEF a

LEMMA HasTail ==
    ASSUME NEW S, NEW q \in Seq(S), q # <<>>, NEW x
    PROVE  /\ Has(q, x) <=> Head(q) = x \/ Has(Tail(q), x)
           /\ Once(q, x) => Once(Tail(q), x)
           /\ Once(q, x) /\ Head(q) = x => ~Has(Tail(q), x)
<1> DEFINE n == Len(q)
           r == Tail(q)
<1>1. /\ n \in Nat /\ n > 0 /\ Len(r) = n - 1 /\ Head(q) = q[1]
      /\ \A i \in 1..(n - 1) : r[i] = q[i + 1]
  OBVIOUS
<1> HIDE DEF n, r
<1>2. \A i \in 1..(n - 1) : i + 1 \in 1..n /\ i + 1 # 1
  BY <1>1
<1>3. \A i \in 1..n : i = 1 \/ (i - 1 \in 1..(n - 1) /\ r[i - 1] = q[i])
  <2> SUFFICES ASSUME NEW i \in 1..n, i # 1
               PROVE  i - 1 \in 1..(n - 1) /\ r[i - 1] = q[i]
    OBVIOUS
  <2>1. i - 1 \in 1..(n - 1) /\ (i - 1) + 1 = i
    BY <1>1
  <2> QED BY <1>1, <2>1
<1>4. 1 \in 1..n
  BY <1>1
<1>5. Has(q, x) <=> Head(q) = x \/ Has(r, x)
  <2>1. Has(q, x) => Head(q) = x \/ Has(r, x)
    BY <1>1, <1>3 DEF Has, n
  <2>2. Head(q) = x => Has(q, x)
    BY <1>1, <1>4 DEF Has, n
  <2>3. Has(r, x) => Has(q, x)
    BY <1>1, <1>2 DEF Has, n
  <2> QED BY <2>1, <2>2, <2>3
<1>6. ASSUME Once(q, x) PROVE Once(r, x)
  <2> SUFFICES ASSUME NEW i \in 1..(n - 1), NEW j \in 1..(n - 1), r[i] = x, r[j] = x
               PROVE  i = j
    BY <1>1 DEF Once
  <2>0. q[i + 1] = x /\ q[j + 1] = x /\ i + 1 \in 1..Len(q) /\ j + 1 \in 1..Len(q)
    BY <1>1, <1>2 DEF n
  <2>1. i + 1 = j + 1
    BY <1>6, <2>0 DEF Once
  <2> QED BY <1>1, <2>1
<1>7. Once(q, x) /\ Head(q) = x => ~Has(r, x)
  BY <1>1, <1>2, <1>4 DEF Has, Once, n
<1> QED BY <1>5, <1>6, <1>7 DEF r

LEMMA HasConcat ==
    ASSUME NEW S, NEW p \in Seq(S), NEW q \in Seq(S), NEW x
    PROVE  /\ Has(p \o q, x) <=> Has(p, x) \/ Has(q, x)
           /\ Once(p, x) /\ Once(q, x) /\ ~(Has(p, x) /\ Has(q, x)) => Once(p \o q, x)
<1> DEFINE r == p \o q
<1>1. /\ Len(p) \in Nat /\ Len(q) \in Nat
      /\ Len(r) = Len(p) + Len(q)
      /\ \A i \in 1..Len(p) : r[i] = p[i]
      /\ \A i \in 1..Len(q) : r[Len(p) + i] = q[i]
  OBVIOUS
<1> HIDE DEF r
<1>2. /\ \A i \in 1..Len(p) : i \in 1..Len(r)
      /\ \A i \in 1..Len(q) : Len(p) + i \in 1..Len(r)
      /\ \A i \in 1..Len(r) : i \in 1..Len(p) \/
             (i - Len(p) \in 1..Len(q) /\ Len(p) + (i - Len(p)) = i)
  BY <1>1
<1>3. \A i \in 1..Len(r) :
          \/ i \in 1..Len(p) /\ r[i] = p[i]
          \/ i - Len(p) \in 1..Len(q) /\ r[i] = q[i - Len(p)]
  <2> SUFFICES ASSUME NEW i \in 1..Len(r)
               PROVE  \/ i \in 1..Len(p) /\ r[i] = p[i]
                      \/ i - Len(p) \in 1..Len(q) /\ r[i] = q[i - Len(p)]
    OBVIOUS
  <2>1. CASE i \in 1..Len(p)
    BY <1>1, <2>1
  <2>2. CASE i - Len(p) \in 1..Len(q) /\ Len(p) + (i - Len(p)) = i
    BY <1>1, <2>2
  <2> QED BY <1>2, <2>1, <2>2
<1>4. Has(p, x) \/ Has(q, x) => Has(r, x)
  BY <1>1, <1>2 DEF Has
<1>5. Has(r, x) => Has(p, x) \/ Has(q, x)
  BY <1>3 DEF Has
<1>6. ASSUME Once(p, x), Once(q, x), ~(Has(p, x) /\ Has(q, x)) PROVE Once(r, x)
  <2> SUFFICES ASSUME NEW i \in 1..Len(r), NEW j \in 1..Len(r), r[i] = x, r[j] = x
               PROVE  i = j
    BY DEF Once
  <2>1. CASE i \in 1..Len(p) /\ r[i] = p[i] /\ j \in 1..Len(p) /\ r[j] = p[j]
    BY <1>6, <2>1 DEF Once
  <2>2. CASE /\ i - Len(p) \in 1..Len(q) /\ r[i] = q[i - Len(p)]
             /\ j - Len(p) \in 1..Len(q) /\ r[j] = q[j - Len(p)]
    <3>1. i - Len(p) = j - Len(p)
      BY <1>6, <2>2 DEF Once
    <3> QED BY <1>1, <3>1
  <2>3. CASE /\ i \in 1..Len(p) /\ r[i] = p[i]
             /\ j - Len(p) \in 1..Len(q) /\ r[j] = q[j - Len(p)]
    BY <1>6, <2>3 DEF Has
  <2>4. CASE /\ j \in 1..Len(p) /\ r[j] = p[j]
             /\ i - Len(p) \in 1..Len(q) /\ r[i] = q[i - Len(p)]
    BY <1>6, <2>4 DEF Has
  <2> QED BY <1>3, <2>1, <2>2, <2>3, <2>4
<1> QED BY <1>4, <1>5, <1>6 DEF r

LEMMA HasNone == \A x : ~Has(<<>>, x) /\ Once(<<>>, x)
BY DEF Has, Once

(* Draining a queue makes a step for each of its calls.                    *)
LEMMA HasEach ==
    ASSUME NEW X \in SUBSET Calls, NEW xs \in Seq(X), NEW c
    PROVE  /\ Each("submit", xs, "none") \in Seq(StepType)
           /\ Has(Each("submit", xs, "none"), Submitting(c)) <=> Has(xs, c)
           /\ Once(xs, c) => Once(Each("submit", xs, "none"), Submitting(c))
<1> DEFINE e == Each("submit", xs, "none")
<1>1. \A x \in X : Step("submit", x, "none") \in StepType
  BY StepsTyped
<1>2. /\ e \in Seq(StepType) /\ Len(e) = Len(xs)
      /\ \A i \in 1..Len(xs) : e[i] = Step("submit", xs[i], "none")
  <2>1. e \in Seq(StepType)
    BY <1>1, EachFacts
  <2>2. Len(xs) \in Nat
    OBVIOUS
  <2> QED BY <2>1, <2>2 DEF Each
<1> HIDE DEF e
<1>3. \A x : Step("submit", x, "none") = Submitting(c) <=> x = c
  BY DEF Submitting, Step
<1>4. Has(e, Submitting(c)) <=> Has(xs, c)
  BY <1>2, <1>3 DEF Has
<1>5. Once(xs, c) => Once(e, Submitting(c))
  BY <1>2, <1>3 DEF Once
<1> QED BY <1>2, <1>4, <1>5 DEF e

(* The other steps submit nothing.                                         *)
LEMMA HasNoSubmit ==
    ASSUME NEW q, \A i \in 1..Len(q) : q[i].do # "submit", NEW c
    PROVE  ~Has(q, Submitting(c)) /\ Once(q, Submitting(c))
<1>1. Submitting(c).do = "submit"
  BY DEF Submitting, Step
<1> QED BY <1>1 DEF Has, Once

LEMMA TellNoSubmit ==
    ASSUME NEW ws \in Seq(Waiters), NEW s \in Status, NEW p \in Seq(StepType),
           \A i \in 1..Len(p) : p[i].do # "submit", NEW rest \in Seq(StepType), NEW c
    PROVE  /\ Has(Each("tell", ws, s) \o p \o rest, Submitting(c)) <=> Has(rest, Submitting(c))
           /\ Once(rest, Submitting(c)) => Once(Each("tell", ws, s) \o p \o rest, Submitting(c))
<1> DEFINE e == Each("tell", ws, s)
<1>1. e \in Seq(StepType) /\ \A i \in 1..Len(e) : e[i].do = "tell"
  <2>1. /\ e \in Seq(StepType) /\ Len(e) = Len(ws)
        /\ \A i \in 1..Len(ws) : e[i] = Step("tell", ws[i], s)
    <3>1. e \in Seq(StepType)
      BY StepsTyped, EachFacts
    <3>2. Len(ws) \in Nat
      OBVIOUS
    <3> QED BY <3>1, <3>2 DEF Each
  <2> QED BY <2>1, StepDo
<1> HIDE DEF e
<1>2. ~Has(e, Submitting(c)) /\ Once(e, Submitting(c))
  BY <1>1, HasNoSubmit
<1>3. ~Has(p, Submitting(c)) /\ Once(p, Submitting(c))
  BY HasNoSubmit
<1>4. e \o p \in Seq(StepType) /\ ~Has(e \o p, Submitting(c)) /\ Once(e \o p, Submitting(c))
  BY <1>1, <1>2, <1>3, ConcatType, HasConcat
<1>5. /\ Has((e \o p) \o rest, Submitting(c)) <=> Has(rest, Submitting(c))
      /\ Once(rest, Submitting(c)) => Once((e \o p) \o rest, Submitting(c))
  BY <1>4, HasConcat
<1> QED BY <1>5 DEF e

LEMMA OnceIfNone == \A q, x : ~Has(q, x) => Once(q, x)
BY DEF Has, Once

LEMMA PlaceNames ==
    /\ \A c, d : Posting(c) = Posting(d) => c = d
    /\ \A c, d : Submitting(c) = Submitting(d) => c = d
    /\ \A c : Posting(c).kind = "call" /\ Submitting(c).do = "submit"
BY DEF Posting, Submitting, Task, Step

(* PlaceInv for one call.                                                  *)
PlaceAt(d) ==
    /\ AtMostOnce(d)
    /\ Somewhere(d) => d \in asked
    /\ d \in asked /\ answer[d] = "none" => Somewhere(d)

LEMMA PlaceEach == PlaceInv <=> \A d \in Calls : PlaceAt(d)
BY DEF PlaceInv, PlaceAt

(* The step leaves the posted calls alone; of the handler's submissions,   *)
(* those of rest remain.                                                   *)
SameCalls ==
    \A d \in Calls : /\ Has(strand', Posting(d)) <=> Has(strand, Posting(d))
                     /\ Once(strand, Posting(d)) => Once(strand', Posting(d))
SameSubmits(rest) ==
    \A d \in Calls : /\ Has(todo', Submitting(d)) <=> Has(rest, Submitting(d))
                     /\ Once(rest, Submitting(d)) => Once(todo', Submitting(d))

LEMMA SamePost ==
    ASSUME TypeOK, NEW t \in TaskType, t.kind # "call", Post(t)
    PROVE  SameCalls
<1> SUFFICES ASSUME NEW d \in Calls
             PROVE  /\ Has(strand', Posting(d)) <=> Has(strand, Posting(d))
                    /\ Once(strand, Posting(d)) => Once(strand', Posting(d))
  BY DEF SameCalls
<1>1. t # Posting(d)
  BY PlaceNames
<1> QED BY <1>1, HasAppend DEF Post, TypeOK

LEMMA SameStart ==
    ASSUME TypeOK, NEW k, k # "call", StartTask(k)
    PROVE  SameCalls
<1> SUFFICES ASSUME NEW d \in Calls
             PROVE  /\ Has(strand', Posting(d)) <=> Has(strand, Posting(d))
                    /\ Once(strand, Posting(d)) => Once(strand', Posting(d))
  BY DEF SameCalls
<1>1. Head(strand) # Posting(d)
  BY PlaceNames DEF StartTask
<1> QED BY <1>1, HasTail DEF StartTask, TypeOK

LEMMA SameTail ==
    ASSUME TypeOK, NEW k, k # "submit", TakeStep(k), todo' = Tail(todo)
    PROVE  SameSubmits(todo)
<1> SUFFICES ASSUME NEW d \in Calls
             PROVE  /\ Has(todo', Submitting(d)) <=> Has(todo, Submitting(d))
                    /\ Once(todo, Submitting(d)) => Once(todo', Submitting(d))
  BY DEF SameSubmits
<1>1. Head(todo) # Submitting(d)
  BY PlaceNames DEF TakeStep
<1> QED BY <1>1, HasTail DEF TakeStep, TypeOK

LEMMA SameTells ==
    ASSUME NEW ws \in Seq(Waiters), NEW s \in Status, NEW p \in Seq(StepType),
           \A i \in 1..Len(p) : p[i].do # "submit", NEW rest \in Seq(StepType),
           todo' = Each("tell", ws, s) \o p \o rest
    PROVE  SameSubmits(rest)
BY TellNoSubmit DEF SameSubmits

(* The steps that move no call: what leaves a map is answered.             *)
LEMMA CalmPlaces ==
    ASSUME PlaceInv, SameCalls, SameSubmits(todo), UNCHANGED <<pending, generic>>,
           active' \subseteq active,
           \A d \in Calls : /\ d \in asked' <=> d \in asked
                            /\ answer'[d] = "none" => answer[d] = "none" /\ (d \in active => d \in active')
    PROVE  PlaceInv'
<1> SUFFICES ASSUME NEW d \in Calls PROVE PlaceAt(d)'
  BY DEF PlaceInv, PlaceAt
<1>1. PlaceAt(d)
  BY PlaceEach
<1>2. AtMostOnce(d)'
  BY <1>1 DEF PlaceAt, SameCalls, SameSubmits, AtMostOnce, AtMostOnceIn
<1>3. Somewhere(d)' => Somewhere(d)
  BY DEF SameCalls, SameSubmits, Somewhere, SomewhereIn
<1>4. Somewhere(d) /\ answer'[d] = "none" => Somewhere(d)'
  BY DEF SameCalls, SameSubmits, Somewhere, SomewhereIn
<1> QED BY <1>1, <1>2, <1>3, <1>4 DEF PlaceAt

(* The parts of the actions.                                               *)
LEMMA DoConnectSubmits ==
    ASSUME NEW ws \in Seq(Waiters), NEW rest \in Seq(StepType), DoConnect(ws, rest)
    PROVE  SameSubmits(rest)
<1>1. CASE todo' = rest
  BY <1>1 DEF SameSubmits
<1>2. CASE todo' = Each("tell", ws, "INVALID_ARGUMENT")
                     \o <<Step("failAll", "none", "INVALID_ARGUMENT")>> \o rest
  <2>1. "INVALID_ARGUMENT" \in Status
    BY DEF Status
  <2> DEFINE p == <<Step("failAll", "none", "INVALID_ARGUMENT")>>
  <2>2. p \in Seq(StepType) /\ \A i \in 1..Len(p) : p[i].do # "submit"
    BY <2>1, StepsTyped, StepDo
  <2>3. todo' = Each("tell", ws, "INVALID_ARGUMENT") \o p \o rest
    BY <1>2
  <2> HIDE DEF p
  <2> QED BY <2>1, <2>2, <2>3, SameTells
<1> QED BY <1>1, <1>2 DEF DoConnect

LEMMA ConnectCalm ==
    ASSUME TypeOK, NEW w \in Waiters, NEW rest \in Seq(StepType), Connect(w, rest)
    PROVE  /\ SameSubmits(rest) /\ UNCHANGED <<pending, generic, active>>
           /\ \A d \in Calls : answer'[d] = "none" => answer[d] = "none"
<1>1. UNCHANGED <<pending, generic, active>>
  BY DEF Connect, streamVars
<1>2. CASE DoConnect(Append(waiters, w), rest) /\ UNCHANGED answer
  <2>1. Append(waiters, w) \in Seq(Waiters)
    BY DEF TypeOK
  <2> QED BY <1>1, <1>2, <2>1, DoConnectSubmits
<1>3. CASE todo' = rest /\ UNCHANGED answer
  BY <1>1, <1>3 DEF SameSubmits
<1>4. CASE todo' = rest /\ \E s : answer' = Answered({w}, s)
  <2>1. \A d \in Calls : d \notin {w}
    BY ActorsAssumption DEF Calls
  <2>2. \A d \in Calls : answer'[d] = answer[d]
    BY <1>4, <2>1 DEF Answered
  <2> QED BY <1>1, <1>4, <2>2 DEF SameSubmits
<1> QED BY <1>2, <1>3, <1>4 DEF Connect

LEMMA ShutdownCalm ==
    ASSUME TypeOK, NEW rest \in Seq(StepType), DoShutdown(rest)
    PROVE  SameSubmits(rest) /\ UNCHANGED <<pending, generic, active, answer>>
<1>1. UNCHANGED <<pending, generic, active, answer>>
  BY DEF DoShutdown, streamVars
<1>2. CASE todo' = rest
  BY <1>1, <1>2 DEF SameSubmits
<1>3. CASE todo' = Each("tell", waiters, "CANCELLED")
                     \o <<Step("failActive", "none", "CANCELLED"),
                          Step("failAll", "none", "CANCELLED")>> \o rest
  <2>1. "CANCELLED" \in Status /\ waiters \in Seq(Waiters)
    BY DEF Status, TypeOK
  <2> DEFINE a == Step("failActive", "none", "CANCELLED")
             b == Step("failAll", "none", "CANCELLED")
             p == <<a, b>>
  <2>2. a \in StepType /\ b \in StepType /\ a.do # "submit" /\ b.do # "submit"
    BY <2>1, StepsTyped, StepDo
  <2>3. todo' = Each("tell", waiters, "CANCELLED") \o p \o rest
    BY <1>3
  <2> HIDE DEF a, b
  <2>4. p \in Seq(StepType) /\ \A i \in 1..Len(p) : p[i].do # "submit"
    BY <2>2
  <2> HIDE DEF p
  <2> QED BY <1>1, <2>1, <2>3, <2>4, SameTells
<1> QED BY <1>2, <1>3 DEF DoShutdown

(* Submit puts its call, and no other, in one place or answers it.         *)
LEMMA SubmitPlaces ==
    ASSUME TypeOK, NEW c \in Calls, NEW rest \in Seq(StepType), Submit(c, rest),
           NEW q, q = strand', c \in asked',
           ~SomewhereIn(c, q, rest),
           \A d \in Calls \ {c} :
               /\ AtMostOnceIn(d, q, rest)
               /\ SomewhereIn(d, q, rest) => d \in asked'
               /\ d \in asked' /\ answer[d] = "none" => SomewhereIn(d, q, rest)
    PROVE  PlaceInv'
<1>1. CASE \E s \in Status : Refuse(c, s, rest)
  <2>1. PICK s \in Status : Refuse(c, s, rest)
    BY <1>1
  <2>2. UNCHANGED <<pending, generic, active>> /\ SameSubmits(rest)
    BY <2>1 DEF Refuse, queueVars, streamVars, SameSubmits
  <2>3. answer'[c] # "none" /\ \A d \in Calls \ {c} : answer'[d] = answer[d]
    <3>1. answer \in [Calls \cup Waiters -> Status \cup {"none"}]
      BY DEF TypeOK
    <3>2. answer' = Answered({c}, s)
      BY <2>1 DEF Refuse
    <3> QED BY <3>1, <3>2, AnsweredFacts
  <2> SUFFICES ASSUME NEW d \in Calls PROVE PlaceAt(d)'
    BY DEF PlaceInv, PlaceAt
  <2>4. CASE d = c
    <3>1. ~Somewhere(c)'
      BY <2>2 DEF Somewhere, SomewhereIn, SameSubmits
    <3>2. AtMostOnce(c)'
      BY <2>2, OnceIfNone DEF AtMostOnce, AtMostOnceIn, SomewhereIn, SameSubmits
    <3> QED BY <2>3, <2>4, <3>1, <3>2 DEF PlaceAt
  <2>5. CASE d # c
    <3>1. Somewhere(d)' <=> SomewhereIn(d, q, rest)
      BY <2>2 DEF Somewhere, SomewhereIn, SameSubmits
    <3>2. AtMostOnce(d)'
      BY <2>2, <2>5 DEF AtMostOnce, AtMostOnceIn, SameSubmits
    <3> QED BY <2>3, <2>5, <3>1, <3>2 DEF PlaceAt
  <2> QED BY <2>4, <2>5
<1>2. CASE Queue(c, rest)
  <2>1. UNCHANGED <<active, answer>> /\ Enqueue(c)
    BY <1>2 DEF Queue, streamVars
  <2>2. SameSubmits(rest)
    <3>1. CASE conn = "kIdle"
      BY <1>2, <3>1, DoConnectSubmits DEF Queue, TypeOK
    <3>2. CASE conn # "kIdle"
      BY <1>2, <3>2 DEF Queue, SameSubmits
    <3> QED BY <3>1, <3>2
  <2>3. \A d \in Calls :
            /\ Has(pending', d) \/ Has(generic', d) <=>
                   Has(pending, d) \/ Has(generic, d) \/ c = d
            /\ Has(pending, d) => Has(pending', d)
            /\ Has(generic, d) => Has(generic', d)
            /\ d # c => /\ Has(pending', d) => Has(pending, d)
                        /\ Has(generic', d) => Has(generic, d)
            /\ Once(pending, d) /\ (c = d => ~Has(pending, d)) => Once(pending', d)
            /\ Once(generic, d) /\ (c = d => ~Has(generic, d)) => Once(generic', d)
            /\ Has(pending', d) /\ Has(generic', d) => Has(pending, d) \/ Has(generic, d)
    <3>1. CASE c \in Unary
      <4>1. pending' = Append(pending, c) /\ UNCHANGED generic /\ pending \in Seq(Unary)
        BY <2>1, <3>1 DEF Enqueue, TypeOK
      <4>2. \A d : /\ Has(pending', d) <=> Has(pending, d) \/ c = d
                   /\ Once(pending, d) /\ (c = d => ~Has(pending, d)) => Once(pending', d)
        BY <3>1, <4>1, HasAppend
      <4> QED BY <4>1, <4>2
    <3>2. CASE c \notin Unary
      <4>1. /\ generic' = Append(generic, c) /\ UNCHANGED pending
            /\ generic \in Seq(Streaming) /\ c \in Streaming
        BY <2>1, <3>2 DEF Enqueue, TypeOK, Calls
      <4>2. \A d : /\ Has(generic', d) <=> Has(generic, d) \/ c = d
                   /\ Once(generic, d) /\ (c = d => ~Has(generic, d)) => Once(generic', d)
        BY <4>1, HasAppend
      <4> QED BY <4>1, <4>2
    <3> QED BY <3>1, <3>2
  <2> SUFFICES ASSUME NEW d \in Calls PROVE PlaceAt(d)'
    BY DEF PlaceInv, PlaceAt
  <2>4. CASE d = c
    <3>1. Somewhere(d)'
      BY <2>3, <2>4 DEF Somewhere, SomewhereIn
    <3>2. AtMostOnce(d)'
      BY <2>1, <2>2, <2>3, <2>4, OnceIfNone DEF AtMostOnce, AtMostOnceIn, SomewhereIn, SameSubmits
    <3> QED BY <2>4, <3>1, <3>2 DEF PlaceAt
  <2>5. CASE d # c
    <3>1. Somewhere(d)' <=> SomewhereIn(d, q, rest)
      BY <2>1, <2>2, <2>3, <2>5 DEF Somewhere, SomewhereIn, SameSubmits
    <3>2. AtMostOnce(d)'
      BY <2>1, <2>2, <2>3, <2>5 DEF AtMostOnce, AtMostOnceIn, SameSubmits
    <3> QED BY <2>1, <2>5, <3>1, <3>2 DEF PlaceAt
  <2> QED BY <2>4, <2>5
<1>3. CASE Open(c, rest)
  <2>1. /\ UNCHANGED <<pending, generic, answer>> /\ SameSubmits(rest)
        /\ active' = active \cup {c}
    BY <1>3 DEF Open, queueVars, SameSubmits
  <2> SUFFICES ASSUME NEW d \in Calls PROVE PlaceAt(d)'
    BY DEF PlaceInv, PlaceAt
  <2>2. CASE d = c
    <3>1. Somewhere(d)'
      BY <2>1, <2>2 DEF Somewhere, SomewhereIn
    <3>2. AtMostOnce(d)'
      BY <2>1, <2>2, OnceIfNone DEF AtMostOnce, AtMostOnceIn, SomewhereIn, SameSubmits
    <3> QED BY <2>2, <3>1, <3>2 DEF PlaceAt
  <2>3. CASE d # c
    <3>1. Somewhere(d)' <=> SomewhereIn(d, q, rest)
      BY <2>1, <2>3 DEF Somewhere, SomewhereIn, SameSubmits
    <3>2. AtMostOnce(d)'
      BY <2>1, <2>3 DEF AtMostOnce, AtMostOnceIn, SameSubmits
    <3> QED BY <2>1, <2>3, <3>1, <3>2 DEF PlaceAt
  <2> QED BY <2>2, <2>3
<1>4. {"OWN", "UNAVAILABLE", "NOT_SENT"} \subseteq Status /\ ShutdownStatus \in Status
  BY Literals DEF Status
<1> QED BY <1>1, <1>2, <1>3, <1>4 DEF Submit

LEMMA InitPlaces == Init => PlaceInv
<1> SUFFICES ASSUME Init, NEW d \in Calls PROVE PlaceAt(d)
  BY DEF PlaceInv, PlaceAt
<1>1. AtMostOnce(d) /\ ~Somewhere(d) /\ d \notin asked
  BY HasNone DEF Init, AtMostOnce, AtMostOnceIn, Somewhere, SomewhereIn
<1> QED BY <1>1 DEF PlaceAt

LEMMA UserCallsPlaces ==
    ASSUME TypeOK, PlaceInv, NEW c \in Calls, UserCalls(c)
    PROVE  PlaceInv'
<1>1. /\ UNCHANGED <<pending, generic, active, todo, answer>> /\ c \notin asked
      /\ asked' = asked \cup {c} /\ strand' = Append(strand, Posting(c))
  BY DEF UserCalls, Post, Posting, queueVars, streamVars
<1>2. strand \in Seq(TaskType) /\ Posting(c) \in TaskType
  BY TasksTyped DEF TypeOK, Posting
<1> SUFFICES ASSUME NEW d \in Calls PROVE PlaceAt(d)'
  BY DEF PlaceInv, PlaceAt
<1>3. PlaceAt(d)
  BY PlaceEach
<1>4. /\ Has(strand', Posting(d)) <=> Has(strand, Posting(d)) \/ c = d
      /\ Once(strand, Posting(d)) /\ (c = d => ~Has(strand, Posting(d)))
             => Once(strand', Posting(d))
  BY <1>1, <1>2, HasAppend, PlaceNames
<1>5. d = c => ~Somewhere(d)
  BY <1>1, <1>3 DEF PlaceAt
<1>6. AtMostOnce(d)'
  BY <1>1, <1>3, <1>4, <1>5 DEF PlaceAt, AtMostOnce, AtMostOnceIn, Somewhere, SomewhereIn
<1>7. Somewhere(d)' <=> Somewhere(d) \/ d = c
  BY <1>1, <1>4 DEF Somewhere, SomewhereIn
<1> QED BY <1>1, <1>3, <1>6, <1>7 DEF PlaceAt

(* The three ways to Submit: the call is in no other place.                *)
LEMMA InlineCallPlaces ==
    ASSUME TypeOK, PlaceInv, NEW c \in Calls, InlineCall(c)
    PROVE  PlaceInv'
<1>1. /\ strand' = strand /\ asked' = asked \cup {c} /\ c \notin asked /\ Submit(c, todo)
      /\ todo \in Seq(StepType)
  BY DEF InlineCall, TypeOK
<1>2. ~SomewhereIn(c, strand, todo)
  BY <1>1, PlaceEach DEF PlaceAt, Somewhere
<1>3. \A d \in Calls \ {c} :
          /\ AtMostOnceIn(d, strand, todo)
          /\ SomewhereIn(d, strand, todo) => d \in asked'
          /\ d \in asked' /\ answer[d] = "none" => SomewhereIn(d, strand, todo)
  BY <1>1, PlaceEach DEF PlaceAt, Somewhere, AtMostOnce
<1> QED BY <1>1, <1>2, <1>3, SubmitPlaces

LEMMA RunCallPlaces ==
    ASSUME TypeOK, PlaceInv, RunCall
    PROVE  PlaceInv'
<1> DEFINE c == Head(strand).for
           q == Tail(strand)
<1>1. /\ strand # <<>> /\ strand \in Seq(TaskType) /\ todo = <<>> /\ Head(strand).kind = "call"
      /\ strand' = q /\ asked' = asked /\ Submit(c, <<>>)
  BY DEF RunCall, StartTask, TypeOK
<1>2. Head(strand) \in TaskType
  BY <1>1
<1>3. c \in Calls /\ Head(strand) = Posting(c)
  BY <1>1, <1>2, TaskFields DEF Posting
<1>4. \A d : /\ Has(strand, Posting(d)) <=> Posting(c) = Posting(d) \/ Has(q, Posting(d))
             /\ Once(strand, Posting(d)) => Once(q, Posting(d))
             /\ Once(strand, Posting(d)) /\ Posting(c) = Posting(d) => ~Has(q, Posting(d))
  BY <1>1, <1>3, HasTail
<1> HIDE DEF c, q
<1>5. PlaceAt(c) /\ Has(strand, Posting(c)) /\ ~Has(q, Posting(c))
  BY <1>3, <1>4, PlaceEach DEF PlaceAt, AtMostOnce, AtMostOnceIn
<1>6. ~SomewhereIn(c, q, <<>>) /\ c \in asked'
  BY <1>1, <1>5, HasNone DEF PlaceAt, AtMostOnce, AtMostOnceIn, Somewhere, SomewhereIn
<1>7. ASSUME NEW d \in Calls \ {c}
      PROVE  /\ AtMostOnceIn(d, q, <<>>)
             /\ SomewhereIn(d, q, <<>>) => d \in asked'
             /\ d \in asked' /\ answer[d] = "none" => SomewhereIn(d, q, <<>>)
  <2>1. PlaceAt(d)
    BY PlaceEach
  <2>2. /\ Has(q, Posting(d)) <=> Has(strand, Posting(d))
        /\ Once(strand, Posting(d)) => Once(q, Posting(d))
    BY <1>4, PlaceNames
  <2>3. AtMostOnceIn(d, q, <<>>)
    BY <1>1, <2>1, <2>2 DEF PlaceAt, AtMostOnce, AtMostOnceIn
  <2>4. SomewhereIn(d, q, <<>>) <=> Somewhere(d)
    BY <1>1, <2>2 DEF Somewhere, SomewhereIn
  <2> QED BY <1>1, <2>1, <2>3, <2>4 DEF PlaceAt
<1>8. <<>> \in Seq(StepType)
  OBVIOUS
<1> QED BY <1>1, <1>3, <1>6, <1>7, <1>8, SubmitPlaces

LEMMA ResubmitPlaces ==
    ASSUME TypeOK, PlaceInv, Resubmit
    PROVE  PlaceInv'
<1> DEFINE c == Head(todo).for
           r == Tail(todo)
<1>1. /\ todo # <<>> /\ todo \in Seq(StepType) /\ Head(todo).do = "submit"
      /\ strand' = strand /\ asked' = asked /\ Submit(c, r)
  BY DEF Resubmit, TakeStep, TypeOK
<1>2. Head(todo) \in StepType /\ r \in Seq(StepType)
  BY <1>1
<1>3. c \in Calls /\ Head(todo) = Submitting(c)
  BY <1>1, <1>2, StepFields DEF Submitting
<1>4. \A d : /\ Has(todo, Submitting(d)) <=> Submitting(c) = Submitting(d) \/ Has(r, Submitting(d))
             /\ Once(todo, Submitting(d)) => Once(r, Submitting(d))
             /\ Once(todo, Submitting(d)) /\ Submitting(c) = Submitting(d) => ~Has(r, Submitting(d))
  BY <1>1, <1>3, HasTail
<1> HIDE DEF c, r
<1>5. PlaceAt(c) /\ Has(todo, Submitting(c)) /\ ~Has(r, Submitting(c))
  BY <1>3, <1>4, PlaceEach DEF PlaceAt, AtMostOnce, AtMostOnceIn
<1>6. ~SomewhereIn(c, strand, r) /\ c \in asked'
  BY <1>1, <1>5 DEF PlaceAt, AtMostOnce, AtMostOnceIn, Somewhere, SomewhereIn
<1>7. ASSUME NEW d \in Calls \ {c}
      PROVE  /\ AtMostOnceIn(d, strand, r)
             /\ SomewhereIn(d, strand, r) => d \in asked'
             /\ d \in asked' /\ answer[d] = "none" => SomewhereIn(d, strand, r)
  <2>1. PlaceAt(d)
    BY PlaceEach
  <2>2. /\ Has(r, Submitting(d)) <=> Has(todo, Submitting(d))
        /\ Once(todo, Submitting(d)) => Once(r, Submitting(d))
    BY <1>4, PlaceNames
  <2>3. AtMostOnceIn(d, strand, r)
    BY <2>1, <2>2 DEF PlaceAt, AtMostOnce, AtMostOnceIn
  <2>4. SomewhereIn(d, strand, r) <=> Somewhere(d)
    BY <2>2 DEF Somewhere, SomewhereIn
  <2> QED BY <1>1, <2>1, <2>3, <2>4 DEF PlaceAt
<1> QED BY <1>1, <1>2, <1>3, <1>6, <1>7, SubmitPlaces

(* The queues go to the handler, in one piece.                             *)
LEMMA DrainQueuePlaces ==
    ASSUME TypeOK, PlaceInv, DrainQueue
    PROVE  PlaceInv'
<1> DEFINE e == Each("submit", pending, "none")
           g == Each("submit", generic, "none")
           r == Tail(todo)
<1>1. /\ todo # <<>> /\ todo \in Seq(StepType) /\ Head(todo).do = "drain"
      /\ pending' = <<>> /\ generic' = <<>> /\ UNCHANGED <<strand, asked, active, answer>>
      /\ todo' = e \o g \o r
  BY DEF DrainQueue, TakeStep, TypeOK, streamVars
<1>2. /\ Unary \in SUBSET Calls /\ Streaming \in SUBSET Calls
      /\ pending \in Seq(Unary) /\ generic \in Seq(Streaming) /\ r \in Seq(StepType)
  BY <1>1 DEF Calls, TypeOK
<1>3. \A d : /\ e \in Seq(StepType)
             /\ Has(e, Submitting(d)) <=> Has(pending, d)
             /\ Once(pending, d) => Once(e, Submitting(d))
  BY <1>2, HasEach
<1>4. \A d : /\ g \in Seq(StepType)
             /\ Has(g, Submitting(d)) <=> Has(generic, d)
             /\ Once(generic, d) => Once(g, Submitting(d))
  BY <1>2, HasEach
<1>5. \A d : Head(todo) # Submitting(d)
  BY <1>1, PlaceNames
<1>6. \A d : /\ Has(r, Submitting(d)) <=> Has(todo, Submitting(d))
             /\ Once(todo, Submitting(d)) => Once(r, Submitting(d))
  BY <1>1, <1>5, HasTail
<1> HIDE DEF e, g, r
<1> SUFFICES ASSUME NEW d \in Calls PROVE PlaceAt(d)'
  BY DEF PlaceInv, PlaceAt
<1>7. PlaceAt(d)
  BY PlaceEach
<1>8. /\ e \o g \in Seq(StepType)
      /\ Has(e \o g, Submitting(d)) <=> Has(pending, d) \/ Has(generic, d)
      /\ Once(e \o g, Submitting(d))
  <2>1. e \o g \in Seq(StepType)
    BY <1>3, <1>4, ConcatType
  <2>2. Once(e, Submitting(d)) /\ Once(g, Submitting(d))
        /\ ~(Has(e, Submitting(d)) /\ Has(g, Submitting(d)))
    BY <1>3, <1>4, <1>7 DEF PlaceAt, AtMostOnce, AtMostOnceIn
  <2> QED BY <1>3, <1>4, <2>1, <2>2, HasConcat
<1>9. /\ Has(todo', Submitting(d)) <=>
             Has(pending, d) \/ Has(generic, d) \/ Has(todo, Submitting(d))
      /\ Once(todo', Submitting(d))
  <2> DEFINE p == e \o g
  <2>1. todo' = p \o r /\ p \in Seq(StepType)
    BY <1>1, <1>8
  <2>2. /\ Has(p, Submitting(d)) <=> Has(pending, d) \/ Has(generic, d)
        /\ Once(p, Submitting(d))
    BY <1>8
  <2> HIDE DEF p
  <2>3. Once(r, Submitting(d)) /\ ~(Has(p, Submitting(d)) /\ Has(r, Submitting(d)))
    BY <1>6, <1>7, <2>2 DEF PlaceAt, AtMostOnce, AtMostOnceIn
  <2> QED BY <1>2, <1>6, <2>1, <2>2, <2>3, HasConcat
<1>10. AtMostOnce(d)'
  BY <1>1, <1>7, <1>9, HasNone DEF PlaceAt, AtMostOnce, AtMostOnceIn
<1>11. Somewhere(d)' <=> Somewhere(d)
  BY <1>1, <1>9, HasNone DEF Somewhere, SomewhereIn
<1> QED BY <1>1, <1>7, <1>10, <1>11 DEF PlaceAt

(* The unary calls of the queue are answered, the streaming ones go to the *)
(* handler.                                                                *)
LEMMA FailAllPlaces ==
    ASSUME TypeOK, PlaceInv, FailAll
    PROVE  PlaceInv'
<1> DEFINE g == Each("submit", generic, "none")
           r == Tail(todo)
           xs == {pending[i] : i \in 1..Len(pending)}
           s == Head(todo).with
<1>1. /\ todo # <<>> /\ todo \in Seq(StepType) /\ Head(todo).do = "failAll"
      /\ pending' = <<>> /\ generic' = <<>> /\ UNCHANGED <<strand, asked, active>>
      /\ todo' = g \o r /\ answer' = Answered(xs, s)
  BY DEF FailAll, TakeStep, TypeOK, streamVars
<1>2. /\ Streaming \in SUBSET Calls /\ generic \in Seq(Streaming) /\ r \in Seq(StepType)
      /\ Head(todo) \in StepType
  BY <1>1 DEF Calls, TypeOK
<1>3. s \in Status
  BY <1>1, <1>2, StepFields
<1>4. \A d : /\ g \in Seq(StepType)
             /\ Has(g, Submitting(d)) <=> Has(generic, d)
             /\ Once(generic, d) => Once(g, Submitting(d))
  BY <1>2, HasEach
<1>5. \A d : Head(todo) # Submitting(d)
  BY <1>1, PlaceNames
<1>6. \A d : /\ Has(r, Submitting(d)) <=> Has(todo, Submitting(d))
             /\ Once(todo, Submitting(d)) => Once(r, Submitting(d))
  BY <1>1, <1>5, HasTail
<1>7. \A d : Has(pending, d) <=> d \in xs
  BY DEF Has
<1> HIDE DEF g, r, xs, s
<1>8. \A d \in Calls : answer'[d] = "none" => answer[d] = "none" /\ ~Has(pending, d)
  <2>1. \A d \in Calls : /\ d \in xs => Answered(xs, s)[d] # "none"
                         /\ Answered(xs, s)[d] = "none" => answer[d] = "none"
    BY <1>3, AnsweredFacts DEF TypeOK
  <2> QED BY <1>1, <1>7, <2>1
<1> SUFFICES ASSUME NEW d \in Calls PROVE PlaceAt(d)'
  BY DEF PlaceInv, PlaceAt
<1>9. PlaceAt(d)
  BY PlaceEach
<1>10. /\ Has(todo', Submitting(d)) <=> Has(generic, d) \/ Has(todo, Submitting(d))
       /\ Once(todo', Submitting(d))
  <2>1. Once(g, Submitting(d)) /\ Once(r, Submitting(d))
        /\ ~(Has(g, Submitting(d)) /\ Has(r, Submitting(d)))
    BY <1>4, <1>6, <1>9 DEF PlaceAt, AtMostOnce, AtMostOnceIn
  <2> QED BY <1>1, <1>2, <1>4, <1>6, <2>1, HasConcat
<1>11. AtMostOnce(d)'
  BY <1>1, <1>9, <1>10, HasNone DEF PlaceAt, AtMostOnce, AtMostOnceIn
<1>12. /\ Somewhere(d)' => Somewhere(d)
       /\ Somewhere(d) /\ ~Has(pending, d) => Somewhere(d)'
  BY <1>1, <1>10, HasNone DEF Somewhere, SomewhereIn
<1> QED BY <1>1, <1>8, <1>9, <1>11, <1>12 DEF PlaceAt

LEMMA PlaceStep == TypeOK /\ PlaceInv /\ [Next]_vars => PlaceInv'
<1> SUFFICES ASSUME TypeOK, PlaceInv, [Next]_vars PROVE PlaceInv'
  OBVIOUS
<1>0. /\ todo \in Seq(StepType) /\ <<>> \in Seq(StepType) /\ strand \in Seq(TaskType)
      /\ waiters \in Seq(Waiters)
      /\ answer \in [Calls \cup Waiters -> Status \cup {"none"}]
  BY DEF TypeOK
<1>a. strand' = strand => SameCalls
  BY DEF SameCalls
<1>b. todo' = todo => SameSubmits(todo)
  BY DEF SameSubmits
<1>c. Calls \cap Waiters = {}
  BY ActorsAssumption DEF Calls
<1> USE DEF sessionVars, queueVars, streamVars, linkVars
<1>1. CASE User
  <2>1. ASSUME NEW c \in Calls, UserCalls(c) PROVE PlaceInv'
    BY <2>1, UserCallsPlaces
  <2>2. ASSUME NEW c \in Calls, InlineCall(c) PROVE PlaceInv'
    BY <2>2, InlineCallPlaces
  <2>3. ASSUME NEW c \in Calls, CallEnds(c) PROVE PlaceInv'
    <3>1. \A d \in Calls : answer'[d] = "none" => answer[d] = "none"
      <4>1. "OWN" \in Status
        BY DEF Status
      <4>2. \A d \in Calls : Answered({c}, "OWN")[d] = "none" => answer[d] = "none"
        BY <1>0, <4>1, AnsweredFacts
      <4> QED BY <2>3, <4>2 DEF CallEnds
    <3> QED BY <1>a, <1>b, <2>3, <3>1, CalmPlaces DEF CallEnds
  <2>4. ASSUME NEW w \in Waiters, UserConnects(w) PROVE PlaceInv'
    <3>1. SameCalls
      <4>1. Task("connect", w) \in TaskType /\ Task("connect", w).kind # "call"
        BY TasksTyped DEF Task
      <4> QED BY <2>4, <4>1, SamePost DEF UserConnects
    <3>2. \A d \in Calls : d \in asked' <=> d \in asked
      BY <1>c, <2>4 DEF UserConnects
    <3> QED BY <1>b, <2>4, <3>1, <3>2, CalmPlaces DEF UserConnects
  <2>5. ASSUME NEW w \in Waiters, InlineConnect(w) PROVE PlaceInv'
    <3>1. \A d \in Calls : d \in asked' <=> d \in asked
      BY <1>c, <2>5 DEF InlineConnect
    <3>2. /\ SameSubmits(todo) /\ UNCHANGED <<pending, generic, active>>
          /\ \A d \in Calls : answer'[d] = "none" => answer[d] = "none"
      BY <1>0, <2>5, ConnectCalm DEF InlineConnect
    <3> QED BY <1>a, <2>5, <3>1, <3>2, CalmPlaces DEF InlineConnect
  <2>6. CASE UserShutsDown
    <3>1. SameCalls
      <4>1. Task("shutdown", "none") \in TaskType /\ Task("shutdown", "none").kind # "call"
        BY TasksTyped DEF Task
      <4> QED BY <2>6, <4>1, SamePost DEF UserShutsDown
    <3> QED BY <1>b, <2>6, <3>1, CalmPlaces DEF UserShutsDown
  <2>7. CASE InlineShutdown
    <3>1. SameSubmits(todo) /\ UNCHANGED <<pending, generic, active, answer>>
      BY <1>0, <2>7, ShutdownCalm DEF InlineShutdown
    <3> QED BY <1>a, <2>7, <3>1, CalmPlaces DEF InlineShutdown
  <2> QED BY <1>1, <2>1, <2>2, <2>3, <2>4, <2>5, <2>6, <2>7 DEF User
<1>2. CASE Tell
  <2>1. SameSubmits(todo)
    BY <1>2, SameTail DEF Tell
  <2>2. Head(todo).for \in Waiters
    BY <1>2, TakeFacts, StepFields DEF Tell, TakeStep
  <2>3. \A d \in Calls : answer'[d] = answer[d]
    BY <1>2, <1>c, <2>2 DEF Tell, Answered
  <2> QED BY <1>2, <1>a, <2>1, <2>3, CalmPlaces DEF Tell
<1>3. CASE Resubmit
  BY <1>3, ResubmitPlaces
<1>4. CASE DrainQueue
  BY <1>4, DrainQueuePlaces
<1>5. CASE FailAll
  BY <1>5, FailAllPlaces
<1>6. CASE FailActive
  <2>1. SameSubmits(todo)
    BY <1>6, SameTail DEF FailActive
  <2> DEFINE s == Head(todo).with
  <2>2. s \in Status
    BY <1>6, TakeFacts, StepFields DEF FailActive, TakeStep
  <2>3. answer' = Answered(active, s)
    BY <1>6 DEF FailActive
  <2> HIDE DEF s
  <2>4. \A d \in Calls : /\ d \in active => Answered(active, s)[d] # "none"
                         /\ Answered(active, s)[d] = "none" => answer[d] = "none"
    BY <1>0, <2>2, AnsweredFacts
  <2> QED BY <1>6, <1>a, <2>1, <2>3, <2>4, CalmPlaces DEF FailActive
<1>7. CASE RunCall
  BY <1>7, RunCallPlaces
<1>8. CASE RunConnect
  <2>1. Head(strand).for \in Waiters /\ todo = <<>>
    BY <1>0, <1>8, StartFacts, TaskFields DEF RunConnect, StartTask
  <2>2. /\ SameSubmits(todo) /\ UNCHANGED <<pending, generic, active>>
        /\ \A d \in Calls : answer'[d] = "none" => answer[d] = "none"
    BY <1>0, <1>8, <2>1, ConnectCalm DEF RunConnect
  <2>3. SameCalls
    BY <1>8, SameStart DEF RunConnect
  <2> QED BY <1>8, <2>2, <2>3, CalmPlaces DEF RunConnect
<1>9. CASE RunShutdown
  <2>1. SameSubmits(todo) /\ UNCHANGED <<pending, generic, active, answer>>
    BY <1>0, <1>9, ShutdownCalm DEF RunShutdown, StartTask
  <2>2. SameCalls
    BY <1>9, SameStart DEF RunShutdown
  <2> QED BY <1>9, <2>1, <2>2, CalmPlaces DEF RunShutdown
<1>10. CASE RunConnected
  <2>1. SameCalls
    BY <1>10, SameStart DEF RunConnected
  <2>2. SameSubmits(todo)
    <3>1. CASE conn = "kShutdown"
      BY <1>10, <1>b, <3>1 DEF RunConnected
    <3>2. CASE conn # "kShutdown"
      <4> DEFINE e == Each("tell", waiters, "OK")
                 p == <<Step("drain", "none", "none")>>
      <4>1. "OK" \in Status
        BY DEF Status
      <4>2. p \in Seq(StepType) /\ \A i \in 1..Len(p) : p[i].do # "submit"
        BY StepsTyped, StepDo
      <4>3. e \in Seq(StepType)
        BY <1>0, <4>1, StepsTyped, EachFacts
      <4>4. todo' = e \o p /\ todo = <<>>
        BY <1>10, <3>2 DEF RunConnected, StartTask
      <4> HIDE DEF p
      <4>5. todo' = e \o p \o <<>>
        <5> HIDE DEF e
        <5>1. e \o p \in Seq(StepType)
          BY <4>2, <4>3, ConcatType
        <5> QED BY <4>4, <5>1
      <4> QED BY <1>0, <4>1, <4>2, <4>4, <4>5, SameTells
    <3> QED BY <3>1, <3>2
  <2> QED BY <1>10, <2>1, <2>2, CalmPlaces DEF RunConnected
<1>11. CASE RunError
  <2>1. SameCalls
    BY <1>11, SameStart DEF RunError
  <2> DEFINE e == Each("tell", waiters, "CONN_ERROR")
             p == <<Step("failAll", "none", "CONN_ERROR")>>
  <2>2. "CONN_ERROR" \in Status
    BY DEF Status
  <2>3. p \in Seq(StepType) /\ \A i \in 1..Len(p) : p[i].do # "submit"
    BY <2>2, StepsTyped, StepDo
  <2>4. SameSubmits(todo)
    <3>1. CASE conn = "kShutdown"
      BY <1>11, <1>b, <3>1 DEF RunError
    <3>2. CASE conn = "kReady"
      <4>1. todo' = p /\ todo = <<>>
        BY <1>11, <3>2 DEF RunError, StartTask
      <4> HIDE DEF p
      <4> QED BY <2>3, <4>1, HasNoSubmit, HasNone DEF SameSubmits
    <3>3. CASE conn \notin {"kShutdown", "kReady"}
      <4>1. e \in Seq(StepType)
        BY <1>0, <2>2, StepsTyped, EachFacts
      <4>2. todo' = e \o p /\ todo = <<>>
        BY <1>11, <3>3 DEF RunError, StartTask
      <4> HIDE DEF p
      <4>3. todo' = e \o p \o <<>>
        <5> HIDE DEF e
        <5>1. e \o p \in Seq(StepType)
          BY <2>3, <4>1, ConcatType
        <5> QED BY <4>2, <5>1
      <4> QED BY <1>0, <2>2, <2>3, <4>2, <4>3, SameTells
    <3> QED BY <3>1, <3>2, <3>3
  <2> HIDE DEF e, p
  <2> QED BY <1>11, <2>1, <2>4, CalmPlaces DEF RunError
<1>12. CASE RunGoaway
  <2>1. SameCalls
    BY <1>12, SameStart DEF RunGoaway
  <2>2. CASE conn = "kShutdown"
    BY <1>12, <1>b, <2>1, <2>2, CalmPlaces DEF RunGoaway
  <2>3. CASE conn # "kShutdown"
    <3> DEFINE n == Head(strand).last
               p == <<Step("failAll", "none", "UNAVAILABLE")>>
    <3>1. "UNAVAILABLE" \in Status
      BY DEF Status
    <3>2. /\ todo' = p /\ todo = <<>> /\ UNCHANGED <<pending, generic, asked>>
          /\ answer' = Answered(Unaccepted(n), "UNAVAILABLE")
          /\ active' = active \ Unaccepted(n)
      BY <1>12, <2>3 DEF RunGoaway, StartTask
    <3>3. \A i \in 1..Len(p) : p[i].do # "submit"
      BY StepDo
    <3> HIDE DEF n, p
    <3>4. SameSubmits(todo)
      BY <3>2, <3>3, HasNoSubmit, HasNone DEF SameSubmits
    <3>5. \A d \in Calls :
              /\ d \in Unaccepted(n) => Answered(Unaccepted(n), "UNAVAILABLE")[d] # "none"
              /\ Answered(Unaccepted(n), "UNAVAILABLE")[d] = "none" => answer[d] = "none"
      BY <1>0, <3>1, AnsweredFacts
    <3> QED BY <2>1, <3>2, <3>4, <3>5, CalmPlaces
  <2> QED BY <2>2, <2>3
<1>13. CASE RunClose
  <2>1. SameCalls
    BY <1>13, SameStart DEF RunClose
  <2> DEFINE c == Head(strand).for
  <2>2. /\ answer' = Answered({c}, "CLOSED") /\ active' = active \ {c}
        /\ UNCHANGED <<pending, generic, asked, todo>>
    BY <1>13 DEF RunClose
  <2> HIDE DEF c
  <2>3. "CLOSED" \in Status
    BY DEF Status
  <2>4. \A d \in Calls : /\ d \in {c} => Answered({c}, "CLOSED")[d] # "none"
                         /\ Answered({c}, "CLOSED")[d] = "none" => answer[d] = "none"
    BY <1>0, <2>3, AnsweredFacts
  <2> QED BY <1>b, <2>1, <2>2, <2>4, CalmPlaces
<1>14. CASE Peer
  <2>1. ASSUME NEW t \in TaskType, t.kind # "call", Report(t) PROVE PlaceInv'
    <3>1. SameCalls
      BY <2>1, SamePost DEF Report
    <3> QED BY <1>b, <2>1, <3>1, CalmPlaces DEF Report
  <2>2. \A k \in {"connected", "error"} :
            Task(k, "none") \in TaskType /\ Task(k, "none").kind # "call"
    BY TasksTyped DEF Task
  <2>3. \A n \in 0..MaxId : Goaway(n) \in TaskType /\ Goaway(n).kind # "call"
    <3>1. \A n \in 0..MaxId : Goaway(n).kind # "call"
      BY DEF Goaway
    <3> QED BY <3>1, TasksTyped
  <2>4. \A c \in Calls : Task("close", c) \in TaskType /\ Task("close", c).kind # "call"
    <3>1. \A c \in Calls : Task("close", c).kind # "call"
      BY DEF Task
    <3> QED BY <3>1, TasksTyped
  <2>5. CASE LinkUp \/ LinkFails
    <3>1. \E k \in {"connected", "error"} : Report(Task(k, "none"))
      BY <2>5 DEF LinkUp, LinkFails
    <3> QED BY <2>1, <2>2, <3>1
  <2>6. ASSUME NEW n \in 0..MaxId, PeerGoesAway(n) PROVE PlaceInv'
    <3>1. Report(Goaway(n)) /\ Goaway(n) \in TaskType /\ Goaway(n).kind # "call"
      BY <2>3, <2>6 DEF PeerGoesAway
    <3> QED BY <2>1, <3>1
  <2>7. ASSUME NEW c \in Calls, StreamCloses(c) PROVE PlaceInv'
    <3>1. Report(Task("close", c)) /\ Task("close", c) \in TaskType
          /\ Task("close", c).kind # "call"
      BY <2>4, <2>7 DEF StreamCloses
    <3> QED BY <2>1, <3>1
  <2> QED BY <1>14, <2>5, <2>6, <2>7 DEF Peer
<1>15. CASE UNCHANGED vars
  BY <1>15, <1>a, <1>b, CalmPlaces DEF vars
<1> QED
  BY <1>1, <1>2, <1>3, <1>4, <1>5, <1>6, <1>7, <1>8, <1>9, <1>10, <1>11, <1>12, <1>13,
     <1>14, <1>15
  DEF Next, RunStep, RunTask

(* Of the places of a call, none, one or several, PlaceInv allows one.     *)
LEMMA OnePlace ==
    ASSUME NEW c, AtMostOnce(c), Somewhere(c)
    PROVE  \E p \in Places(c) : Places(c) = {p}
<1> DEFINE A == {<<"strand", i>> : i \in {j \in 1..Len(strand) : strand[j] = Posting(c)}}
           B == {<<"todo", i>> : i \in {j \in 1..Len(todo) : todo[j] = Submitting(c)}}
           C == {<<"pending", i>> : i \in {j \in 1..Len(pending) : pending[j] = c}}
           D == {<<"generic", i>> : i \in {j \in 1..Len(generic) : generic[j] = c}}
           E == {<<"active", 0>> : a \in {c} \cap active}
<1>0. Places(c) = A \cup B \cup C \cup D \cup E
  BY DEF Places, Posting, Submitting
<1>1. /\ ~Has(strand, Posting(c)) => A = {}
      /\ Has(strand, Posting(c)) => \E p : A = {p}
  <2>1. ~Has(strand, Posting(c)) => A = {}
    BY DEF Has
  <2>2. ASSUME Has(strand, Posting(c)) PROVE \E p : A = {p}
    <3>1. PICK i \in 1..Len(strand) : strand[i] = Posting(c)
      BY <2>2 DEF Has
    <3>2. {j \in 1..Len(strand) : strand[j] = Posting(c)} = {i}
      BY <3>1 DEF AtMostOnce, AtMostOnceIn, Once
    <3>3. A = {<<"strand", i>>}
      BY <3>2
    <3> QED BY <3>3
  <2> QED BY <2>1, <2>2
<1>2. /\ ~Has(todo, Submitting(c)) => B = {}
      /\ Has(todo, Submitting(c)) => \E p : B = {p}
  <2>1. ~Has(todo, Submitting(c)) => B = {}
    BY DEF Has
  <2>2. ASSUME Has(todo, Submitting(c)) PROVE \E p : B = {p}
    <3>1. PICK i \in 1..Len(todo) : todo[i] = Submitting(c)
      BY <2>2 DEF Has
    <3>2. {j \in 1..Len(todo) : todo[j] = Submitting(c)} = {i}
      BY <3>1 DEF AtMostOnce, AtMostOnceIn, Once
    <3>3. B = {<<"todo", i>>}
      BY <3>2
    <3> QED BY <3>3
  <2> QED BY <2>1, <2>2
<1>3. (~Has(pending, c) => C = {}) /\ (Has(pending, c) => \E p : C = {p})
  <2>1. ~Has(pending, c) => C = {}
    BY DEF Has
  <2>2. ASSUME Has(pending, c) PROVE \E p : C = {p}
    <3>1. PICK i \in 1..Len(pending) : pending[i] = c
      BY <2>2 DEF Has
    <3>2. {j \in 1..Len(pending) : pending[j] = c} = {i}
      BY <3>1 DEF AtMostOnce, AtMostOnceIn, Once
    <3>3. C = {<<"pending", i>>}
      BY <3>2
    <3> QED BY <3>3
  <2> QED BY <2>1, <2>2
<1>4. (~Has(generic, c) => D = {}) /\ (Has(generic, c) => \E p : D = {p})
  <2>1. ~Has(generic, c) => D = {}
    BY DEF Has
  <2>2. ASSUME Has(generic, c) PROVE \E p : D = {p}
    <3>1. PICK i \in 1..Len(generic) : generic[i] = c
      BY <2>2 DEF Has
    <3>2. {j \in 1..Len(generic) : generic[j] = c} = {i}
      BY <3>1 DEF AtMostOnce, AtMostOnceIn, Once
    <3>3. D = {<<"generic", i>>}
      BY <3>2
    <3> QED BY <3>3
  <2> QED BY <2>1, <2>2
<1>5. (c \notin active => E = {}) /\ (c \in active => \E p : E = {p})
  <2>1. c \notin active => E = {}
    OBVIOUS
  <2>2. c \in active => E = {<<"active", 0>>}
    OBVIOUS
  <2> QED BY <2>1, <2>2
<1> HIDE DEF A, B, C, D, E
<1>6. CASE Has(strand, Posting(c))
  <2>1. Places(c) = A
    BY <1>0, <1>2, <1>3, <1>4, <1>5, <1>6 DEF AtMostOnce, AtMostOnceIn
  <2> QED BY <1>1, <1>6, <2>1
<1>7. CASE Has(todo, Submitting(c))
  <2>1. Places(c) = B
    BY <1>0, <1>1, <1>3, <1>4, <1>5, <1>7 DEF AtMostOnce, AtMostOnceIn
  <2> QED BY <1>2, <1>7, <2>1
<1>8. CASE Has(pending, c)
  <2>1. Places(c) = C
    BY <1>0, <1>1, <1>2, <1>4, <1>5, <1>8 DEF AtMostOnce, AtMostOnceIn
  <2> QED BY <1>3, <1>8, <2>1
<1>9. CASE Has(generic, c)
  <2>1. Places(c) = D
    BY <1>0, <1>1, <1>2, <1>3, <1>5, <1>9 DEF AtMostOnce, AtMostOnceIn
  <2> QED BY <1>4, <1>9, <2>1
<1>10. CASE c \in active
  <2>1. Places(c) = E
    BY <1>0, <1>1, <1>2, <1>3, <1>4, <1>10 DEF AtMostOnce, AtMostOnceIn
  <2> QED BY <1>5, <1>10, <2>1
<1> QED BY <1>6, <1>7, <1>8, <1>9, <1>10 DEF Somewhere, SomewhereIn

(* A call that has been made and not answered is in exactly one place: it  *)
(* is neither lost nor submitted twice, for any number of calls and        *)
(* Connects, whatever users do that are called back in the middle of a     *)
(* drain, and whenever Shutdown, GOAWAY or a lost connection come.         *)
THEOREM CallNeverForgotten == Safety => []NeverForgotten
<1>1. PlaceInv => NeverForgotten
  BY OnePlace DEF PlaceInv, NeverForgotten
<1>2. Init => TypeOK /\ PlaceInv
  BY InitTypes, InitPlaces
<1>3. TypeOK /\ PlaceInv /\ [Next]_vars => (TypeOK /\ PlaceInv)'
  BY TypeStep, PlaceStep
<1> QED
  BY <1>1, <1>2, <1>3, PTL DEF Safety

=============================================================================
