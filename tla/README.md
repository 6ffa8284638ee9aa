# rpcpio: a TLA+ verification of the call state machines

rpcpio is a C++ gRPC runtime on Boost.Asio and nghttp2-asio. A `Channel` carries
calls over one HTTP/2 connection; a `Server` dispatches inbound streams to
handlers. This directory models the parts where several executors meet over the
state of a call, a channel or a server, and what a call carries from one end of
the connection to the other. TLC checks the models on small instances; TLAPS
proves the most important facts for every value of the constants.

## 1. Inventory

| Component (source) | State | Operations | Meets |
|---|---|---|---|
| Unary client call (`client/channel_impl.cc`, `client/call_state.cc`) | `UnaryCallControl` (cancelled_, cancel_stream_), `UnaryCallCompletion` (completed_, handler), `ClientCallState` (completed_, trailers_done_, decoder, timer) | UnaryCallRaw, SubmitCall, Attach, on_data, on_trailers, on_close, deadline, Cancel, Fail | strand, cancellers, pool, coroutine |
| Streaming client calls (`client/*_streaming_call_state.cc`) | closed_, trailers_done_, timer, message queue, final_status_, status_ready_ | Submit*, Attach, on_data, on_trailers, on_close, deadline, Cancel, Fail, Read, Finish | strand, pool, coroutine |
| Client request writer (`client/raw_client_impls.*`, `ClientWriterGenerator`) | pending_, offset_, writes_done_, req_ | Write, WritesDone, generator, on_close | coroutine, strand, session |
| Stream message queue (`protocol/stream_queue.*`) | buffer, error, eos, wake timer | Push, SetEos, SetError, Pop | producers and one consumer |
| Channel connection (`client/channel_impl.*`) | state_, pending queues, active maps, connect waiters, terminal status, sessions | Connect, DoConnect, OnConnected, OnGoaway, on_error, Shutdown | every client call |
| Frame codec (`protocol/framing.*`) | header and payload progress | EncodeFrame, Feed, MarkEos | call states |
| Server lifecycle (`server/server_impl.*`) | started_, listening_, shutdown_, active_calls_, worker threads | Start, Shutdown, FinishShutdown, Wait, HandleRequest, TrackCall | every server call |
| Server call states (`server/*call_state*`, `server/raw_server_impls.*`) | responded/finished flags, deadline timer, frame parser, writer queue | Start, OnData, OnRequestEnd, Cancel, OnClose, SendError, SendResponse, SendHeaders | connection executor, handler coroutine |
| Timeout and metadata codec (`protocol/timeout.cc`, `protocol/metadata_codec.cc`, `metadata.h`) | none | FormatTimeout, ParseTimeout, base64, percent coding, key checks, BuildTrailers, ExtractTrailerStatus | call states |
| Status map, compression | none | map, compress, decompress | call states |

Hard behaviour, by component:

* **Unary call**: four kinds of actor race to complete it. It is correct when the
  coroutine is resumed exactly once with an honest result, every event that ends
  a call does resolve it, and a cancelled call stays off the wire or is reset.
* **Streaming call**: closures posted to the pool overtake tasks posted to the
  strand. It is correct when messages arrive in order, a clean end comes last,
  the final status is reported once, and every end of the stream is reported.
* **Writer**: a deferred generator must be resumed; correct when frames go out
  whole and in order, END_STREAM last, and nothing waits for ever.
* **Channel**: queued calls and waiters must be drained by whatever ends the
  connection attempt, though a drain resumes coroutines that call the channel
  again; GOAWAY must only fail streams above its id.
* **Server call**: the handler's return, a peer reset, the deadline and Shutdown
  race to respond.
* **Server lifecycle**: Start can fail when handlers already run, Shutdown comes
  from anywhere, and a call may be tracked behind its back. It is correct when
  the transport is stopped once, no call is forgotten and Wait returns.
* **Codecs**: two ends that cut bytes differently must agree, at the edges of
  every encoding: the messages, the deadline, the metadata and the status that
  arrive are the ones that were given.

`PROJECT.json` lists the hazards line by line with the properties that cover them.

## 2. Modules

| Module | Models |
|---|---|
| `OneShotCall` | abstract: a call is resolved with one status and delivered once |
| `UnaryCall` | one unary call, from `UnaryCallRaw` to the resumed coroutine |
| `UnaryCallProofs` | its theorems |
| `StreamCall` | one server-streaming, bidirectional (`hasReader`) or client-streaming call, up to the status `Finish` returns |
| `StreamCallProofs` | its theorems |
| `ClientWriter` | the request side of client-streaming and bidirectional calls |
| `ClientWriterProofs` | its theorems |
| `Codec` | deadline, metadata and status as headers and trailers carry them: operators, no state |
| `CodecProofs` | lemmas about every codec, and the induction they rest on |
| `Exchange` | a client-streaming call from end to end: `ClientWriter`, `Codec`, the wire, the server's parser and the way back |
| `ExchangeProofs` | its theorems |
| `Channel` | one channel: Connect, queues, active streams, session callbacks, Shutdown |
| `ChannelProofs` | its theorems |
| `ServerCall` | one server call of any of the four kinds: call state, reader, writer and handler |
| `ServerCallProofs` | its theorems |
| `ServerLifecycle` | one server: Start, HandleRequest, Shutdown, FinishShutdown, Wait |
| `ServerLifecycleProofs` | its theorems |
| `MCUnaryCall`, `MCStreamCall`, `MCExchange`, `MCChannel`, `MCServerCall`, `MCServerLifecycle` | the instances TLC checks |

### How the models are cut

The channel strand is a FIFO of posted tasks (`strand`). One task runs at a time.
nghttp2 callbacks run on the strand as well, because the session is built on it;
most of them copy their argument and post a task, which is why *receiving* a frame
(`PeerData`, `PeerTrailers`, `StreamCloses`) and *handling* it (`RunData`,
`RunTrailers`, `RunClose`) are separate actions.

`UnaryCall` splits a strand handler where it meets state of another thread: the
mutex and atomic of `UnaryCallControl`, and the exchange of
`UnaryCallCompletion::Complete`, whose two halves are `Gate` and `ClearAndPost`.
`spc` is the strand's place in `SubmitCall`, `cpc[c]` a canceller's place in
`UnaryCallCompletion::Cancel`, `ioc` what `ClientCallState::Complete` posted to
the pool, `inbox` what was posted to the coroutine's executor.

`StreamCall` keeps `ioc` as a set: several threads run the `io_context`, so
closures posted to it run in any order and beside the strand. `Pop` checks the
queue and then waits; `OneThread` says whether another thread may run in
between. A `data` task says which messages its bytes complete and which one they
leave begun; `partial` is what the parser inside the call state keeps of it until the
next one. A close says what `OnStreamClose` makes of its error code: `CANCELLED` of a
peer's RST_STREAM(CANCEL), one other status for the rest. Data races on the queue's
`std::deque` are outside the model: it takes
each queue operation as atomic, the most favourable outcome.

`ClientWriter` sends frame `n` as `FrameSize[n]` units; every pull of the generator
takes between one unit and the rest of the frame. `Exchange` extends it: the
first `HeaderSize` units of a frame are its prefix, the connection delivers what
is on the wire in chunks of any length, and `Feed` is `StreamingFrameParser::Feed`,
whose loop takes a `FeedTurn` until the chunk is used up. A message is the sequence of
its units, so a lost, repeated or shifted unit shows. The deadline, the metadata and the status go through the
conversions of `Codec`, which are the code's with smaller numbers: a byte has
`Radix` squared values in a message and 16 in a binary value, and a header has
`MaxValue` for its eight digits. A loop over characters, digits, entries or headers is a
recursive function over its turn (`DecodeChar`, `DecodeDigit`, `StatusDigit`,
`ValidateAndAdd`), which is the form the proofs follow. Keys stand for classes of keys:
invalid ones, pseudo-headers, reserved keys that the reader skips (`grpc-timeout`) and that
it does not (`grpc-x`), binary ones, the rest. Metadata is kept in the order
in which it was added; the code's multimap sorts by key and keeps that order only
within a key, so `MetadataArrives` compares the entries of each key (`SameMultimap`).

In `Channel` a call is where the channel keeps it and what ended it. A handler of
the strand is a stack of steps, `todo`, because a Connect callback and the handle
of a streaming call resume the user's coroutine inside the handler (`inline`);
until the next step that coroutine may call the channel again, and `dispatch()`
runs the operation on top of the unfinished one (`InlineCall`, `InlineConnect`,
`InlineShutdown`). `link` is the connection below the session, `limit` the lowest
`last_stream_id` handled.

`ServerLifecycle` splits Start, Shutdown and HandleRequest where another thread
can come in between: at the atomics, the mutexes and the calls of the transport.
A call is a phase; what it does with its stream is `ServerCall`'s. `private` says
whether the server has its own workers or runs on the caller's `io_context`,
which the caller may stop. Shutdown may run at any time, also during Start and before it.
Wait is kept out of Start by the assumption `NotStarting`, which the code does not check:
`docs/concurrency.md` lists Start as not thread-safe. A Wait during a Start that fails
would take the threads, and Start would return with workers alive (`FailedStartIsClean`
is stated under that assumption).

`ServerCall` covers `ServerCallState`, `ServerStreamingCallState`,
`ClientStreamingCallState` and `BidiStreamingCallState` in one module: they are
variations of one machine, and `kind` says which. Everything in a server call runs on its connection's
executor, so an nghttp2 callback, a step of the handler's coroutine between two
suspensions, an expired timer and a dispatched `Cancel` are one action each; what
`timer_.cancel()` comes too late for stays in `posted`. `heads`, `sentOut` and
`ends` record what the call has said on its stream. The parser of a reading call
has a state `"error"`, in which the code goes on feeding a bidirectional call's parser;
payload `0` stands for one that is no message of the peer.

Statuses are named for their origin; in `UnaryCall` a peer's RST_STREAM(CANCEL), which
the code maps to `CANCELLED`, counts as the peer's. Message contents, metadata, header values
and wording are left out; the frame decoder is the four states a property can
tell apart, and what a chunk of bytes makes of it is chosen when it is fed; TLS
configuration, compression and message parsing are outcomes.
The peer and the nghttp2 session are external: they may do, in any order, what
HTTP/2 allows on one stream.

### Bounds

`MaxData`, `MaxMsgs`, `MaxFrames`, `MaxIn` and `MaxOut` bound what the peer, the
user or the handler sends. In `StreamCall` a message is cut once, that is, its bytes
come in at most two DATA callbacks: a third would leave the parser in the same state
as the second. Two
chunks suffice for every decoder transition (a split message, a second message,
trailing bytes, an early end) and two messages for an order. `Exchange` has four
frames, with messages of one, no, two (the limit) and three units, cut in every
way on both ends; its contexts and statuses sit on the edges of the encodings (a
duration that a coarser unit holds exactly, one that must be rounded up, the
largest that a unit holds, one that no peer can represent; one, two and three
binary bytes; an escape first, in the middle and last; metadata over the limit).
`Channel` has a unary call, a streaming call and a Connect, with GOAWAYs that
accept none or one stream (`MaxId`); `ServerLifecycle` two calls and two workers,
so that one call slips in between Shutdown's steps and a handler may join another
worker. Whether the
user set a deadline and, in `StreamCall`, which of the three calls was made are
choices of the behaviour, not constants. A call is started once and a user cancels once per canceller; the runs have one
canceller, and the theorems hold for any set of them. Initial connection
states are idle, connecting and ready; failed and shut down are reached by the
channel's own events before the call starts.

`CHECK_DEADLOCK FALSE` everywhere: a call that is over stops.

### Fairness

Liveness is checked under weak fairness of what the `io_context`'s threads do
with work already posted (strand tasks, pool closures, the coroutine's resumption
and its loop in `Pop`), of a canceller finishing the call it has begun, of an
armed timer expiring, and of the session pulling from a generator that is not
deferred (only `RequestEnds` needs the last; it supposes that the peer's
flow-control window reopens and that the connection delivers). In `UnaryCall` this is one
condition: while any of them has something to do, one of them goes on. Nothing else is
assumed of the peer, of the connection, of the user's next call, or of whether anyone
cancels. In `ServerCall` the executor runs what was
posted to it, a woken `Pop` continues and the session pulls; the user's handler
may take for ever. In `Channel` the strand takes the steps of its handler and the
tasks posted to it; nothing is assumed of the connection. In `ServerLifecycle` a
thread inside Start or Shutdown goes on, the `io_context` runs what is ready,
time passes, a stopped transport closes its streams, and a handler whose stream
is closed returns (`docs/concurrency.md` asks that of handlers).

## 3. Runs

| Run | Shows |
|---|---|
| `unary_call` | a canceller, a deadline, the peer, GOAWAY and Shutdown, and every split of a response: `TypeOK`, `ExactlyOnce`, `NeverOrphaned`, `HonestResult`, `NoStreamAfterCancel`, `UnaryCall` implements `OneShotCall`, and `EndResolves`: a cancellation, a closed stream, a deadline and a shutdown each resolve the call |
| `stream_reader` | `TypeOK`, `InOrder`, `HonestEnd` of all three kinds of call with several threads and messages cut by DATA |
| `stream_live` | `EndReported`, `ReadReturns` with one thread |
| `exchange` | both ends of a client-streaming call: `TypeOK`, `WireInOrder` and `NoFrameStuck` of the writer, `RequestArrives`, `DeadlineCarries`, `MetadataArrives`, `StatusArrives`, and `RequestEnds` |
| `channel` | `TypeOK`, `NeverForgotten` (a call is in exactly one place until it is answered), `SettledIsDrained`, `GoawayHolds`, `AttemptSettles`, `ShutdownAnswers` |
| `server_call` | all four kinds of server call: `TypeOK`, `OneResponse`, `HonestEnd`, `RequestInOrder`, `CancelEnds`, `DeadlineEnds`, `ReadReleased` |
| `server_lifecycle` | `TypeOK`, `StopOnce`, `NoCallForgotten`, `FailedStartIsClean`, `ShutdownStops`, `ApplicationReturns` |

Each property has a mutant in `PROJECT.json`: a plausible bug of the code under
which TLC finds it violated.

### Disagreements between code and documentation

Five runs expect a violation; each counterexample is a behaviour of the code.

* `unary_cancel_reset`: a cancellation that meets `SetCancelStream` between its
  mutex and its call of `Cancel()` completes the call and never resets the stream.
* `stream_lost_wakeup`: with several threads a wake-up between `Pop`'s check and
  its wait is lost and `Read` never returns.
* `stream_status_once`: the trailers of a streaming call report the status and do not
  close the gate, so a GOAWAY, Shutdown, cancellation or deadline before the stream's
  close reports another (`StatusOnce`): `Read` may return the clean end and `Finish` a
  local failure, though `docs/concurrency.md` says that every call state has a
  single-fire gate and that exactly one completion fires.
* `server_silent`: a server-streaming call whose deadline handler is already queued
  when the peer closes the stream writes a trailers-only response after the close,
  because its `OnClose` does not set `responded_`.
* `channel_loss`: a connection error on a ready channel empties the queues and does
  nothing else: the active calls are not failed and the channel stays ready on a
  dead session.

More are modelled without a run of their own. On the client:

* The close of the stream can overtake a trailers-only status on its way through the
  pool (`RunTrailersOnly`), and the call reports "missing grpc-status".
* A message cut short by the trailers is dropped and the call ends with the peer's OK:
  the trailers task does not ask the parser whether it is between frames (`PeerTrailers`
  with `cut`). `InOrder` and `HonestEnd` count the messages sent to their end; no document
  says what a streaming call should do.
* `RunDeadline` does not reset the stream, though `prompt.md` asks for it.
* A cancel, write or half-close task queued before a stream closes runs after it,
  when the request object is gone (the models give it no effect then).

And on the server:

* Shutdown cancels the calls and clears `active_calls_` before `FinishShutdown` looks
  at it, so the grace period is given only to a call tracked after the clear, while
  `server.h` promises to wait for active calls.
* A Shutdown before Start, or during it when `listening_` is not yet set, uses up
  `shutdown_`: the server listens, refuses every call, and nothing stops it later
  (`ShutdownEnds`).
* Wait inside a handler never returns when there is another worker: the handler is
  outstanding work of the context that worker runs (`Idle`).
* A server-streaming call gives up its deadline when its request is complete
  (`DeadlineEnds` excludes it from there on).
* A bidirectional handler that reads on after a `Write` over the limit is not released
  by the close of the stream (`ReadReleased` excludes it).
* A client-streaming request cut inside a frame ends cleanly (`ServerCall`'s
  `OnHalfClose`).
* A deadline beyond what 64 bits of nanoseconds hold when rounded up to hours
  arrives as none (`DeadlineCarries` says when).

## 4. Proofs

Every theorem has the form `Safety => []P` (or `Safety => P` for an action property or a
refinement) and holds for every value of the constants. Each rests on an inductive
invariant that TLC checked first on the instances of the runs.

`UnaryCallProofs` (for any set of cancellers, with or without a deadline, any amount of data):

* `TypeCorrect`: `Safety => [](TypeOK /\ ResultChosen)`. `TypeOK` alone is not
  inductive: `ClearAndPost` posts `result`, which is a status only because the
  gate sets it with `completed`; `ResultChosen` says so.
* `CompletesOnce`: `Safety => []ExactlyOnce`. Every step is one of three things
  at the gate (`GateStep`): it leaves it alone, passes it, or moves the result
  one place on; the count of places follows.
* `NoCallIsOrphaned`: `Safety => []NeverOrphaned`. `OwnerInv` adds what an unopened
  and an opened stream look like: there is one submission at most, and nothing about a
  stream is on the strand before it is open, so whoever lets go of the call hands it on.
* `ResultIsHonest`: `Safety => []HonestResult`. `ReasonInv` follows a reason from where
  it arises to the task or canceller that carries it, `HonestInv` the status from the
  call state through the pool to the coroutine.
* `CancelledCallStaysOffTheWire`: `Safety => NoStreamAfterCancel`, action by
  action: only `SubmitOpens` opens a stream, and it needs the submission past its
  check.
* `RefinesOneShot`: `Safety => ImplementsOneShot`, under the mapping
  `resolution <- result`, `delivered <- resumed`; passing the gate is `Resolve`,
  resuming is `Deliver`, every other step stutters. It rests on the two first.

`StreamCallProofs` (all three kinds of call, any number of messages, one thread or several):

* `StreamTypeCorrect`: `Safety => []TypeOK`.
* `MessagesKeepOrder`: `Safety => []InOrder`. `Ordered` says what may stand behind what
  on the strand; `DataInv` that, while the call is not closed, the parser is inside the next
  message to be taken or inside none, and every message sent is taken or completed by a task
  on the strand.
* `StreamEndIsHonest`: `Safety => []HonestEnd`. `StatusInv`: a status of the peer's is
  written only behind all its messages. `GateInv`: one failure or close passes `closed_`,
  and a local status is written by its closure only. `CallInv` and `CancelInv` keep the
  reasons, a peer's reset included.

`ClientWriterProofs` (for any number and size of frames):

* `WriterTypeCorrect`: `Safety => []TypeOK`; the generator's offset stays inside
  the front frame.
* `NoWriteIsForgotten`: `Safety => []NoFrameStuck`. The invariant adds
  `ReqOfOpenStream`: an open stream has its request and no close task queued, so
  `resume()` always reaches it.
* `WireKeepsOrder`: `Safety => []WireInOrder`. `OrderInv` splits the frames written into
  those the wire has, the ones queued from the one the generator is in, and those on
  their way to the strand; the task of `WritesDone` stands behind all frames.

`ServerCallProofs` (for any number of messages each way, all four kinds):

* `ServerTypeCorrect`: `Safety => []TypeOK`. What ends a call is a status only
  because `Finish` builds the trailers before the generator can see `finished_`,
  and because `OnClose`, which sets `finished_` without trailers, also means that
  nothing is pulled any more; `TypeInv` says so, and that a message counts as one
  DATA callback at most.
* `RespondsOnce`: `Safety => []OneResponse`. `HeadInv` ties the headers to
  `responded_`; `EndInv` says that a call which has ended has no generator or an
  exhausted one, whose writer is finished, so that a handler still running cannot
  queue a frame behind the trailers. Every action is an instance of three lemmas
  (it answers trailers-only, finishes the writer, or leaves the response alone),
  apart from those that send the headers, write, and pull.
* `ServerEndIsHonest`: `Safety => []HonestEnd`. `CauseInv`: the cause is there before the
  function that reports it is queued, and only an exhausted generator ends with OK;
  `FrameInv`: what was sent and what is queued is all that was written.
* `RequestKeepsOrder`: `Safety => []RequestInOrder`. `GotInv`: without a bad header the
  reader has all that was sent, until a response makes the call ignore the rest; with
  one, what the parser makes of the bytes still keeps its order. `ReadInv`: the error of
  a bad header stands before the end in `Pop`.

`ChannelProofs` (for any calls and Connects, any depth of resumed coroutines, any `MaxId`):

* `ChannelTypeCorrect`: `Safety => []TypeOK`.
* `GoawayIsHonoured`: `Safety => []GoawayHolds`. A stream opened after a GOAWAY would have
  a higher id, so the channel must not become ready again. `LinkInv` says why it does not:
  the link is dialed once, and its reports reach the strand in order, "connected" first.
* `SettledChannelIsDrained`: `Safety => []SettledIsDrained`. In the middle of a handler a
  settled channel may hold calls; `DrainInv` says that the handler then still has the step
  that drains them, under whatever a resumed coroutine has put on top of it.
* `CallNeverForgotten`: `Safety => []NeverForgotten`. `PlaceInv` counts the places of every
  call, answered ones too, because an answered unary call stays where it is until the
  channel comes across it: nowhere before it is made, never in two places, somewhere until
  it is answered. Steps that move no call are one lemma (`CalmPlaces`), the three ways to
  submit another (`SubmitPlaces`), and the two drains are proved on their own.

`ServerLifecycleProofs` (for any set of calls and workers):

* `LifecycleTypeCorrect`, `TransportStopsOnce`, `ShutdownForgetsNoCall` and
  `FailedStartLeavesNothing`: `Safety =>` `[]TypeOK`, `[]StopOnce`, `[]NoCallForgotten`
  and `[]FailedStartIsClean`. `TransportInv` follows the transport through Start,
  `ThreadInv` the worker threads into the Wait of a failed Start, and `CallInv` says that
  an open call is in `active_calls_` until Shutdown collects it.

`ExchangeProofs` and `CodecProofs` (for frames and prefixes of any size, any units and
limits of the clock):

* `RequestArrivesWhole`: `ExchangeSafety => []RequestArrives`. `ReadInv` says where the
  parser stands: `Position` reads off the wire which frame comes next and how much of it
  has passed, `ParserAt` that the header and payload kept are exactly those units. One turn
  of the loop moves both along together (`HeaderTurn`, `PayloadTurn`), so a chunk leaves
  the parser where the chunk ends, with the messages completed on the way (`FeedChunk`), or
  refuses the first message over the limit. On the client's side it rests on
  `WireKeepsOrder`'s invariant.
* `DeadlineArrives`: `ExchangeSafety => []DeadlineCarries`. The work is `TimeoutCarries`
  about `FormatTimeout` and `ParseTimeout`: the finest unit that fits gives the shortest
  duration because coarser units are multiples of it, a unit is passed over only for one
  that is exact, and the overflow check of `ParseTimeout` refuses just what exceeds
  `MaxNs`.

* `StatusArrivesWhole`: `ExchangeSafety => []StatusArrives`. `StatusInv`: what is on its
  way is `BuildTrailers` of the status that was chosen, and the call is answered once. The
  work is `TrailersRoundTrip`, from three facts about values of any length. `StatusRoundTrip`:
  the text of a code up to 16 is read as that code. `PercentRoundTrip`: the encoding of a
  message starts with that of each of its first parts (`Starts`), and where such a part ends
  the decoder has nothing left to skip and has copied just that part (`Between`, `CharStep`).
  `Base64RoundTrip`: after any number of digits the decoder has copied all bytes they
  complete, and `buf` holds the bits of the next one (`Decoded`, `DigitStep`); the encoder's
  number of digits is the one that completes the last byte and no more.
* `MetadataArrivesWhole`: `ExchangeSafety => []MetadataArrives`. `Accepted`: what the context
  accepts is what may be sent, and an entry that may be sent passes both `MetadataToHeaders`'
  filter and the reader's. `MetadataRoundTrip`: the headers of such entries are read as the
  entries, binary values by `Base64RoundTrip`, behind a header that is dropped and one that is
  kept. That is the whole sequence; `MetadataArrives` follows for each key. `TotalSize`
  needs no fact: both sides of the limit count the same metadata.

Induction over data is done by hand: the library's well-foundedness of `<` gives the
least-number principle (`LeastNat`), and that gives induction in terms of sets (`Induction`).
With it a function defined turn by turn exists: `LoopExists` for `Feed`, and `LoopRuns` for
any loop whose turns are functions on a set of states. The lemmas named `...Runs` apply it to
one codec each, and say that its result is that of the last turn; what the codec computes is
then an induction over the turns.

Assumptions: the constants' types, frame sizes positive and at least a prefix (5 bytes in
the code), the names of different actors distinct; of the clock, that each unit is a
multiple of the finer ones (`kUnits`) and that the largest value of the coarsest unit
(99999999 hours) is not less than the largest duration (`INT64_MAX` nanoseconds), so that
every duration can be expressed; of the codecs, that there are at least two hex digits, that
a context's metadata is a sequence of entries with values of bytes, and that a status the
handler returns has a code of `StatusCode` (0 to 16), a message of characters and details of
bytes. The sizes of base64 are the model's, bytes of 4 bits and digits of 3: the proof is for
values of any length at that size. The code's 8 and 6 bits have the same ratio, so a group
goes through the same phases.

Only model-checked: the liveness properties (`EndResolves`, `EndReported`, `ReadReturns`,
`RequestEnds`, `AttemptSettles`, `ShutdownAnswers`, `CancelEnds`, `DeadlineEnds`,
`ReadReleased`, `ShutdownStops`, `ApplicationReturns`); fairness is out of the prover's reach.

## 5. Not modelled

* TLS contexts, certificates and peer identity: OpenSSL calls and files. That the
  configuration fails is an alternative of `DoConnect` and `StartImpl`.
* The tables of `status_map.cc`: total functions without control. `StreamCall` keeps of
  them that the error code CANCEL, and no other, becomes `CANCELLED`.
* Compression: the loops of `compression.cc` are around zlib, whose output is not
  modelled; a failure is an alternative where a message is decoded. Two of its
  edges are listed among the hazards.
* `FrameDecoder` byte by byte: `UnaryCall` and `ServerCall` keep the states its
  callers tell apart; the byte level is checked on `StreamingFrameParser`.
* Headers that only a foreign peer would send: malformed timeouts, base64 with
  padding, a grpc-status that is empty or no number.
* The code generator (text from descriptors), the examples and the tests. The
  socket below nghttp2 is represented by the callbacks it causes.

## 6. Status

Every safety property that a run checks is proved for all values of the constants; the
liveness properties are checked on the instances. What would extend the project next is
`FrameDecoder` at the byte level, in the way of `StreamingFrameParser`, and the hazards
that `PROJECT.json` lists without a property.
