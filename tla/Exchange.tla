------------------------------ MODULE Exchange ------------------------------
(***************************************************************************)
(* A client-streaming call on the wire, from end to end: the HEADERS that  *)
(* BuildStreamingGrpcHeaders makes of the context, ClientWriter and its    *)
(* generator, the wire, which hands over what was sent in chunks of any    *)
(* length, ClientStreamingCallState with its StreamingFrameParser, and the *)
(* trailers that carry the status back.  The first HeaderSize units of a   *)
(* frame are its prefix, the rest is the message.  Deadlines and           *)
(* cancellations are in StreamCall and ServerCall.                         *)
(***************************************************************************)
EXTENDS ClientWriter, Codec

CONSTANTS
    HeaderSize,    \* units of a frame's prefix
    MaxMessage,    \* max_message_size_
    Contexts,      \* what the user asks for: [timeout, adds]; no deadline is 0
    Statuses       \* what the handler returns: [code, message, details]

ASSUME HeaderSizeAssumption ==
    HeaderSize \in Nat \ {0} /\ \A n \in Frame : FrameSize[n] >= HeaderSize
ASSUME ContextsAssumption ==
    \A c \in Contexts : c.timeout \in 0..MaxNs /\ c.adds \in Seq([key : STRING, value : Seq(Byte)])
ASSUME StatusesAssumption == Statuses \subseteq Status

VARIABLES
    context,     \* the ClientContext
    request,     \* "no" before Start, then what the reader is told
    deadline,    \* the server's deadline; 0 is none
    metadata,    \* the server's client_metadata
    delivered,   \* units of the wire that OnData has been called with
    parser,      \* parser_
    received,    \* messages pushed to the queue
    status,      \* what the server ends the call with; <<>> before
    trailers,    \* its encoding on the wire
    result       \* the status the client makes of it

headerVars == <<deadline, metadata>>
bodyVars   == <<request, delivered, parser, received>>
answerVars == <<status, trailers, result>>
serverVars == <<headerVars, bodyVars, answerVars>>

-----------------------------------------------------------------------------
NewParser == [header |-> <<>>, len |-> 0, payload |-> <<>>, out |-> <<>>, ok |-> TRUE]

(* The length a header announces.  Units of two frames are no header.      *)
IsHeader(h) == \E n \in Frame : h = [i \in 1..HeaderSize |-> <<n, i>>]

Announced(h) == FrameSize[h[1][1]] - HeaderSize

(* Mutant: an empty message does not reset the header.                     *)
HeaderDone_Sticks(p) ==
    IF ~IsHeader(p.header) \/ Announced(p.header) > MaxMessage
    THEN [p EXCEPT !.ok = FALSE]
    ELSE [p EXCEPT !.len = Announced(p.header), !.payload = <<>>,
                   !.out = IF Announced(p.header) = 0 THEN Append(p.out, <<>>) ELSE p.out]

(* A complete header: refused, or the message is empty and complete, or    *)
(* its bytes follow.                                                       *)
HeaderDone(p) ==
    IF ~IsHeader(p.header) \/ Announced(p.header) > MaxMessage
    THEN [p EXCEPT !.ok = FALSE]
    ELSE IF Announced(p.header) = 0
         THEN [p EXCEPT !.len = 0, !.payload = <<>>, !.out = Append(p.out, <<>>),
                        !.header = <<>>]
         ELSE [p EXCEPT !.len = Announced(p.header), !.payload = <<>>]

PayloadDone(p) ==
    [p EXCEPT !.out = Append(p.out, p.payload), !.header = <<>>, !.len = 0, !.payload = <<>>]

(* A turn of Feed's loop, with the chunk that is left: it takes what the   *)
(* header or the message still needs.                                      *)
FeedTurn(f) ==
    LET p        == f.parser
        inHeader == Len(p.header) < HeaderSize
        need     == IF inHeader THEN HeaderSize - Len(p.header) ELSE p.len - Len(p.payload)
        take     == Least(need, Len(f.chunk))
        taken    == SubSeq(f.chunk, 1, take)
        q        == IF inHeader THEN [p EXCEPT !.header = @ \o taken]
                                ELSE [p EXCEPT !.payload = @ \o taken]
        next     == IF take < need THEN q ELSE IF inHeader THEN HeaderDone(q) ELSE PayloadDone(q)
    IN  IF f.chunk = <<>> \/ ~p.ok
        THEN f
        ELSE [parser |-> next, chunk |-> SubSeq(f.chunk, take + 1, Len(f.chunk))]

(* StreamingFrameParser::Feed turns until the chunk is used up or a header *)
(* is refused.  A turn takes at least one unit.                            *)
Feed(p, chunk) ==
    LET loop[k \in 0..Len(chunk)] ==
            IF k = 0 THEN [parser |-> p, chunk |-> chunk] ELSE FeedTurn(loop[k - 1])
    IN  loop[Len(chunk)].parser

-----------------------------------------------------------------------------
ExchangeInit ==
    /\ Init
    /\ context \in Contexts
    /\ request = "no" /\ deadline = 0 /\ metadata = <<>>
    /\ delivered = 0 /\ parser = NewParser /\ received = <<>>
    /\ status = <<>> /\ trailers = <<>> /\ result = <<>>

(* The client's side, as ClientWriter has it.                              *)
ClientStep == Next /\ UNCHANGED <<context, serverVars>>

(* What the ClientContext has accepted; AddMetadata throws for the rest.    *)
SendMetadata ==
    LET adds == context.adds
        md[k \in 0..Len(adds)] == IF k = 0 THEN <<>> ELSE ValidateAndAdd(md[k - 1], adds[k])
    IN  md[Len(adds)]

(* The headers of the request: the channel's own, and the user's metadata. *)
BuildStreamingGrpcHeaders ==
    << [key |-> "content-type", value |-> <<>>], [key |-> "user-agent", value |-> <<0>>] >>
      \o MetadataToHeaders(SendMetadata)

(* SendError and SendResponse: the status goes out in the trailers.        *)
Respond(s) == status' = <<s>> /\ trailers' = <<BuildTrailers(s)>>

TooLarge == [code |-> 8, message |-> <<0>>, details |-> <<>>]

(* ClientStreamingCallState::Start, when the HEADERS arrive.               *)
Start ==
    /\ request = "no"
    /\ LET md == HeadersToMetadata(BuildStreamingGrpcHeaders) IN
           IF TotalSize(md) > MaxMetadata
           THEN /\ request' = "refused" /\ Respond(TooLarge)
                /\ UNCHANGED headerVars
           ELSE /\ request' = "reading" /\ metadata' = md
                /\ deadline' = IF context.timeout = 0 THEN 0
                               ELSE ParseTimeout(FormatTimeout(context.timeout))
                /\ UNCHANGED <<status, trailers>>
    /\ UNCHANGED <<vars, context, delivered, parser, received, result>>

Reading == request = "reading" /\ trailers = <<>>

(* OnData with the next n units of the wire.  A refused header ends the    *)
(* request; a message before it in the chunk has been pushed.              *)
OnData(n) ==
    /\ Reading
    /\ LET fed == Feed([parser EXCEPT !.out = <<>>], SubSeq(wire, delivered + 1, delivered + n))
       IN  /\ received' = received \o fed.out
           /\ parser' = [fed EXCEPT !.out = <<>>]
           /\ IF fed.ok THEN UNCHANGED <<request, status, trailers>>
                        ELSE request' = "error" /\ Respond(TooLarge)
    /\ delivered' = delivered + n
    /\ UNCHANGED <<vars, context, headerVars, result>>

(* OnData with no bytes: END_STREAM, behind all that was sent.             *)
OnHalfClose ==
    /\ Reading /\ eof /\ delivered = Len(wire)
    /\ request' = "eos"
    /\ UNCHANGED <<vars, context, headerVars, delivered, parser, received, answerVars>>

Unanswered == request \in {"reading", "eos"} /\ trailers = <<>>

(* Mutant: the reader is not told of a stream that closes.                 *)
OnClose_Silent ==
    /\ Unanswered /\ stream = "closed"
    /\ UNCHANGED <<vars, context, serverVars>>

(* OnClose: the stream is closed under the request.  What had not arrived  *)
(* is lost, and nothing the handler returns goes out any more.             *)
OnClose ==
    /\ Unanswered /\ stream = "closed"
    /\ request' = "closed"
    /\ UNCHANGED <<vars, context, headerVars, delivered, parser, received, answerVars>>

(* The handler returns, after the whole request or before; what arrives    *)
(* later is ignored.                                                       *)
HandlerReturns ==
    /\ Unanswered
    /\ \E s \in Statuses : Respond(s)
    /\ UNCHANGED <<vars, context, headerVars, bodyVars, result>>

(* The client's on_trailers, or Attach for a trailers-only response.       *)
OnTrailers ==
    /\ trailers # <<>> /\ result = <<>> /\ stream = "open"
    /\ result' = <<ExtractTrailerStatus(trailers[1])>>
    /\ UNCHANGED <<vars, context, headerVars, bodyVars, status, trailers>>

ServerStep ==
    \/ Start \/ OnHalfClose \/ OnClose
    \/ \E n \in 1..(Len(wire) - delivered) : OnData(n)

ExchangeNext == ClientStep \/ ServerStep \/ HandlerReturns \/ OnTrailers

allVars == <<vars, context, serverVars>>

ExchangeSafety == ExchangeInit /\ [][ExchangeNext]_allVars

(* Both ends go on and the connection between them delivers.  The user     *)
(* need neither write nor finish, the handler need not return, the stream  *)
(* need not close.                                                         *)
ExchangeSpec ==
    /\ ExchangeSafety
    /\ WF_allVars(RunTask /\ UNCHANGED <<context, serverVars>>)
    /\ WF_allVars(Generate /\ UNCHANGED <<context, serverVars>>)
    /\ WF_allVars(ServerStep)

-----------------------------------------------------------------------------
Message(n) == [i \in 1..(FrameSize[n] - HeaderSize) |-> <<n, HeaderSize + i>>]

(* The handler is given the messages that were written, whole and in       *)
(* order, however the generator and the connection cut the frames, empty   *)
(* messages included.  A clean end comes after the last one; an error is   *)
(* the first message over the limit, and none before it is lost.           *)
RequestArrives ==
    /\ Len(received) <= written
    /\ \A n \in 1..Len(received) : received[n] = Message(n)
    /\ request = "eos" => doneAsked /\ Len(received) = written
    /\ request = "error" => /\ Len(received) < written
                            /\ FrameSize[Len(received) + 1] - HeaderSize > MaxMessage

(* timeout.cc: the peer never sees a shorter deadline than was asked for.  *)
(* It sees the shortest expressible one that is not shorter, and none at   *)
(* all only if that exceeds the largest duration.                          *)
DeadlineCarries ==
    request \notin {"no", "refused"} /\ context.timeout > 0
        => LET best == Min({d \in Expressible : d >= context.timeout})
           IN  deadline = IF best > MaxNs THEN 0 ELSE best

(* Keys that may not be sent, and what of a context's metadata may be.     *)
Forbidden == {"Invalid", ":path", "grpc-timeout", "grpc-x", "content-type"}

Sendable(adds) ==
    LET kept[k \in 0..Len(adds)] ==
            IF k = 0 THEN <<>>
            ELSE IF adds[k].key \in Forbidden THEN kept[k - 1] ELSE Append(kept[k - 1], adds[k])
    IN  kept[Len(adds)]

(* The same entries, and those of a key in the same order: MetadataMap is  *)
(* a multimap, which keeps no order between keys.                          *)
SameMultimap(a, b) ==
    /\ Len(a) = Len(b)
    /\ \A i \in 1..Len(b) :
           LET sameKey(e) == e.key = b[i].key IN SelectSeq(a, sameKey) = SelectSeq(b, sameKey)

(* The handler finds what the user has put into the context, binary values *)
(* too, except keys that may not be sent; the values of a key come in the  *)
(* order they were added, and the user agent comes with them.  The limit   *)
(* counts what the handler would find.                                     *)
MetadataArrives ==
    LET expected == <<[key |-> "user-agent", value |-> <<0>>]>> \o Sendable(context.adds)
    IN  /\ request \notin {"no", "refused"} => SameMultimap(metadata, expected)
        /\ request # "no" => (request = "refused" <=> TotalSize(expected) > MaxMetadata)

(* The client is told the status the server ended the call with, whatever  *)
(* its message and details contain.                                        *)
StatusArrives == result # <<>> => result = status

(* After WritesDone the handler learns how the request ended, unless it    *)
(* has returned before.                                                    *)
RequestEnds == doneAsked ~> (request \in {"eos", "error", "closed", "refused"} \/ trailers # <<>>)
=============================================================================
