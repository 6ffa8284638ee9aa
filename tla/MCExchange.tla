----------------------------- MODULE MCExchange -----------------------------
(* An instance of Exchange for TLC: messages of 1, 0, 2 and 3 units, the    *)
(* last over the limit; a clock with units of 1, 4, 16 and 32; durations,   *)
(* metadata and messages at the edges of their encodings.                   *)
EXTENDS Exchange

MCFrameSize == <<3, 2, 4, 5>>

MCUnits == <<1, 4, 16, 32>>

Entry(k, v) == [key |-> k, value |-> v]

Asks(t, adds) == [timeout |-> t, adds |-> adds]

MCContexts ==
    { Asks(0, <<Entry("x-bin", <<15>>)>>), Asks(7, <<Entry("x-bin", <<0, 9>>)>>),
      Asks(8, <<Entry("x-bin", <<7, 15, 1>>)>>), Asks(29, <<>>), Asks(111, <<>>), Asks(127, <<>>),
      Asks(28, <<Entry("x", <<1>>), Entry("Invalid", <<1>>), Entry("grpc-timeout", <<1>>),
                 Entry(":path", <<1>>), Entry("grpc-x", <<1>>), Entry("x", <<0>>)>>),
      Asks(0, <<Entry("x", <<1, 1>>), Entry("x-bin", <<2>>)>>) }

Returns(c, m, d) == [code |-> c, message |-> m, details |-> d]

MCStatuses ==
    { Returns(0, <<>>, <<>>), Returns(9, <<2>>, <<3, 14>>), Returns(10, <<2, 1, 1>>, <<>>),
      Returns(16, <<0, 3>>, <<>>) }
=============================================================================
