--------------------------- MODULE ExchangeProofs ---------------------------
(***************************************************************************)
(* Theorems about Exchange: the server's parser finds the messages in the  *)
(* bytes again, for frames and prefixes of any size and however the bytes  *)
(* are cut on their way, and the deadline, the metadata and the status     *)
(* arrive as the codecs promise.                                           *)
(***************************************************************************)
EXTENDS Exchange, ClientWriterProofs, CodecProofs

-----------------------------------------------------------------------------
(* Feed runs its loop                                                       *)

FirstTurn(p, chunk) == [parser |-> p, chunk |-> chunk]

IsLoop(g, p, chunk, n) ==
    g = [k \in 0..n |-> IF k = 0 THEN FirstTurn(p, chunk) ELSE FeedTurn(g[k - 1])]

(* A function defined by turns exists up to any number of turns.           *)
LEMMA LoopExists ==
    ASSUME NEW p, NEW chunk, NEW n \in Nat
    PROVE  \E g : IsLoop(g, p, chunk, n)
<1> DEFINE T == {k \in Nat : \E g : IsLoop(g, p, chunk, k)}
<1>1. 0 \in T
  <2> DEFINE g == [k \in 0..0 |-> FirstTurn(p, chunk)]
  <2>1. IsLoop(g, p, chunk, 0)
    BY DEF IsLoop
  <2> QED BY <2>1
<1>2. ASSUME NEW k \in T PROVE k + 1 \in T
  <2>1. PICK g : IsLoop(g, p, chunk, k)
    OBVIOUS
  <2> DEFINE h == [j \in 0..(k + 1) |-> IF j = k + 1 THEN FeedTurn(g[k]) ELSE g[j]]
  <2>2. \A j \in 0..k : h[j] = g[j]
    OBVIOUS
  <2>3. \A j \in 0..k : g[j] = IF j = 0 THEN FirstTurn(p, chunk) ELSE FeedTurn(g[j - 1])
    BY <2>1 DEF IsLoop
  <2>4. ASSUME NEW j \in 0..(k + 1)
        PROVE  h[j] = IF j = 0 THEN FirstTurn(p, chunk) ELSE FeedTurn(h[j - 1])
    <3>1. CASE j = k + 1
      <4>1. h[j] = FeedTurn(g[k]) /\ j # 0 /\ j - 1 = k /\ k \in 0..k
        BY <3>1
      <4> QED BY <2>2, <4>1
    <3>2. CASE j = 0
      BY <2>2, <2>3, <3>2
    <3>3. CASE j # 0 /\ j # k + 1
      <4>1. j \in 0..k /\ j - 1 \in 0..k
        BY <3>3
      <4> QED BY <2>2, <2>3, <3>3, <4>1
    <3> QED BY <3>1, <3>2, <3>3
  <2>5. h = [j \in 0..(k + 1) |-> h[j]]
    OBVIOUS
  <2> HIDE DEF h
  <2>6. IsLoop(h, p, chunk, k + 1)
    BY <2>4, <2>5 DEF IsLoop
  <2> QED BY <2>6
<1> HIDE DEF T
<1>3. T = Nat
  <2>1. T \in SUBSET Nat
    BY DEF T
  <2> QED BY <1>1, <1>2, <2>1, Induction
<1> QED BY <1>3 DEF T

(* Feed returns the parser of the last turn.                               *)
LEMMA FeedTurns ==
    ASSUME NEW p, NEW chunk, Len(chunk) \in Nat
    PROVE  \E g : /\ g[0] = FirstTurn(p, chunk)
                  /\ \A k \in 1..Len(chunk) : g[k] = FeedTurn(g[k - 1])
                  /\ Feed(p, chunk) = g[Len(chunk)].parser
<1> DEFINE n == Len(chunk)
           g == CHOOSE f : IsLoop(f, p, chunk, n)
<1>1. IsLoop(g, p, chunk, n)
  BY LoopExists
<1>2. Feed(p, chunk) = g[n].parser
  BY DEF Feed, IsLoop, FirstTurn
<1> HIDE DEF g
<1>3. \A k \in 0..n : g[k] = IF k = 0 THEN FirstTurn(p, chunk) ELSE FeedTurn(g[k - 1])
  BY <1>1 DEF IsLoop
<1> HIDE DEF n
<1>4. n \in Nat
  BY DEF n
<1>5. 0 \in 0..n /\ \A k \in 1..n : k \in 0..n /\ k # 0
  BY <1>4
<1>6. g[0] = FirstTurn(p, chunk) /\ \A k \in 1..n : g[k] = FeedTurn(g[k - 1])
  BY <1>3, <1>5
<1> QED BY <1>2, <1>6 DEF n

-----------------------------------------------------------------------------
(* Positions on the wire                                                    *)

Unit == Frame \X Nat

(* After x units, frame m is the next to be completed, and o units of it   *)
(* have passed.                                                            *)
Position(x, m, o) ==
    IF x = 0 THEN m = 1 /\ o = 0 ELSE UnitAfter(wire[x]) = <<m, o + 1>>

(* Every unit on the wire belongs to a frame that was written.             *)
WireUnits ==
    \A j \in 1..Len(wire) :
        wire[j][1] \in 1..written /\ wire[j][2] \in 1..FrameSize[wire[j][1]]

WireInv == wire \in Seq(Unit) /\ Len(wire) \in Nat /\ written \in 0..MaxFrames
           /\ UnitsInOrder /\ WireUnits

LEMMA FrameFacts ==
    ASSUME NEW m \in Frame
    PROVE  m \in Nat \ {0} /\ FrameSize[m] \in Nat \ {0} /\ FrameSize[m] >= HeaderSize
BY MaxFramesAssumption, FrameSizeAssumption, HeaderSizeAssumption DEF Frame

(* The unit behind a position is the one that the position names.          *)
LEMMA NextUnit ==
    ASSUME WireInv, NEW x \in Nat, x < Len(wire), NEW m \in Nat, NEW o \in Nat, Position(x, m, o)
    PROVE  /\ wire[x + 1] = <<m, o + 1>> /\ m \in 1..written /\ m \in Frame
           /\ o + 1 <= FrameSize[m]
<1>1. x + 1 \in 1..Len(wire) /\ (x + 1) - 1 = x /\ (x + 1 = 1 <=> x = 0)
  BY DEF WireInv
<1>2. wire[x + 1] = <<m, o + 1>>
  BY <1>1 DEF WireInv, UnitsInOrder, Position
<1>3. m \in 1..written /\ o + 1 \in 1..FrameSize[m]
  BY <1>1, <1>2 DEF WireInv, WireUnits
<1>4. m \in Frame
  BY <1>3, MaxFramesAssumption DEF WireInv, Frame
<1> QED BY <1>2, <1>3, <1>4, FrameFacts

LEMMA UnitAfterIs ==
    ASSUME NEW m \in Frame, NEW o \in Nat, o \in 1..FrameSize[m]
    PROVE  UnitAfter(<<m, o>>) = IF o = FrameSize[m] THEN <<m + 1, 1>> ELSE <<m, o + 1>>
BY FrameFacts DEF UnitAfter

(* Up to the end of the frame the units of a frame follow each other.      *)
LEMMA RunOnWire ==
    ASSUME WireInv, NEW x \in Nat, NEW m \in Nat, NEW o \in Nat, Position(x, m, o),
           NEW t \in Nat \ {0}, x + t <= Len(wire), o + t <= FrameSize[m]
    PROVE  /\ \A i \in 1..t : wire[x + i] = <<m, o + i>>
           /\ IF o + t = FrameSize[m] THEN Position(x + t, m + 1, 0) ELSE Position(x + t, m, o + t)
<1>1. wire[x + 1] = <<m, o + 1>> /\ m \in Frame
  <2>1. x < Len(wire)
    BY DEF WireInv
  <2> QED BY <2>1, NextUnit
<1>2. FrameSize[m] \in Nat
  BY <1>1, FrameFacts
<1> DEFINE T == {i \in Nat : i + 1 <= t => wire[x + (i + 1)] = <<m, o + (i + 1)>>}
<1>3. 0 \in T
  BY <1>1
<1>4. ASSUME NEW i \in T PROVE i + 1 \in T
  <2> SUFFICES ASSUME (i + 1) + 1 <= t PROVE wire[x + ((i + 1) + 1)] = <<m, o + ((i + 1) + 1)>>
    OBVIOUS
  <2>1. wire[x + (i + 1)] = <<m, o + (i + 1)>>
    OBVIOUS
  <2>2. x + (i + 1) \in Nat /\ x + (i + 1) < Len(wire) /\ x + (i + 1) # 0
    BY DEF WireInv
  <2>3. o + (i + 1) \in 1..FrameSize[m] /\ o + (i + 1) # FrameSize[m]
    <3>1. i \in Nat
      OBVIOUS
    <3> HIDE DEF T
    <3> QED BY <1>2, <3>1
  <2>4. Position(x + (i + 1), m, o + (i + 1))
    <3> DEFINE y == o + (i + 1)
    <3>1. y \in Nat /\ y \in 1..FrameSize[m] /\ y # FrameSize[m]
      BY <2>3
    <3> HIDE DEF y
    <3>2. UnitAfter(<<m, y>>) = <<m, y + 1>>
      BY <1>1, <3>1, UnitAfterIs
    <3> QED BY <2>1, <2>2, <3>2 DEF Position, y
  <2>5. wire[(x + (i + 1)) + 1] = <<m, (o + (i + 1)) + 1>>
    BY <2>2, <2>4, NextUnit
  <2>6. (x + (i + 1)) + 1 = x + ((i + 1) + 1) /\ (o + (i + 1)) + 1 = o + ((i + 1) + 1)
    OBVIOUS
  <2> QED BY <2>5, <2>6
<1>5. T = Nat
  <2>1. T \in SUBSET Nat
    OBVIOUS
  <2> HIDE DEF T
  <2> QED BY <1>3, <1>4, <2>1, Induction
<1>6. \A i \in 1..t : wire[x + i] = <<m, o + i>>
  <2> SUFFICES ASSUME NEW i \in 1..t PROVE wire[x + i] = <<m, o + i>>
    OBVIOUS
  <2>1. i - 1 \in Nat /\ (i - 1) + 1 = i /\ i <= t
    OBVIOUS
  <2>2. i - 1 \in T
    BY <1>5, <2>1
  <2> QED BY <2>1, <2>2
<1>7. wire[x + t] = <<m, o + t>> /\ x + t # 0 /\ o + t \in 1..FrameSize[m]
  BY <1>2, <1>6
<1>8. UnitAfter(<<m, o + t>>)
          = IF o + t = FrameSize[m] THEN <<m + 1, 1>> ELSE <<m, (o + t) + 1>>
  BY <1>1, <1>7, UnitAfterIs
<1>9. IF o + t = FrameSize[m] THEN Position(x + t, m + 1, 0) ELSE Position(x + t, m, o + t)
  <2>1. CASE o + t = FrameSize[m]
    <3>1. UnitAfter(wire[x + t]) = <<m + 1, 0 + 1>>
      BY <1>7, <1>8, <2>1
    <3> QED BY <1>7, <2>1, <3>1 DEF Position
  <2>2. CASE o + t # FrameSize[m]
    BY <1>7, <1>8, <2>2 DEF Position
  <2> QED BY <2>1, <2>2
<1> QED BY <1>6, <1>9
-----------------------------------------------------------------------------
(* A turn of the parser                                                     *)

(* The units o + 1 to o + n of frame m.                                    *)
IsRun(s, m, o, n) ==
    s \in Seq(Unit) /\ Len(s) = n /\ \A i \in 1..n : s[i] = <<m, o + i>>

ParserType ==
    [header : Seq(Unit), len : Nat, payload : Seq(Unit), out : Seq(Seq(Unit)), ok : BOOLEAN]

(* The parser holds the first o units of frame m.                          *)
ParserAt(p, m, o) ==
    /\ p \in ParserType /\ p.ok
    /\ IsRun(p.header, m, 0, Least(o, HeaderSize))
    /\ o >= HeaderSize => /\ p.len = FrameSize[m] - HeaderSize /\ o < FrameSize[m]
                          /\ IsRun(p.payload, m, HeaderSize, o - HeaderSize)

(* What is left of a chunk that ends with unit d of the wire.              *)
Rest(c, x, d) ==
    c \in Seq(Unit) /\ Len(c) = d - x /\ \A i \in 1..(d - x) : c[i] = wire[x + i]

(* The messages from b to m - 1.                                           *)
Found(out, b, m) ==
    Len(out) = m - b /\ \A i \in 1..(m - b) : out[i] = Message((b - 1) + i)

Going(f, b, d, x, m, o) ==
    /\ Position(x, m, o) /\ ParserAt(f.parser, m, o) /\ Rest(f.chunk, x, d)
    /\ Found(f.parser.out, b, m) /\ b <= m /\ m - 1 <= written

Refused(f, b, m) ==
    /\ f.parser \in ParserType /\ ~f.parser.ok /\ Found(f.parser.out, b, m) /\ b <= m
    /\ m \in 1..written /\ FrameSize[m] - HeaderSize > MaxMessage

LEMMA CutSeq ==
    ASSUME NEW S, NEW s \in Seq(S), NEW a \in Nat \ {0}, NEW e \in Nat, a <= e + 1, e <= Len(s)
    PROVE  /\ SubSeq(s, a, e) \in Seq(S) /\ Len(SubSeq(s, a, e)) = (e - a) + 1
           /\ \A i \in 1..((e - a) + 1) : SubSeq(s, a, e)[i] = s[(a + i) - 1]
OBVIOUS

(* A turn cuts the chunk into what it takes and what is left.              *)
LEMMA CutChunk ==
    ASSUME WireInv, NEW d \in Nat, d <= Len(wire), NEW x \in Nat, NEW m \in Nat, NEW o \in Nat,
           Position(x, m, o), NEW c, Rest(c, x, d),
           NEW t \in Nat \ {0}, t <= Len(c), o + t <= FrameSize[m]
    PROVE  /\ IsRun(SubSeq(c, 1, t), m, o, t)
           /\ Rest(SubSeq(c, t + 1, Len(c)), x + t, d)
           /\ IF o + t = FrameSize[m] THEN Position(x + t, m + 1, 0) ELSE Position(x + t, m, o + t)
<1>1. c \in Seq(Unit) /\ Len(c) \in Nat /\ Len(c) = d - x /\ x + t <= d /\ x + t <= Len(wire)
  BY DEF Rest, WireInv
<1>2. /\ \A i \in 1..t : wire[x + i] = <<m, o + i>>
      /\ IF o + t = FrameSize[m] THEN Position(x + t, m + 1, 0) ELSE Position(x + t, m, o + t)
  BY <1>1, RunOnWire
<1>3. IsRun(SubSeq(c, 1, t), m, o, t)
  <2> DEFINE s == SubSeq(c, 1, t)
  <2>1. s \in Seq(Unit) /\ Len(s) = (t - 1) + 1 /\ \A i \in 1..((t - 1) + 1) : s[i] = c[(1 + i) - 1]
    BY <1>1, CutSeq
  <2>2. ASSUME NEW i \in 1..t PROVE s[i] = <<m, o + i>>
    <3>1. i \in 1..((t - 1) + 1) /\ (1 + i) - 1 = i /\ i \in 1..(d - x)
      BY <1>1
    <3> HIDE DEF s
    <3> QED BY <1>2, <2>1, <3>1 DEF Rest
  <2>3. Len(s) = t
    BY <2>1
  <2> QED BY <2>1, <2>2, <2>3 DEF IsRun
<1>4. Rest(SubSeq(c, t + 1, Len(c)), x + t, d)
  <2> DEFINE s == SubSeq(c, t + 1, Len(c))
             n == (Len(c) - (t + 1)) + 1
  <2>1. s \in Seq(Unit) /\ Len(s) = n /\ \A i \in 1..n : s[i] = c[((t + 1) + i) - 1]
    BY <1>1, CutSeq
  <2>2. n = d - (x + t)
    BY <1>1
  <2>3. ASSUME NEW i \in 1..(d - (x + t)) PROVE s[i] = wire[(x + t) + i]
    <3>1. i \in 1..n /\ ((t + 1) + i) - 1 = t + i /\ t + i \in 1..(d - x) /\ x + (t + i) = (x + t) + i
      BY <1>1
    <3> HIDE DEF s, n
    <3> QED BY <2>1, <3>1 DEF Rest
  <2> HIDE DEF s, n
  <2> QED BY <2>1, <2>2, <2>3 DEF Rest, s
<1> QED BY <1>2, <1>3, <1>4

(* What was held and what is taken make a longer run.                      *)
LEMMA LongerRun ==
    ASSUME NEW m, NEW o \in Nat, NEW n \in Nat, NEW k \in Nat, NEW a, NEW s,
           IsRun(a, m, o, n), IsRun(s, m, o + n, k)
    PROVE  IsRun(a \o s, m, o, n + k)
<1>1. /\ a \in Seq(Unit) /\ s \in Seq(Unit) /\ Len(a) = n /\ Len(s) = k
      /\ \A i \in 1..n : a[i] = <<m, o + i>>
      /\ \A i \in 1..k : s[i] = <<m, (o + n) + i>>
  BY DEF IsRun
<1>2. a \o s \in Seq(Unit)
  BY <1>1
<1>3. /\ Len(a \o s) = n + k
      /\ \A i \in 1..n : (a \o s)[i] = a[i]
      /\ \A i \in 1..k : (a \o s)[n + i] = s[i]
  <2>1. /\ Len(a \o s) = Len(a) + Len(s)
        /\ \A i \in 1..Len(a) : (a \o s)[i] = a[i]
        /\ \A i \in 1..Len(s) : (a \o s)[Len(a) + i] = s[i]
    <3>1. a \in Seq(Unit) /\ s \in Seq(Unit)
      BY <1>1
    <3> QED BY <3>1
  <2> QED BY <1>1, <2>1
<1>4. ASSUME NEW i \in 1..(n + k) PROVE (a \o s)[i] = <<m, o + i>>
  <2>1. CASE i \in 1..n
    BY <1>1, <1>3, <2>1
  <2>2. CASE i \notin 1..n
    <3>1. i - n \in 1..k /\ n + (i - n) = i /\ (o + n) + (i - n) = o + i
      BY <2>2
    <3>2. (a \o s)[i] = s[i - n] /\ s[i - n] = <<m, (o + n) + (i - n)>>
      BY <1>1, <1>3, <3>1
    <3> QED BY <3>1, <3>2
  <2> QED BY <2>1, <2>2
<1> QED BY <1>2, <1>3, <1>4 DEF IsRun

(* A completed message follows those found before it.                      *)
LEMMA FoundOne ==
    ASSUME NEW b \in Nat \ {0}, NEW m \in Nat \ {0}, b <= m, NEW out \in Seq(Seq(Unit)),
           Found(out, b, m), NEW e \in Seq(Unit), e = Message(m)
    PROVE  Append(out, e) \in Seq(Seq(Unit)) /\ Found(Append(out, e), b, m + 1)
<1> DEFINE a == Append(out, e)
<1>1. /\ a \in Seq(Seq(Unit)) /\ Len(a) = Len(out) + 1 /\ a[Len(out) + 1] = e
      /\ \A i \in 1..Len(out) : a[i] = out[i]
  OBVIOUS
<1> HIDE DEF a
<1>2. Len(out) = m - b /\ Len(a) = (m + 1) - b
  BY <1>1 DEF Found
<1>3. ASSUME NEW i \in 1..((m + 1) - b) PROVE a[i] = Message((b - 1) + i)
  <2>1. CASE i = (m - b) + 1
    <3>1. (b - 1) + i = m
      BY <2>1
    <3> QED BY <1>1, <1>2, <2>1, <3>1
  <2>2. CASE i # (m - b) + 1
    <3>1. i \in 1..(m - b)
      BY <2>2
    <3> QED BY <1>1, <1>2, <3>1 DEF Found
  <2> QED BY <2>1, <2>2
<1> QED BY <1>1, <1>2, <1>3 DEF Found, a

(* The turns that go on from a parser are the next ones, or the last.      *)
Goes(f, b, d, x) ==
    \/ \E y \in Nat, m \in Nat \ {0}, o \in Nat : x < y /\ y <= d /\ Going(f, b, d, y, m, o)
    \/ \E m \in Nat \ {0} : Refused(f, b, m)

LEMMA EmptyRun == ASSUME NEW m, NEW o PROVE IsRun(<<>>, m, o, 0)
BY DEF IsRun

(* A complete header is recognised and announces its frame's message.      *)
LEMMA HeaderIs ==
    ASSUME NEW m, NEW h, IsRun(h, m, 0, HeaderSize)
    PROVE  h = [i \in 1..HeaderSize |-> <<m, i>>]
<1>1. h \in Seq(Unit) /\ DOMAIN h = 1..HeaderSize
  BY DEF IsRun
<1>2. h = [i \in 1..HeaderSize |-> h[i]]
  BY <1>1
<1>3. \A i \in 1..HeaderSize : h[i] = <<m, i>>
  BY HeaderSizeAssumption DEF IsRun
<1> QED BY <1>2, <1>3

(* A complete payload is the message that was written.                     *)
LEMMA MessageIs ==
    ASSUME NEW m, NEW n \in Nat, n = FrameSize[m] - HeaderSize, NEW h, IsRun(h, m, HeaderSize, n)
    PROVE  h = Message(m)
<1>1. h \in Seq(Unit) /\ DOMAIN h = 1..n
  BY DEF IsRun
<1>2. h = [i \in 1..n |-> h[i]]
  BY <1>1
<1>3. h = [i \in 1..n |-> <<m, HeaderSize + i>>]
  BY <1>2 DEF IsRun
<1> QED BY <1>3 DEF Message

(* A parser that is reset after a message.                                 *)
Reset(q, a) == [header |-> <<>>, len |-> 0, payload |-> <<>>, out |-> a, ok |-> q.ok]

(* With the header reset the parser stands at the start of a frame.        *)
LEMMA ResetType ==
    ASSUME NEW q \in ParserType, q.ok, NEW a \in Seq(Seq(Unit)), NEW m
    PROVE  ParserAt(Reset(q, a), m, 0) /\ Reset(q, a).out = a
<1> DEFINE g == Reset(q, a)
<1>1. q.ok \in BOOLEAN /\ <<>> \in Seq(Unit)
  BY DEF ParserType
<1>2. g \in ParserType
  BY <1>1 DEF ParserType, Reset
<1>3. g.ok = q.ok /\ g.header = <<>> /\ g.out = a
  BY DEF Reset
<1> HIDE DEF g
<1>4. Least(0, HeaderSize) = 0 /\ ~(0 >= HeaderSize)
  BY HeaderSizeAssumption DEF Least
<1>5. ParserAt(g, m, 0)
  BY <1>2, <1>3, <1>4, EmptyRun DEF ParserAt
<1> QED BY <1>3, <1>5 DEF g

(* A turn inside a header: it takes units of the header, and a complete    *)
(* header is refused, or ends an empty message, or opens the payload.      *)
LEMMA HeaderTurn ==
    ASSUME WireInv, NEW d \in Nat, d <= Len(wire), NEW x \in Nat, x < d, NEW m \in Nat \ {0},
           NEW o \in Nat, NEW b \in Nat \ {0}, NEW f, Going(f, b, d, x, m, o), o < HeaderSize
    PROVE  Goes(FeedTurn(f), b, d, x)
<1> DEFINE p     == f.parser
           c     == f.chunk
           t     == Least(HeaderSize - o, Len(c))
           taken == SubSeq(c, 1, t)
           q     == [p EXCEPT !.header = @ \o taken]
           r     == SubSeq(c, t + 1, Len(c))
<1>0. HeaderSize \in Nat \ {0}
  BY HeaderSizeAssumption
<1>1. /\ p \in ParserType /\ p.ok /\ Found(p.out, b, m) /\ b <= m /\ m - 1 <= written
      /\ Position(x, m, o) /\ Rest(c, x, d)
  BY DEF Going, ParserAt
<1>2. c \in Seq(Unit) /\ Len(c) \in Nat /\ Len(c) = d - x /\ Len(c) > 0 /\ c # <<>>
  BY <1>1 DEF Rest
<1>3. m \in 1..written /\ m \in Frame
  <2>1. x < Len(wire)
    BY DEF WireInv
  <2> QED BY <1>1, <2>1, NextUnit
<1>4. FrameSize[m] \in Nat \ {0} /\ FrameSize[m] >= HeaderSize
  BY <1>3, FrameFacts
<1>5. IsRun(p.header, m, 0, o) /\ Len(p.header) = o
  <2>1. Least(o, HeaderSize) = o
    BY DEF Least
  <2> QED BY <2>1 DEF Going, ParserAt, IsRun
<1>6. /\ t \in Nat \ {0} /\ t <= Len(c) /\ t <= HeaderSize - o /\ o + t <= HeaderSize
      /\ o + t <= FrameSize[m] /\ (t < HeaderSize - o => o + t < HeaderSize)
      /\ (~(t < HeaderSize - o) => o + t = HeaderSize)
  <2> HIDE DEF c
  <2> QED BY <1>0, <1>2, <1>4 DEF Least
<1> HIDE DEF t
<1>7. /\ IsRun(taken, m, o, t) /\ Rest(r, x + t, d)
      /\ IF o + t = FrameSize[m] THEN Position(x + t, m + 1, 0) ELSE Position(x + t, m, o + t)
  <2> HIDE DEF c
  <2> QED BY <1>1, <1>6, CutChunk
<1>8. FeedTurn(f) = [parser |-> IF t < HeaderSize - o THEN q ELSE HeaderDone(q), chunk |-> r]
  BY <1>1, <1>2, <1>5 DEF FeedTurn, t
<1>9. /\ q \in ParserType /\ q.ok /\ q.out = p.out /\ IsRun(q.header, m, 0, o + t)
      /\ q.header \in Seq(Unit)
  <2>1. IsRun(p.header \o taken, m, 0, o + t)
    <3>1. IsRun(taken, m, 0 + o, t)
      BY <1>7
    <3> HIDE DEF taken, p
    <3> QED BY <1>5, <1>6, <3>1, LongerRun
  <2>2. p.header \o taken \in Seq(Unit)
    BY <2>1 DEF IsRun
  <2> HIDE DEF taken, p
  <2>3. q.header = p.header \o taken /\ q.ok = p.ok /\ q.out = p.out /\ q \in ParserType
    BY <1>1, <2>2 DEF ParserType
  <2> QED BY <1>1, <2>1, <2>2, <2>3
<1> DEFINE g == FeedTurn(f)
<1> HIDE DEF p, c, q, r, taken
<1>10. g.chunk = r /\ g.parser = IF t < HeaderSize - o THEN q ELSE HeaderDone(q)
  BY <1>8
<1>11. x + t \in Nat /\ x < x + t /\ x + t <= d
  BY <1>2, <1>6
<1> HIDE DEF g
<1>12. CASE t < HeaderSize - o
  <2>1. o + t \in Nat /\ o + t < HeaderSize /\ o + t # FrameSize[m] /\ Least(o + t, HeaderSize) = o + t
    BY <1>0, <1>4, <1>6, <1>12 DEF Least
  <2>2. ParserAt(q, m, o + t)
    BY <1>0, <1>9, <2>1 DEF ParserAt
  <2>3. Going(g, b, d, x + t, m, o + t)
    BY <1>1, <1>7, <1>9, <1>10, <1>12, <2>1, <2>2 DEF Going
  <2> QED BY <1>11, <2>1, <2>3 DEF Goes, g
<1>13. CASE ~(t < HeaderSize - o)
  <2>1. o + t = HeaderSize /\ IsRun(q.header, m, 0, HeaderSize) /\ g.parser = HeaderDone(q)
    BY <1>6, <1>9, <1>10, <1>13
  <2>2. IsHeader(q.header) /\ Announced(q.header) = FrameSize[m] - HeaderSize
    <3>3. q.header = [i \in 1..HeaderSize |-> <<m, i>>]
      BY <2>1, HeaderIs
    <3>4. 1 \in 1..HeaderSize
      BY <1>0
    <3> QED BY <1>3, <3>3, <3>4 DEF IsHeader, Announced
  <2> DEFINE a == FrameSize[m] - HeaderSize
  <2>3. a \in Nat
    BY <1>0, <1>4
  <2>4. CASE a > MaxMessage
    <3>1. g.parser = [q EXCEPT !.ok = FALSE]
      BY <2>1, <2>2, <2>4 DEF HeaderDone
    <3>2. g.parser \in ParserType /\ g.parser.ok = FALSE /\ g.parser.out = p.out
      BY <1>9, <3>1 DEF ParserType
    <3>3. Refused(g, b, m)
      BY <1>1, <1>3, <2>4, <3>2 DEF Refused
    <3> QED BY <3>3 DEF Goes, g
  <2>5. CASE ~(a > MaxMessage) /\ a = 0
    <3>1. g.parser = Reset(q, Append(q.out, <<>>))
      <4>1. HeaderDone(q) = [q EXCEPT !.len = 0, !.payload = <<>>, !.out = Append(q.out, <<>>),
                                      !.header = <<>>]
        BY <2>2, <2>5 DEF HeaderDone
      <4> QED BY <1>9, <2>1, <4>1 DEF Reset, ParserType
    <3>2. <<>> \in Seq(Unit) /\ <<>> = Message(m)
      BY <2>5 DEF Message
    <3>3. /\ Append(q.out, <<>>) \in Seq(Seq(Unit)) /\ Found(Append(q.out, <<>>), b, m + 1)
      <4>1. q.out \in Seq(Seq(Unit))
        BY <1>9 DEF ParserType
      <4>2. Found(q.out, b, m) /\ b <= m
        BY <1>1, <1>9
      <4> QED BY <3>2, <4>1, <4>2, FoundOne, Zenon
    <3>4. ParserAt(g.parser, m + 1, 0) /\ g.parser.out = Append(q.out, <<>>)
      BY <1>9, <3>1, <3>3, ResetType
    <3>6. Position(x + t, m + 1, 0)
      BY <1>0, <1>4, <1>7, <2>1, <2>5
    <3>7. b <= m + 1 /\ (m + 1) - 1 <= written /\ m + 1 \in Nat \ {0}
      BY <1>1, <1>3
    <3>8. Going(g, b, d, x + t, m + 1, 0)
      BY <1>7, <1>10, <3>3, <3>4, <3>6, <3>7 DEF Going
    <3> QED BY <1>11, <3>7, <3>8 DEF Goes, g
  <2>6. CASE ~(a > MaxMessage) /\ a # 0
    <3>1. g.parser = [q EXCEPT !.len = a, !.payload = <<>>]
      BY <2>1, <2>2, <2>6 DEF HeaderDone
    <3>2. /\ g.parser \in ParserType /\ g.parser.ok /\ g.parser.header = q.header
          /\ g.parser.out = p.out /\ g.parser.len = a /\ g.parser.payload = <<>>
      <4>1. <<>> \in Seq(Unit)
        OBVIOUS
      <4> HIDE DEF a
      <4> QED BY <1>9, <2>3, <3>1, <4>1 DEF ParserType
    <3>3. Least(HeaderSize, HeaderSize) = HeaderSize /\ HeaderSize - HeaderSize = 0
          /\ HeaderSize < FrameSize[m] /\ o + t # FrameSize[m]
      BY <1>0, <1>4, <2>1, <2>6 DEF Least
    <3>4. ParserAt(g.parser, m, HeaderSize)
      BY <2>1, <3>2, <3>3, EmptyRun DEF ParserAt
    <3>5. Going(g, b, d, x + t, m, HeaderSize)
      BY <1>1, <1>7, <1>10, <2>1, <3>2, <3>3, <3>4 DEF Going
    <3> QED BY <1>0, <1>11, <3>5 DEF Goes, g
  <2> QED BY <2>4, <2>5, <2>6
<1> QED BY <1>12, <1>13
AddPayload(p, s) == [p EXCEPT !.payload = @ \o s]

LEMMA FeedPayload ==
    ASSUME NEW f, f.chunk # <<>>, f.parser.ok, ~(Len(f.parser.header) < HeaderSize),
           NEW need, need = f.parser.len - Len(f.parser.payload),
           NEW t, t = Least(need, Len(f.chunk)),
           NEW q, q = AddPayload(f.parser, SubSeq(f.chunk, 1, t))
    PROVE  /\ FeedTurn(f).parser = IF t < need THEN q ELSE PayloadDone(q)
           /\ FeedTurn(f).chunk = SubSeq(f.chunk, t + 1, Len(f.chunk))
<1> DEFINE v == IF t < need THEN q ELSE PayloadDone(q)
           r == SubSeq(f.chunk, t + 1, Len(f.chunk))
<1>1. FeedTurn(f) = [parser |-> v, chunk |-> r]
  BY Zenon DEF FeedTurn, AddPayload
<1> HIDE DEF v, r
<1>2. FeedTurn(f).parser = v /\ FeedTurn(f).chunk = r
  BY <1>1
<1> QED BY <1>2 DEF v, r

LEMMA LeastFacts ==
    ASSUME NEW a \in Nat \ {0}, NEW k \in Nat \ {0}
    PROVE  /\ Least(a, k) \in Nat \ {0} /\ Least(a, k) <= a /\ Least(a, k) <= k
           /\ ~(Least(a, k) < a) => Least(a, k) = a
BY DEF Least

(* A turn inside a payload: it takes units of the message, and a complete  *)
(* message is handed over.                                                 *)
LEMMA PayloadTurn ==
    ASSUME WireInv, NEW d \in Nat, d <= Len(wire), NEW x \in Nat, x < d, NEW m \in Nat \ {0},
           NEW o \in Nat, NEW b \in Nat \ {0}, NEW f, Going(f, b, d, x, m, o), o >= HeaderSize
    PROVE  Goes(FeedTurn(f), b, d, x)
<1> DEFINE p     == f.parser
           c     == f.chunk
           need  == p.len - Len(p.payload)
           t     == Least(need, Len(c))
           taken == SubSeq(c, 1, t)
           q     == AddPayload(p, taken)
           r     == SubSeq(c, t + 1, Len(c))
<1>0. HeaderSize \in Nat \ {0}
  BY HeaderSizeAssumption
<1>1. /\ p \in ParserType /\ p.ok /\ Found(p.out, b, m) /\ b <= m /\ m - 1 <= written
      /\ Position(x, m, o) /\ Rest(c, x, d)
  BY DEF Going, ParserAt
<1>2. c \in Seq(Unit) /\ Len(c) \in Nat /\ Len(c) = d - x /\ Len(c) > 0 /\ c # <<>>
  BY <1>1 DEF Rest
<1>3. m \in 1..written /\ m \in Frame
  <2>1. x < Len(wire)
    BY DEF WireInv
  <2> QED BY <1>1, <2>1, NextUnit
<1>4. FrameSize[m] \in Nat \ {0} /\ FrameSize[m] >= HeaderSize
  BY <1>3, FrameFacts
<1>5. /\ IsRun(p.header, m, 0, HeaderSize) /\ Len(p.header) = HeaderSize
      /\ IsRun(p.payload, m, HeaderSize, o - HeaderSize) /\ Len(p.payload) = o - HeaderSize
      /\ p.len = FrameSize[m] - HeaderSize /\ o < FrameSize[m]
  <2>1. Least(o, HeaderSize) = HeaderSize
    BY <1>0 DEF Least
  <2> QED BY <2>1 DEF Going, ParserAt, IsRun
<1>6. need = FrameSize[m] - o /\ need \in Nat \ {0}
  <2>1. /\ p.len = FrameSize[m] - HeaderSize /\ Len(p.payload) = o - HeaderSize
        /\ o < FrameSize[m]
    BY <1>5
  <2>2. ASSUME NEW F \in Nat, NEW H \in Nat, o < F
        PROVE  (F - H) - (o - H) = F - o /\ F - o \in Nat \ {0}
    BY <2>2
  <2>3. /\ (FrameSize[m] - HeaderSize) - (o - HeaderSize) = FrameSize[m] - o
        /\ FrameSize[m] - o \in Nat \ {0}
    <3>1. FrameSize[m] \in Nat /\ HeaderSize \in Nat
      BY <1>0, <1>4
    <3> QED BY <2>1, <2>2, <3>1, Zenon
  <2> QED BY <2>1, <2>3, Zenon
<1>7. /\ t \in Nat \ {0} /\ t <= Len(c) /\ o + t <= FrameSize[m]
      /\ (t < need => o + t < FrameSize[m]) /\ (~(t < need) => o + t = FrameSize[m])
  <2> HIDE DEF c, need
  <2>1. t \in Nat \ {0} /\ t <= need /\ t <= Len(c) /\ (~(t < need) => t = need)
    <3>1. Len(c) \in Nat \ {0} /\ need \in Nat \ {0}
      BY <1>2, <1>6
    <3> QED BY <3>1, LeastFacts
  <2> HIDE DEF t
  <2>2. FrameSize[m] \in Nat /\ need = FrameSize[m] - o
    BY <1>4, <1>6
  <2> QED BY <2>1, <2>2
<1>8. FeedTurn(f).parser = (IF t < need THEN q ELSE PayloadDone(q)) /\ FeedTurn(f).chunk = r
  <2>1. ~(Len(f.parser.header) < HeaderSize)
    BY <1>0, <1>5
  <2>2. f.chunk # <<>> /\ f.parser.ok
    BY <1>1, <1>2
  <2>3. /\ need = f.parser.len - Len(f.parser.payload) /\ t = Least(need, Len(f.chunk))
        /\ q = AddPayload(f.parser, SubSeq(f.chunk, 1, t))
        /\ r = SubSeq(f.chunk, t + 1, Len(f.chunk))
    OBVIOUS
  <2> HIDE DEF need, t, q, r, taken, p, c
  <2> QED BY <2>1, <2>2, <2>3, FeedPayload
<1> HIDE DEF t, need
<1>9. /\ IsRun(taken, m, o, t) /\ Rest(r, x + t, d)
      /\ IF o + t = FrameSize[m] THEN Position(x + t, m + 1, 0) ELSE Position(x + t, m, o + t)
  <2> HIDE DEF c
  <2> QED BY <1>1, <1>7, CutChunk
<1> DEFINE n == (o + t) - HeaderSize
<1>10. /\ q \in ParserType /\ q.ok /\ q.out = p.out /\ q.header = p.header /\ q.len = p.len
       /\ IsRun(q.payload, m, HeaderSize, n) /\ q.payload \in Seq(Unit)
  <2>1. IsRun(p.payload \o taken, m, HeaderSize, n)
    <3> DEFINE k == o - HeaderSize
    <3>1. k \in Nat /\ HeaderSize + k = o /\ k + t = n
      BY <1>0, <1>7
    <3>2. IsRun(p.payload, m, HeaderSize, k)
      BY <1>5
    <3> HIDE DEF taken, p, k, n
    <3>3. IsRun(taken, m, HeaderSize + k, t)
      BY <1>9, <3>1
    <3>4. IsRun(p.payload \o taken, m, HeaderSize, k + t)
      BY <1>0, <1>7, <3>1, <3>2, <3>3, LongerRun
    <3> QED BY <3>1, <3>4
  <2>2. p.payload \o taken \in Seq(Unit)
    BY <2>1 DEF IsRun
  <2> HIDE DEF taken, p
  <2>3. /\ q.payload = p.payload \o taken /\ q.ok = p.ok /\ q.out = p.out /\ q \in ParserType
        /\ q.header = p.header /\ q.len = p.len
    BY <1>1, <2>2 DEF ParserType, AddPayload
  <2> QED BY <1>1, <2>1, <2>2, <2>3
<1> DEFINE g == FeedTurn(f)
<1> HIDE DEF p, c, q, r, taken
<1>11. g.chunk = r /\ g.parser = IF t < need THEN q ELSE PayloadDone(q)
  BY <1>8, Zenon
<1>12. x + t \in Nat /\ x < x + t /\ x + t <= d
  BY <1>2, <1>7
<1> HIDE DEF g
<1>13. CASE t < need
  <2>1. /\ o + t \in Nat /\ o + t < FrameSize[m] /\ o + t # FrameSize[m]
        /\ Least(o + t, HeaderSize) = HeaderSize
    BY <1>0, <1>4, <1>7, <1>13 DEF Least
  <2>2. ParserAt(q, m, o + t)
    BY <1>5, <1>10, <2>1 DEF ParserAt
  <2>3. Going(g, b, d, x + t, m, o + t)
    BY <1>1, <1>9, <1>10, <1>11, <1>13, <2>1, <2>2 DEF Going
  <2> QED BY <1>12, <2>1, <2>3 DEF Goes, g
<1>14. CASE ~(t < need)
  <2>1. o + t = FrameSize[m] /\ g.parser = PayloadDone(q) /\ Position(x + t, m + 1, 0)
    BY <1>7, <1>9, <1>11, <1>14
  <2>2. g.parser = Reset(q, Append(q.out, q.payload))
    BY <1>10, <2>1 DEF PayloadDone, Reset, ParserType
  <2>3. q.payload = Message(m)
    <3>1. n \in Nat /\ n = FrameSize[m] - HeaderSize
      BY <1>0, <1>4, <2>1
    <3> HIDE DEF n
    <3> QED BY <1>10, <3>1, MessageIs
  <2>4. Append(q.out, q.payload) \in Seq(Seq(Unit)) /\ Found(Append(q.out, q.payload), b, m + 1)
    <3>1. q.out \in Seq(Seq(Unit))
      BY <1>10 DEF ParserType
    <3>2. Found(q.out, b, m) /\ b <= m
      BY <1>1, <1>10
    <3> QED BY <1>10, <2>3, <3>1, <3>2, FoundOne
  <2>5. ParserAt(g.parser, m + 1, 0) /\ g.parser.out = Append(q.out, q.payload)
    BY <1>10, <2>2, <2>4, ResetType
  <2>6. b <= m + 1 /\ (m + 1) - 1 <= written /\ m + 1 \in Nat \ {0}
    BY <1>1, <1>3
  <2>7. Going(g, b, d, x + t, m + 1, 0)
    BY <1>9, <1>11, <2>1, <2>4, <2>5, <2>6 DEF Going
  <2> QED BY <1>12, <2>6, <2>7 DEF Goes, g
<1> QED BY <1>13, <1>14
-----------------------------------------------------------------------------
(* Feed                                                                     *)

(* Turns after the last one change nothing.                                *)
LEMMA LastTurn ==
    ASSUME NEW f, f.chunk = <<>> \/ ~f.parser.ok
    PROVE  FeedTurn(f) = f
BY Zenon DEF FeedTurn

(* After k turns the parser has taken k units, or all of them, or has      *)
(* refused a header.                                                       *)
Turned(f, b, d, x, k) ==
    \/ \E y \in Nat, m \in Nat \ {0}, o \in Nat :
           (x + k <= y \/ y = d) /\ y <= d /\ Going(f, b, d, y, m, o)
    \/ \E m \in Nat \ {0} : Refused(f, b, m)

(* One turn more, of either sort.                                          *)
LEMMA TurnStep ==
    ASSUME WireInv, NEW d \in Nat, d <= Len(wire), NEW x \in Nat, NEW k \in Nat,
           NEW b \in Nat \ {0}, NEW f, Turned(f, b, d, x, k)
    PROVE  Turned(FeedTurn(f), b, d, x, k + 1)
<1>1. CASE \E m \in Nat \ {0} : Refused(f, b, m)
  <2>1. FeedTurn(f) = f
    BY <1>1, LastTurn DEF Refused
  <2> QED BY <1>1, <2>1 DEF Turned
<1>2. ASSUME NEW y \in Nat, NEW m \in Nat \ {0}, NEW o \in Nat,
             x + k <= y \/ y = d, y <= d, Going(f, b, d, y, m, o)
      PROVE  Turned(FeedTurn(f), b, d, x, k + 1)
  <2>1. CASE y = d
    <3>1. f.chunk \in Seq(Unit) /\ Len(f.chunk) = 0
      BY <1>2, <2>1 DEF Going, Rest
    <3>2. f.chunk = <<>>
      BY <3>1
    <3>3. FeedTurn(f) = f
      BY <3>2, LastTurn
    <3> QED BY <1>2, <2>1, <3>3 DEF Turned
  <2>2. CASE y # d
    <3>1. y < d /\ x + k <= y
      BY <1>2, <2>2
    <3>2. HeaderSize \in Nat
      BY HeaderSizeAssumption
    <3>3. Goes(FeedTurn(f), b, d, y)
      <4>1. CASE o < HeaderSize
        BY <1>2, <3>1, <4>1, HeaderTurn
      <4>2. CASE o >= HeaderSize
        BY <1>2, <3>1, <4>2, PayloadTurn
      <4> QED BY <3>2, <4>1, <4>2
    <3>4. ASSUME NEW z \in Nat, y < z PROVE x + (k + 1) <= z
      BY <3>1, <3>4
    <3> QED BY <3>3, <3>4 DEF Goes, Turned
  <2> QED BY <2>1, <2>2
<1> QED BY <1>1, <1>2 DEF Turned

(* Feed finds the messages that end in a chunk, whatever the chunk ends    *)
(* with, or stops at the first one over the limit.                         *)
FedTo(q, b, d) ==
    \/ \E m \in Nat \ {0}, o \in Nat :
           /\ Position(d, m, o) /\ ParserAt(q, m, o) /\ Found(q.out, b, m)
           /\ b <= m /\ m - 1 <= written
    \/ \E m \in Nat \ {0} :
           /\ q \in ParserType /\ ~q.ok /\ Found(q.out, b, m) /\ b <= m
           /\ m \in 1..written /\ FrameSize[m] - HeaderSize > MaxMessage

(* Feed with a chunk leaves the parser where the chunk ends on the wire,   *)
(* or at the first message over the limit.                                 *)
LEMMA FeedChunk ==
    ASSUME WireInv, NEW d \in Nat, d <= Len(wire), NEW x \in Nat, x <= d, NEW m \in Nat \ {0},
           NEW o \in Nat, m - 1 <= written, NEW p, Position(x, m, o), ParserAt(p, m, o),
           p.out = <<>>, NEW c, Rest(c, x, d)
    PROVE  FedTo(Feed(p, c), m, d)
<1>1. Len(c) = d - x /\ Len(c) \in Nat
  BY DEF Rest
<1>2. PICK g : /\ g[0] = FirstTurn(p, c)
               /\ \A k \in 1..Len(c) : g[k] = FeedTurn(g[k - 1])
               /\ Feed(p, c) = g[Len(c)].parser
  BY <1>1, FeedTurns
<1> DEFINE T == {k \in Nat : k <= d - x => Turned(g[k], m, d, x, k)}
<1>3. 0 \in T
  <2>1. FirstTurn(p, c).parser = p /\ FirstTurn(p, c).chunk = c
    BY DEF FirstTurn
  <2>2. Found(p.out, m, m)
    BY DEF Found
  <2>3. Going(FirstTurn(p, c), m, d, x, m, o)
    BY <2>1, <2>2 DEF Going
  <2>4. x + 0 <= x
    OBVIOUS
  <2>5. Turned(g[0], m, d, x, 0)
    BY <1>2, <2>3, <2>4 DEF Turned
  <2> QED BY <2>5
<1>4. ASSUME NEW k \in T PROVE k + 1 \in T
  <2> SUFFICES ASSUME k + 1 <= d - x PROVE Turned(g[k + 1], m, d, x, k + 1)
    OBVIOUS
  <2>1. Turned(g[k], m, d, x, k)
    OBVIOUS
  <2>2. k + 1 \in 1..Len(c) /\ (k + 1) - 1 = k
    BY <1>1
  <2>3. g[k + 1] = FeedTurn(g[k])
    BY <1>2, <2>2
  <2>4. k \in Nat
    OBVIOUS
  <2> HIDE DEF T
  <2> QED BY <2>1, <2>3, <2>4, TurnStep
<1>5. T = Nat
  <2>1. T \in SUBSET Nat
    OBVIOUS
  <2> HIDE DEF T
  <2> QED BY <1>3, <1>4, <2>1, Induction
<1>6. d - x \in T
  BY <1>1, <1>5
<1>7. Turned(g[d - x], m, d, x, d - x)
  BY <1>1, <1>6
<1> HIDE DEF T
<1>8. Feed(p, c) = g[d - x].parser
  BY <1>1, <1>2
<1> DEFINE f == g[d - x]
<1> HIDE DEF f
<1>9. Turned(f, m, d, x, d - x) /\ Feed(p, c) = f.parser
  BY <1>7, <1>8 DEF f
<1>10. ASSUME NEW y \in Nat, NEW n \in Nat \ {0}, NEW u \in Nat,
              x + (d - x) <= y \/ y = d, y <= d, Going(f, m, d, y, n, u)
       PROVE  FedTo(f.parser, m, d)
  <2>1. y = d
    BY <1>10
  <2> QED BY <1>10, <2>1 DEF Going, FedTo
<1>11. ASSUME NEW n \in Nat \ {0}, Refused(f, m, n) PROVE FedTo(f.parser, m, d)
  BY <1>11 DEF Refused, FedTo
<1>12. FedTo(f.parser, m, d)
  BY <1>9, <1>10, <1>11 DEF Turned
<1> QED BY <1>9, <1>12
-----------------------------------------------------------------------------
(* The steps of the client                                                  *)

(* What is on the wire stays, and belongs to messages that were written;   *)
(* nothing is written after WritesDone.                                    *)
Grows ==
    /\ Len(wire) <= Len(wire') /\ \A j \in 1..Len(wire) : wire'[j] = wire[j]
    /\ written <= written' /\ (doneAsked => doneAsked' /\ written' = written)

(* A pull of the generator appends units of a written frame.               *)
LEMMA PullGrows ==
    ASSUME NEW len \in Nat \ {0}, Inv, OrderInv, WireUnits, GenerateData(len)
    PROVE  Grows /\ WireUnits'
<1> DEFINE h    == Head(pending)
           size == FrameSize[h]
           n    == Least(size - offset, len)
           L    == Len(wire)
           s    == [i \in 1..n |-> <<h, offset + i>>]
<1>1. /\ wire \in Seq(Unit) /\ L \in Nat /\ written \in Nat /\ pending \in Seq(Frame)
      /\ offset \in Nat
  BY MaxFramesAssumption DEF Inv, TypeOK, Unit
<1>2. pending # <<>> /\ wire' = wire \o s /\ UNCHANGED <<written, doneAsked>>
  BY DEF GenerateData
<1>3. h = pending[1] /\ Len(pending) \in Nat \ {0} /\ h \in Frame
  BY <1>1, <1>2
<1>4. size \in Nat \ {0} /\ offset < size
  BY <1>2, <1>3, FrameFacts DEF Inv, TypeOK
<1>5. n \in Nat /\ n <= size - offset
  BY <1>1, <1>4 DEF Least
<1>6. h \in 1..written
  <2>1. PICK e \in 0..written : Queued(e)
    BY DEF OrderInv
  <2>2. h = (e - Len(pending)) + 1 /\ Len(pending) <= e
    BY <1>3, <2>1 DEF Queued
  <2> HIDE DEF h
  <2> QED BY <1>1, <1>3, <2>2
<1> HIDE DEF n, L, size
<1>7. /\ s \in Seq(Unit) /\ Len(s) = n /\ \A i \in 1..n : s[i] = <<h, offset + i>>
  <2>1. \A i \in 1..n : <<h, offset + i>> \in Unit
    BY <1>1, <1>3, <1>5 DEF Unit
  <2> HIDE DEF h
  <2> QED BY <1>5, <2>1
<1> HIDE DEF s, h
<1>8. /\ Len(wire') = L + n
      /\ \A j \in 1..L : wire'[j] = wire[j]
      /\ \A i \in 1..n : wire'[L + i] = <<h, offset + i>>
  <2>1. /\ Len(wire \o s) = Len(wire) + Len(s)
        /\ \A j \in 1..Len(wire) : (wire \o s)[j] = wire[j]
        /\ \A i \in 1..Len(s) : (wire \o s)[Len(wire) + i] = s[i]
    <3>1. wire \in Seq(Unit) /\ s \in Seq(Unit)
      BY <1>1, <1>7
    <3> QED BY <3>1
  <2> QED BY <1>2, <1>7, <2>1 DEF L
<1>9. Grows
  BY <1>1, <1>2, <1>5, <1>8 DEF Grows, L
<1>10. ASSUME NEW j \in 1..Len(wire')
       PROVE  wire'[j][1] \in 1..written /\ wire'[j][2] \in 1..FrameSize[wire'[j][1]]
  <2>1. CASE j \in 1..L
    BY <1>8, <2>1 DEF WireUnits, L
  <2>2. CASE j \notin 1..L
    <3>1. j - L \in 1..n /\ L + (j - L) = j
      BY <1>1, <1>5, <1>8, <2>2
    <3>2. wire'[j] = <<h, offset + (j - L)>>
      BY <1>8, <3>1
    <3>3. offset + (j - L) \in 1..size
      BY <1>1, <1>4, <1>5, <3>1
    <3> QED BY <1>6, <3>2, <3>3 DEF size
  <2> QED BY <2>1, <2>2
<1> QED BY <1>2, <1>9, <1>10 DEF WireUnits

(* Whatever the client does, the wire only grows.                          *)
LEMMA ClientGrows ==
    ASSUME Inv, OrderInv, WireUnits, [Next]_vars
    PROVE  Grows /\ WireUnits'
<1>1. wire \in Seq(Unit) /\ Len(wire) \in Nat /\ written \in Nat
  BY MaxFramesAssumption DEF Inv, TypeOK, Unit
<1>2. CASE pending # <<>> /\ \E len \in 1..FrameSize[Head(pending)] : GenerateData(len)
  <2>1. FrameSize[Head(pending)] \in Nat
    BY <1>2, FrameSizeAssumption DEF Inv, TypeOK
  <2>2. PICK len \in Nat \ {0} : GenerateData(len)
    BY <1>2, <2>1
  <2> QED BY <2>2, PullGrows
<1>3. CASE UNCHANGED wire /\ written <= written' /\ (doneAsked => doneAsked' /\ written' = written)
           /\ written' \in Nat
  <2>1. Grows
    BY <1>1, <1>3 DEF Grows
  <2>2. \A k : k \in 1..written => k \in 1..written'
    BY <1>1, <1>3
  <2>3. WireUnits'
    BY <1>3, <2>2 DEF WireUnits
  <2> QED BY <2>1, <2>3
<1>4. CASE Write \/ WritesDone \/ RunTask \/ GenerateEnd \/ StreamCloses \/ UNCHANGED vars
  <2>1. UNCHANGED wire
    BY <1>4 DEF Write, WritesDone, RunTask, RunFrame, RunDone, RunClose, GenerateEnd,
        StreamCloses, vars, wireVars
  <2>2. (doneAsked => doneAsked' /\ written' = written)
        /\ (written' = written \/ written' = written + 1)
    BY <1>4 DEF Write, WritesDone, RunTask, RunFrame, RunDone, RunClose, GenerateEnd,
        StreamCloses, vars
  <2>3. written <= written' /\ written' \in Nat
    BY <1>1, <2>2
  <2> QED BY <1>3, <2>1, <2>2, <2>3
<1> QED BY <1>2, <1>4 DEF Next, Generate
-----------------------------------------------------------------------------
(* The request arrives                                                      *)

(* While it reads, the server's parser is where the delivered units end,   *)
(* and what it has completed has been pushed.                              *)
ReadInv ==
    /\ delivered \in 0..Len(wire) /\ received \in Seq(Seq(Unit))
    /\ request \in {"no", "reading"} =>
           /\ parser.out = <<>>
           /\ \E m \in Nat \ {0}, o \in Nat :
                  Position(delivered, m, o) /\ ParserAt(parser, m, o) /\ Len(received) = m - 1

ArriveInv == Inv /\ OrderInv /\ WireUnits /\ ReadInv /\ RequestArrives

(* What the writer's invariants say about the wire.                        *)
LEMMA ArriveWire ==
    ASSUME ArriveInv
    PROVE  WireInv /\ WireInOrder /\ written \in Nat /\ Len(received) \in Nat /\ delivered \in Nat
<1>1. WireInOrder
  BY OrderInvImplies DEF ArriveInv
<1>2. wire \in Seq(Unit) /\ Len(wire) \in Nat /\ written \in 0..MaxFrames
  BY DEF ArriveInv, Inv, TypeOK, Unit
<1>3. WireInv
  BY <1>2 DEF WireInv, ArriveInv, OrderInv
<1> QED BY <1>1, <1>2, <1>3, MaxFramesAssumption DEF ArriveInv, ReadInv

LEMMA ArriveInit == ExchangeInit => ArriveInv
<1> SUFFICES ASSUME ExchangeInit PROVE ArriveInv
  OBVIOUS
<1>1. Inv /\ OrderInv
  BY InvInit, OrderInit DEF ExchangeInit
<1>2. /\ wire = <<>> /\ Len(wire) = 0 /\ written = 0 /\ delivered = 0 /\ parser = NewParser
      /\ received = <<>> /\ Len(received) = 0 /\ request = "no"
  BY DEF ExchangeInit, Init
<1>3. WireUnits
  BY <1>2 DEF WireUnits
<1>4. ReadInv
  <2>1. <<>> \in Seq(Unit) /\ <<>> \in Seq(Seq(Unit)) /\ <<>> \in Seq(Seq(Unit))
    OBVIOUS
  <2>2. NewParser \in ParserType
    BY <2>1 DEF NewParser, ParserType
  <2>3. NewParser.ok /\ NewParser.header = <<>> /\ NewParser.out = <<>>
    BY DEF NewParser
  <2>4. Least(0, HeaderSize) = 0 /\ ~(0 >= HeaderSize)
    BY HeaderSizeAssumption DEF Least
  <2>5. ParserAt(NewParser, 1, 0)
    BY <2>2, <2>3, <2>4, EmptyRun DEF ParserAt
  <2>6. Position(0, 1, 0)
    BY DEF Position
  <2>7. 1 \in Nat \ {0} /\ 0 \in Nat /\ 0 = 1 - 1 /\ 0 \in 0..0
    OBVIOUS
  <2> QED BY <1>2, <2>1, <2>3, <2>5, <2>6, <2>7 DEF ReadInv
<1>5. RequestArrives
  BY <1>2 DEF RequestArrives
<1> QED BY <1>1, <1>3, <1>4, <1>5 DEF ArriveInv

(* A step of the client's leaves the parser where it is.                   *)
LEMMA ClientArrives ==
    ASSUME ArriveInv, [Next]_vars, UNCHANGED bodyVars
    PROVE  ArriveInv'
<1>1. Inv' /\ OrderInv'
  BY InvStep, OrderStep DEF ArriveInv
<1>2. Grows /\ WireUnits'
  BY ClientGrows DEF ArriveInv
<1>3. /\ Len(wire) \in Nat /\ Len(wire') \in Nat /\ written \in Nat /\ written' \in Nat
      /\ Len(received) \in Nat
  <2>1. Len(wire') \in Nat /\ written' \in Nat
    BY <1>1, MaxFramesAssumption DEF Inv, TypeOK
  <2> QED BY <2>1, ArriveWire DEF WireInv
<1>4. UNCHANGED <<request, delivered, parser, received>>
  BY DEF bodyVars
<1>5. ReadInv'
  <2>1. delivered \in 0..Len(wire) /\ delivered \in 0..Len(wire')
    BY <1>2, <1>3 DEF ArriveInv, ReadInv, Grows
  <2>2. delivered # 0 => wire'[delivered] = wire[delivered]
    BY <1>2, <1>3, <2>1 DEF Grows
  <2>3. ASSUME NEW m, NEW o, Position(delivered, m, o) PROVE Position(delivered, m, o)'
    BY <1>4, <2>2, <2>3 DEF Position, UnitAfter
  <2>4. ASSUME NEW m, NEW o, ParserAt(parser, m, o) PROVE ParserAt(parser, m, o)'
    BY <1>4, <2>4 DEF ParserAt, IsRun
  <2> QED BY <1>4, <2>1, <2>3, <2>4 DEF ArriveInv, ReadInv
<1>6. RequestArrives'
  BY <1>2, <1>3, <1>4 DEF ArriveInv, RequestArrives, Grows, Message
<1> QED BY <1>1, <1>2, <1>5, <1>6 DEF ArriveInv

(* Where only the request's state changes, to one that tells less.         *)
LEMMA RestArrives ==
    ASSUME ArriveInv, UNCHANGED <<vars, delivered, parser, received>>,
           \/ request' = request
           \/ request' \in {"refused", "closed"}
           \/ request = "no" /\ request' = "reading"
    PROVE  ArriveInv'
<1>1. Inv' /\ OrderInv' /\ Grows /\ WireUnits'
  BY InvStep, OrderStep, ClientGrows DEF ArriveInv
<1>2. UNCHANGED <<wire, written, doneAsked>>
  BY DEF vars, wireVars
<1>3. ReadInv'
  <2>1. ASSUME NEW m, NEW o, Position(delivered, m, o) PROVE Position(delivered, m, o)'
    BY <1>2, <2>1 DEF Position, UnitAfter
  <2>2. ASSUME NEW m, NEW o, ParserAt(parser, m, o) PROVE ParserAt(parser, m, o)'
    BY <2>2 DEF ParserAt, IsRun
  <2>3. request' \in {"no", "reading"} => request \in {"no", "reading"}
    OBVIOUS
  <2> QED BY <1>2, <2>1, <2>2, <2>3 DEF ArriveInv, ReadInv
<1>4. RequestArrives'
  BY <1>2 DEF ArriveInv, RequestArrives, Message
<1> QED BY <1>1, <1>3, <1>4 DEF ArriveInv

(* At END_STREAM all frames have been taken, because the wire ends with    *)
(* the last unit of the last one.                                          *)
LEMMA EndArrives ==
    ASSUME ArriveInv, OnHalfClose
    PROVE  ArriveInv'
<1>1. /\ request = "reading" /\ eof /\ delivered = Len(wire) /\ request' = "eos"
      /\ UNCHANGED <<vars, delivered, parser, received>>
  BY DEF OnHalfClose, Reading
<1>2. Inv' /\ OrderInv' /\ WireUnits'
  BY <1>1, InvStep, OrderStep, ClientGrows DEF ArriveInv
<1>3. UNCHANGED <<wire, written, doneAsked>>
  BY <1>1 DEF vars, wireVars
<1>4. WireInv /\ WireInOrder /\ written \in Nat /\ Len(received) \in Nat
  BY ArriveWire
<1>5. doneAsked /\ Len(received) = written
  <2>1. PICK m \in Nat \ {0}, o \in Nat : Position(delivered, m, o) /\ Len(received) = m - 1
    BY <1>1 DEF ArriveInv, ReadInv
  <2>2. CASE wire = <<>>
    <3>1. m = 1 /\ written = 0
      BY <1>1, <1>4, <2>1, <2>2 DEF Position, WireInOrder
    <3> QED BY <1>1, <1>4, <2>1, <3>1 DEF WireInOrder
  <2>3. CASE wire # <<>>
    <3>1. Len(wire) # 0 /\ Len(wire) \in 1..Len(wire)
      BY <1>4, <2>3 DEF WireInv
    <3>2. /\ wire[Len(wire)] = <<written, FrameSize[written]>> /\ doneAsked
          /\ UnitAfter(wire[Len(wire)]) = <<m, o + 1>>
      BY <1>1, <1>4, <2>1, <2>3, <3>1 DEF Position, WireInOrder
    <3>3. written \in 1..written
      BY <1>4, <3>1, <3>2 DEF WireInv, WireUnits
    <3>4. written \in Frame
      BY <1>4, <3>3, MaxFramesAssumption DEF WireInv, Frame
    <3>5. UnitAfter(<<written, FrameSize[written]>>) = <<written + 1, 1>>
      BY <3>4, FrameFacts DEF UnitAfter
    <3>6. m = written + 1
      BY <3>2, <3>5
    <3> QED BY <1>4, <2>1, <3>2, <3>6
  <2> QED BY <2>2, <2>3
<1>6. ReadInv'
  BY <1>1, <1>3 DEF ArriveInv, ReadInv
<1>7. RequestArrives'
  BY <1>1, <1>3, <1>5 DEF ArriveInv, RequestArrives, Message
<1> QED BY <1>2, <1>6, <1>7 DEF ArriveInv

(* The first n messages, as the handler was given them.                    *)
Given(r, n) ==
    r \in Seq(Seq(Unit)) /\ Len(r) = n /\ \A i \in 1..Len(r) : r[i] = Message(i)

(* What Feed has found follows what was received.                          *)
LEMMA JoinMessages ==
    ASSUME NEW b \in Nat \ {0}, NEW m \in Nat \ {0}, b <= m, NEW r, Given(r, b - 1),
           NEW a \in Seq(Seq(Unit)), Found(a, b, m)
    PROVE  Given(r \o a, m - 1)
<1>0. /\ r \in Seq(Seq(Unit)) /\ Len(r) = b - 1
      /\ \A i \in 1..Len(r) : r[i] = Message(i)
  BY DEF Given
<1> DEFINE h == r \o a
           S == Seq(Unit)
<1>1. /\ h \in Seq(S) /\ Len(h) = Len(r) + Len(a)
      /\ Len(r) \in Nat /\ Len(a) \in Nat
      /\ \A i \in 1..Len(r) : h[i] = r[i]
      /\ \A i \in 1..Len(a) : h[Len(r) + i] = a[i]
  <2>1. r \in Seq(S) /\ a \in Seq(S)
    BY <1>0
  <2> HIDE DEF S, h
  <2>2. /\ r \o a \in Seq(S) /\ Len(r \o a) = Len(r) + Len(a)
        /\ Len(r) \in Nat /\ Len(a) \in Nat
    BY <2>1, JoinLen, Zenon
  <2>3. \A i \in 1..Len(r) : (r \o a)[i] = r[i]
    BY <2>1, JoinAt
  <2>4. \A i \in 1..Len(a) : (r \o a)[Len(r) + i] = a[i]
    BY <2>1, JoinAt
  <2>5. h = r \o a
    BY DEF h
  <2> QED BY <2>2, <2>3, <2>4, <2>5, Zenon
<1> HIDE DEF h
<1>2. Len(a) = m - b /\ Len(h) = m - 1
  BY <1>0, <1>1 DEF Found
<1>3. ASSUME NEW i \in 1..(m - 1) PROVE h[i] = Message(i)
  <2>1. CASE i \in 1..Len(r)
    BY <1>0, <1>1, <2>1
  <2>2. CASE i \notin 1..Len(r)
    <3> DEFINE k == i - (b - 1)
    <3>1. k \in 1..(m - b) /\ (b - 1) + k = i
      BY <1>0, <2>2
    <3> HIDE DEF k
    <3>2. a[k] = Message((b - 1) + k) /\ h[Len(r) + k] = a[k]
      BY <1>1, <1>2, <3>1 DEF Found
    <3> QED BY <1>0, <3>1, <3>2
  <2> QED BY <2>1, <2>2
<1>4. h \in Seq(S) /\ Len(h) = m - 1 /\ \A i \in 1..Len(h) : h[i] = Message(i)
  BY <1>1, <1>2, <1>3
<1> QED BY <1>4, Zenon DEF h, Given

(* OnData keeps the invariant: the chunk is fed from where the parser is,  *)
(* and what it finds is appended to what the handler was given.            *)
LEMMA DataArrives ==
    ASSUME ArriveInv, NEW n \in 1..(Len(wire) - delivered), OnData(n)
    PROVE  ArriveInv'
<1> DEFINE p   == [parser EXCEPT !.out = <<>>]
           c   == SubSeq(wire, delivered + 1, delivered + n)
           d   == delivered + n
           fed == Feed(p, c)
<1>1. /\ request = "reading" /\ received' = received \o fed.out
      /\ parser' = [fed EXCEPT !.out = <<>>] /\ delivered' = d
      /\ IF fed.ok THEN request' = request ELSE request' = "error"
      /\ UNCHANGED vars
  BY DEF OnData, Reading
<1>2. Inv' /\ OrderInv' /\ WireUnits'
  BY <1>1, InvStep, OrderStep, ClientGrows DEF ArriveInv
<1>3. UNCHANGED <<wire, written, doneAsked>>
  BY <1>1 DEF vars, wireVars
<1>4. /\ WireInv /\ written \in Nat /\ Len(received) \in Nat /\ wire \in Seq(Unit)
      /\ Len(wire) \in Nat /\ delivered \in Nat /\ received \in Seq(Seq(Unit))
      /\ Len(received) <= written /\ \A i \in 1..Len(received) : received[i] = Message(i)
  BY ArriveWire DEF WireInv, ArriveInv, ReadInv, RequestArrives
<1>5. d \in Nat /\ d <= Len(wire) /\ delivered <= d /\ d - delivered = n /\ d \in 0..Len(wire)
  BY <1>4
<1>6. PICK m \in Nat \ {0}, o \in Nat :
         Position(delivered, m, o) /\ ParserAt(parser, m, o) /\ Len(received) = m - 1
  BY <1>1 DEF ArriveInv, ReadInv
<1>7. ParserAt(p, m, o) /\ p.out = <<>>
  <2>1. parser \in ParserType /\ <<>> \in Seq(Seq(Unit))
    BY <1>6 DEF ParserAt
  <2>2. /\ p \in ParserType /\ p.header = parser.header /\ p.len = parser.len
        /\ p.payload = parser.payload /\ p.ok = parser.ok /\ p.out = <<>>
    BY <2>1 DEF ParserType
  <2> HIDE DEF p
  <2> QED BY <1>6, <2>2 DEF ParserAt
<1>8. Rest(c, delivered, d)
  <2>1. delivered + 1 \in Nat \ {0} /\ delivered + 1 <= d + 1
    BY <1>4, <1>5
  <2>2. /\ c \in Seq(Unit) /\ Len(c) = (d - (delivered + 1)) + 1
        /\ \A i \in 1..((d - (delivered + 1)) + 1) : c[i] = wire[((delivered + 1) + i) - 1]
    <3> HIDE DEF d
    <3> QED BY <1>4, <1>5, <2>1, CutSeq DEF d
  <2>3. (d - (delivered + 1)) + 1 = d - delivered
    BY <1>4
  <2>4. ASSUME NEW i \in 1..(d - delivered) PROVE ((delivered + 1) + i) - 1 = delivered + i
    BY <1>4, <1>5
  <2> HIDE DEF c, d
  <2> QED BY <2>2, <2>3, <2>4 DEF Rest
<1>9. FedTo(fed, m, d)
  <2>1. m - 1 <= written
    BY <1>4, <1>6
  <2> HIDE DEF p, c, d
  <2> QED BY <1>4, <1>5, <1>6, <1>7, <1>8, <2>1, FeedChunk
<1> HIDE DEF fed, p, c, d
<1>10. ASSUME NEW k \in Nat \ {0}, NEW u \in Nat, Position(d, k, u), ParserAt(fed, k, u),
              Found(fed.out, m, k), m <= k, k - 1 <= written
       PROVE  ReadInv' /\ RequestArrives'
  <2>1. fed \in ParserType /\ fed.ok /\ fed.out \in Seq(Seq(Unit)) /\ <<>> \in Seq(Seq(Unit))
    BY <1>10 DEF ParserAt, ParserType
  <2>2. /\ received' \in Seq(Seq(Unit)) /\ Len(received') = k - 1
        /\ \A i \in 1..Len(received') : received'[i] = Message(i)
    <3>1. Given(received, m - 1)
      BY <1>4, <1>6 DEF Given
    <3>2. Found(fed.out, m, k) /\ m <= k /\ fed.out \in Seq(Seq(Unit))
      BY <1>10, <2>1
    <3>3. Given(received', k - 1)
      BY <1>1, <3>1, <3>2, JoinMessages, Zenon
    <3> QED BY <3>3, Zenon DEF Given
  <2>3. /\ parser' \in ParserType /\ parser'.header = fed.header /\ parser'.len = fed.len
        /\ parser'.payload = fed.payload /\ parser'.ok = fed.ok /\ parser'.out = <<>>
    BY <1>1, <2>1 DEF ParserType
  <2>4. ParserAt(parser, k, u)'
    BY <1>10, <2>3 DEF ParserAt, IsRun
  <2>5. Position(delivered, k, u)'
    BY <1>1, <1>3, <1>10 DEF Position, UnitAfter
  <2>6. request' = "reading"
    BY <1>1, <2>1
  <2>7. ReadInv'
    BY <1>1, <1>3, <1>5, <2>2, <2>3, <2>4, <2>5 DEF ReadInv
  <2>8. RequestArrives'
    BY <1>3, <1>10, <2>2, <2>6 DEF RequestArrives, Message
  <2> QED BY <2>7, <2>8
<1>11. ASSUME NEW k \in Nat \ {0}, fed \in ParserType, ~fed.ok, Found(fed.out, m, k), m <= k,
              k \in 1..written, FrameSize[k] - HeaderSize > MaxMessage
       PROVE  ReadInv' /\ RequestArrives'
  <2>1. fed.out \in Seq(Seq(Unit))
    BY <1>11 DEF ParserType
  <2>2. /\ received' \in Seq(Seq(Unit)) /\ Len(received') = k - 1
        /\ \A i \in 1..Len(received') : received'[i] = Message(i)
    <3>1. Given(received, m - 1)
      BY <1>4, <1>6 DEF Given
    <3>2. Found(fed.out, m, k) /\ m <= k /\ fed.out \in Seq(Seq(Unit))
      BY <1>11, <2>1
    <3>3. Given(received', k - 1)
      BY <1>1, <3>1, <3>2, JoinMessages, Zenon
    <3> QED BY <3>3, Zenon DEF Given
  <2>3. request' = "error"
    BY <1>1, <1>11
  <2>4. k - 1 <= written /\ k - 1 < written /\ (k - 1) + 1 = k
    BY <1>4, <1>11
  <2>5. ReadInv'
    BY <1>1, <1>3, <1>5, <2>2, <2>3 DEF ReadInv
  <2>6. RequestArrives'
    BY <1>3, <1>11, <2>2, <2>3, <2>4 DEF RequestArrives, Message
  <2> QED BY <2>5, <2>6
<1>12. ReadInv' /\ RequestArrives'
  BY <1>9, <1>10, <1>11 DEF FedTo
<1> QED BY <1>2, <1>12 DEF ArriveInv

(* Every step keeps the invariant.                                         *)
LEMMA ArriveStep == ArriveInv /\ [ExchangeNext]_allVars => ArriveInv'
<1> SUFFICES ASSUME ArriveInv, [ExchangeNext]_allVars PROVE ArriveInv'
  OBVIOUS
<1>1. CASE ClientStep
  BY <1>1, ClientArrives DEF ClientStep, serverVars
<1>2. CASE Start
  <2>1. /\ UNCHANGED <<vars, delivered, parser, received>> /\ request = "no"
        /\ request' \in {"refused", "reading"}
    BY <1>2 DEF Start
  <2> QED BY <2>1, RestArrives
<1>3. CASE OnHalfClose
  BY <1>3, EndArrives
<1>4. CASE OnClose
  BY <1>4, RestArrives DEF OnClose
<1>5. CASE \E n \in 1..(Len(wire) - delivered) : OnData(n)
  BY <1>5, DataArrives
<1>6. CASE HandlerReturns
  BY <1>6, RestArrives DEF HandlerReturns, bodyVars
<1>7. CASE OnTrailers
  BY <1>7, RestArrives DEF OnTrailers, bodyVars
<1>8. CASE UNCHANGED allVars
  BY <1>8, RestArrives DEF allVars, serverVars, bodyVars
<1> QED BY <1>1, <1>2, <1>3, <1>4, <1>5, <1>6, <1>7, <1>8 DEF ExchangeNext, ServerStep

(* However the generator cuts the frames and the connection cuts the       *)
(* bytes, StreamingFrameParser hands over the messages that were written,  *)
(* whole and in order, up to the last one at a clean end, and up to the    *)
(* first one over the limit at an error.                                   *)
THEOREM RequestArrivesWhole == ExchangeSafety => []RequestArrives
<1>1. ArriveInv => RequestArrives
  BY DEF ArriveInv
<1> QED BY ArriveInit, ArriveStep, <1>1, PTL DEF ExchangeSafety

-----------------------------------------------------------------------------
(* The deadline                                                             *)

DeadlineInv == context \in Contexts /\ DeadlineCarries

(* A step that leaves the context and the deadline alone, and starts no    *)
(* request.                                                                *)
LEMMA DeadlineStays ==
    ASSUME DeadlineInv, UNCHANGED <<context, deadline>>,
           request \in {"no", "refused"} => request' \in {"no", "refused"}
    PROVE  DeadlineInv'
BY DEF DeadlineInv, DeadlineCarries

(* Start reads the deadline that the headers carry.                        *)
LEMMA DeadlineStarts == ASSUME DeadlineInv, Start PROVE DeadlineInv'
<1>1. /\ UNCHANGED context /\ context.timeout \in 0..MaxNs
      /\ \/ request' = "refused"
         \/ deadline' = IF context.timeout = 0 THEN 0
                        ELSE ParseTimeout(FormatTimeout(context.timeout))
  BY ContextsAssumption DEF DeadlineInv, Start
<1>2. CASE request' = "refused"
  BY <1>1, <1>2 DEF DeadlineInv, DeadlineCarries
<1>3. CASE request' # "refused" /\ context.timeout > 0
  <2> DEFINE n == context.timeout
             best == Min({d \in Expressible : d >= n})
  <2>1. n \in 1..MaxNs
    BY <1>1, <1>3, LimitsAssumption
  <2>2. ParseTimeout(FormatTimeout(n)) = IF best > MaxNs THEN 0 ELSE best
    <3> HIDE DEF n
    <3> QED BY <2>1, TimeoutCarries
  <2>3. n # 0
    BY <2>1
  <2>4. deadline' = IF best > MaxNs THEN 0 ELSE best
    BY <1>1, <1>3, <2>2, <2>3
  <2>5. context' = context
    BY <1>1
  <2> QED BY <2>4, <2>5 DEF DeadlineInv, DeadlineCarries
<1>4. CASE ~(context.timeout > 0)
  BY <1>1, <1>4 DEF DeadlineInv, DeadlineCarries
<1> QED BY <1>2, <1>3, <1>4

(* Only Start sets the deadline.                                           *)
LEMMA DeadlineStep == DeadlineInv /\ [ExchangeNext]_allVars => DeadlineInv'
<1> SUFFICES ASSUME DeadlineInv, [ExchangeNext]_allVars PROVE DeadlineInv'
  OBVIOUS
<1>1. CASE ClientStep
  BY <1>1, DeadlineStays DEF ClientStep, serverVars, headerVars, bodyVars
<1>2. CASE Start
  BY <1>2, DeadlineStarts
<1>3. CASE OnHalfClose
  BY <1>3, DeadlineStays DEF OnHalfClose, Reading, headerVars
<1>4. CASE OnClose
  BY <1>4, DeadlineStays DEF OnClose, Unanswered, headerVars
<1>5. CASE \E n \in 1..(Len(wire) - delivered) : OnData(n)
  BY <1>5, DeadlineStays DEF OnData, Reading, headerVars
<1>6. CASE HandlerReturns
  BY <1>6, DeadlineStays DEF HandlerReturns, headerVars, bodyVars
<1>7. CASE OnTrailers
  BY <1>7, DeadlineStays DEF OnTrailers, headerVars, bodyVars
<1>8. CASE UNCHANGED allVars
  BY <1>8, DeadlineStays DEF allVars, serverVars, headerVars, bodyVars
<1> QED BY <1>1, <1>2, <1>3, <1>4, <1>5, <1>6, <1>7, <1>8 DEF ExchangeNext, ServerStep

(* grpc-timeout, for any units and limits: the server's deadline is the    *)
(* shortest one a header can express that is not shorter than what the     *)
(* user asked for, and it has none only if that is over the largest        *)
(* duration.                                                               *)
THEOREM DeadlineArrives == ExchangeSafety => []DeadlineCarries
<1>1. ExchangeInit => DeadlineInv
  BY DEF ExchangeInit, DeadlineInv, DeadlineCarries
<1>2. DeadlineInv => DeadlineCarries
  BY DEF DeadlineInv
<1> QED BY <1>1, <1>2, DeadlineStep, PTL DEF ExchangeSafety

-----------------------------------------------------------------------------
(* The status                                                               *)

(* What is on its way is the encoding of the status, and is answered once. *)
StatusInv ==
    /\ request = "no" => trailers = <<>>
    /\ trailers # <<>> => \E s \in Status : status = <<s>> /\ trailers = <<BuildTrailers(s)>>
    /\ result # <<>> => trailers # <<>> /\ result = status

LEMMA TooLargeType == TooLarge \in Status
<1>1. Radix * Radix - 1 \in Nat
  <2>1. Radix \in Nat /\ Radix >= 1
    BY RadixAssumption
  <2>2. Radix * Radix \in Nat /\ Radix * Radix >= 1
    BY <2>1
  <2> QED BY <2>2
<1>2. 0 \in Char
  BY <1>1 DEF Char
<1>3. <<0>> \in Seq(Char) /\ <<>> \in Seq(Byte) /\ 8 \in 0..16
  BY <1>2
<1> QED BY <1>3 DEF TooLarge, Status

(* A step that leaves the answer alone.                                    *)
LEMMA StatusStays ==
    ASSUME StatusInv, UNCHANGED answerVars, request' = "no" => request = "no"
    PROVE  StatusInv'
BY DEF StatusInv, answerVars

(* A first answer goes out.                                                *)
LEMMA StatusSent ==
    ASSUME StatusInv, trailers = <<>>, NEW s \in Status, Respond(s), result' = result,
           request' # "no"
    PROVE  StatusInv'
<1>1. result' = <<>>
  BY DEF StatusInv
<1>2. status' = <<s>> /\ trailers' = <<BuildTrailers(s)>>
  BY DEF Respond
<1> QED BY <1>1, <1>2 DEF StatusInv

LEMMA StatusStep == StatusInv /\ [ExchangeNext]_allVars => StatusInv'
<1> SUFFICES ASSUME StatusInv, [ExchangeNext]_allVars PROVE StatusInv'
  OBVIOUS
<1>1. CASE ClientStep
  BY <1>1, StatusStays DEF ClientStep, serverVars, bodyVars
<1>2. CASE Start
  <2>1. request = "no" /\ trailers = <<>> /\ result' = result
    BY <1>2 DEF Start, StatusInv
  <2>2. \/ request' = "refused" /\ Respond(TooLarge)
        \/ request' = "reading" /\ UNCHANGED <<status, trailers>>
    BY <1>2 DEF Start
  <2>3. CASE request' = "refused" /\ Respond(TooLarge)
    BY <2>1, <2>3, TooLargeType, StatusSent
  <2>4. CASE request' = "reading" /\ UNCHANGED <<status, trailers>>
    BY <2>1, <2>4, StatusStays DEF answerVars
  <2> QED BY <2>2, <2>3, <2>4
<1>3. CASE OnHalfClose
  BY <1>3, StatusStays DEF OnHalfClose
<1>4. CASE OnClose
  BY <1>4, StatusStays DEF OnClose
<1>5. ASSUME NEW n \in 1..(Len(wire) - delivered), OnData(n) PROVE StatusInv'
  <2>1. request = "reading" /\ trailers = <<>> /\ result' = result
    BY <1>5 DEF OnData, Reading
  <2>2. \/ request' = "error" /\ Respond(TooLarge)
        \/ UNCHANGED <<request, status, trailers>>
    BY <1>5 DEF OnData
  <2>3. CASE request' = "error" /\ Respond(TooLarge)
    BY <2>1, <2>3, TooLargeType, StatusSent
  <2>4. CASE UNCHANGED <<request, status, trailers>>
    BY <2>1, <2>4, StatusStays DEF answerVars
  <2> QED BY <2>2, <2>3, <2>4
<1>6. CASE HandlerReturns
  <2>1. trailers = <<>> /\ request' # "no" /\ result' = result
    BY <1>6 DEF HandlerReturns, Unanswered, bodyVars
  <2>2. PICK s \in Statuses : Respond(s)
    BY <1>6 DEF HandlerReturns
  <2>3. s \in Status
    BY StatusesAssumption
  <2> QED BY <2>1, <2>2, <2>3, StatusSent
<1>7. CASE OnTrailers
  <2>1. /\ trailers # <<>> /\ UNCHANGED <<request, status, trailers>>
        /\ result' = <<ExtractTrailerStatus(trailers[1])>>
    BY <1>7 DEF OnTrailers, bodyVars
  <2>2. PICK s \in Status : status = <<s>> /\ trailers = <<BuildTrailers(s)>>
    BY <2>1 DEF StatusInv
  <2>3. ExtractTrailerStatus(trailers[1]) = s
    BY <2>2, TrailersRoundTrip
  <2> QED BY <2>1, <2>2, <2>3 DEF StatusInv
<1>8. CASE UNCHANGED allVars
  BY <1>8, StatusStays DEF allVars, serverVars, bodyVars
<1> QED BY <1>1, <1>2, <1>3, <1>4, <1>5, <1>6, <1>7, <1>8 DEF ExchangeNext, ServerStep

(* BuildTrailers, ExtractTrailerStatus and the percent and base64 codecs,  *)
(* for messages and details of any length: the status that the client is   *)
(* told is the one the server ended the call with, code, message and       *)
(* details.                                                                *)
THEOREM StatusArrivesWhole == ExchangeSafety => []StatusArrives
<1>1. ExchangeInit => StatusInv
  BY DEF ExchangeInit, StatusInv
<1>2. StatusInv => StatusArrives
  BY DEF StatusInv, StatusArrives
<1> QED BY <1>1, <1>2, StatusStep, PTL DEF ExchangeSafety

-----------------------------------------------------------------------------
(* The metadata                                                             *)

(* The turn of Sendable.                                                   *)
Keep(acc, e) == IF e.key \in Forbidden THEN acc ELSE Append(acc, e)

(* Sendable is a run of Keep.                                              *)
LEMMA SendableRuns ==
    ASSUME NEW adds \in Seq(Entries)
    PROVE  \E h : /\ h[0] = <<>>
                  /\ \A k \in 1..Len(adds) : h[k] = Keep(h[k - 1], adds[k])
                  /\ Sendable(adds) = h[Len(adds)]
<1> DEFINE n     == Len(adds)
           Is(h) == h = [k \in 0..n |-> IF k = 0 THEN <<>> ELSE Keep(h[k - 1], adds[k])]
           g     == [k \in 1..n |-> [acc \in Seq(Entries) |-> Keep(acc, adds[k])]]
           c     == CHOOSE h : Is(h)
<1>1. n \in Nat /\ <<>> \in Seq(Entries)
  OBVIOUS
<1>2. Sendable(adds) = c[n]
  BY DEF Sendable, Keep
<1>3. \A k \in 1..n, acc \in Seq(Entries) : Keep(acc, adds[k]) \in Seq(Entries)
  <2> SUFFICES ASSUME NEW k \in 1..n, NEW acc \in Seq(Entries)
               PROVE  Keep(acc, adds[k]) \in Seq(Entries)
    OBVIOUS
  <2> DEFINE x == adds[k]
  <2>1. x \in Entries
    OBVIOUS
  <2>2. Keep(acc, adds[k]) \in {Append(acc, x), acc}
    BY DEF Keep
  <2> HIDE DEF x
  <2>3. Append(acc, x) \in Seq(Entries)
    BY <2>1
  <2> QED BY <2>2, <2>3
<1> HIDE DEF n, c
<1>4. g \in [1..n -> [Seq(Entries) -> Seq(Entries)]]
  BY <1>3
<1>5. PICK f : Turns(f, Seq(Entries), <<>>, n, g)
  <2> HIDE DEF g
  <2> QED BY <1>1, <1>4, LoopRuns
<1>6. ASSUME NEW k \in 0..n
      PROVE  f[k] = IF k = 0 THEN <<>> ELSE Keep(f[k - 1], adds[k])
  <2>1. CASE k = 0
    BY <1>5, <2>1 DEF Turns
  <2>2. CASE k # 0
    <3>1. k \in 1..n /\ k - 1 \in 0..n
      BY <1>1, <2>2
    <3>2. f[k - 1] \in Seq(Entries) /\ f[k] = g[k][f[k - 1]]
      BY <1>5, <3>1 DEF Turns
    <3> QED BY <2>2, <3>1, <3>2
  <2> QED BY <2>1, <2>2
<1>7. Is(f)
  BY <1>5, <1>6 DEF Turns
<1>8. Is(c)
  BY <1>7 DEF c
<1>9. 0 \in 0..n /\ \A k \in 1..n : k \in 0..n /\ k # 0
  BY <1>1
<1>10. c[0] = <<>> /\ \A k \in 1..n : c[k] = Keep(c[k - 1], adds[k])
  BY <1>8, <1>9
<1> QED BY <1>2, <1>10 DEF n

(* SendMetadata is a run of ValidateAndAdd.                                *)
LEMMA SendMetadataRuns ==
    ASSUME NEW adds \in Seq(Entries), adds = context.adds
    PROVE  \E h : /\ h[0] = <<>>
                  /\ \A k \in 1..Len(adds) : h[k] = ValidateAndAdd(h[k - 1], adds[k])
                  /\ SendMetadata = h[Len(adds)]
<1> DEFINE n     == Len(adds)
           Is(h) == h = [k \in 0..n |-> IF k = 0 THEN <<>> ELSE ValidateAndAdd(h[k - 1], adds[k])]
           g     == [k \in 1..n |-> [acc \in Seq(Entries) |-> ValidateAndAdd(acc, adds[k])]]
           c     == CHOOSE h : Is(h)
<1>1. n \in Nat /\ <<>> \in Seq(Entries)
  OBVIOUS
<1>2. SendMetadata = c[n]
  BY DEF SendMetadata
<1>3. \A k \in 1..n, acc \in Seq(Entries) : ValidateAndAdd(acc, adds[k]) \in Seq(Entries)
  <2> SUFFICES ASSUME NEW k \in 1..n, NEW acc \in Seq(Entries)
               PROVE  ValidateAndAdd(acc, adds[k]) \in Seq(Entries)
    OBVIOUS
  <2> DEFINE x == adds[k]
  <2>1. x \in Entries
    OBVIOUS
  <2>2. ValidateAndAdd(acc, adds[k]) \in {Append(acc, x), acc}
    BY DEF ValidateAndAdd
  <2> HIDE DEF x
  <2>3. Append(acc, x) \in Seq(Entries)
    BY <2>1
  <2> QED BY <2>2, <2>3
<1> HIDE DEF n, c
<1>4. g \in [1..n -> [Seq(Entries) -> Seq(Entries)]]
  BY <1>3
<1>5. PICK f : Turns(f, Seq(Entries), <<>>, n, g)
  <2> HIDE DEF g
  <2> QED BY <1>1, <1>4, LoopRuns
<1>6. ASSUME NEW k \in 0..n
      PROVE  f[k] = IF k = 0 THEN <<>> ELSE ValidateAndAdd(f[k - 1], adds[k])
  <2>1. CASE k = 0
    BY <1>5, <2>1 DEF Turns
  <2>2. CASE k # 0
    <3>1. k \in 1..n /\ k - 1 \in 0..n
      BY <1>1, <2>2
    <3>2. f[k - 1] \in Seq(Entries) /\ f[k] = g[k][f[k - 1]]
      BY <1>5, <3>1 DEF Turns
    <3> QED BY <2>2, <3>1, <3>2
  <2> QED BY <2>1, <2>2
<1>7. Is(f)
  BY <1>5, <1>6 DEF Turns
<1>8. Is(c)
  BY <1>7 DEF c
<1>9. 0 \in 0..n /\ \A k \in 1..n : k \in 0..n /\ k # 0
  BY <1>1
<1>10. c[0] = <<>> /\ \A k \in 1..n : c[k] = ValidateAndAdd(c[k - 1], adds[k])
  BY <1>8, <1>9
<1> QED BY <1>2, <1>10 DEF n

(* The context accepts what may be sent, all of which passes the filters.  *)
LEMMA Accepted ==
    ASSUME context \in Contexts
    PROVE  SendMetadata = Sendable(context.adds) /\ SendMetadata \in Seq(Sent)
<1> DEFINE adds == context.adds
           n == Len(adds)
<1>1. adds \in Seq(Entries) /\ n \in Nat
  <2> DEFINE E == [key : STRING, value : Seq(Byte)]
  <2>1. adds \in Seq(E)
    BY ContextsAssumption
  <2>2. \A e \in E : e \in Entries
    BY DEF Entries
  <2> HIDE DEF adds, E
  <2> QED BY <2>1, <2>2
<1>2. PICK h : /\ h[0] = <<>> /\ \A k \in 1..n : h[k] = Keep(h[k - 1], adds[k])
               /\ Sendable(adds) = h[n]
  <2> HIDE DEF adds
  <2> QED BY <1>1, SendableRuns
<1>3. PICK w : /\ w[0] = <<>> /\ \A k \in 1..n : w[k] = ValidateAndAdd(w[k - 1], adds[k])
               /\ SendMetadata = w[n]
  BY <1>1, SendMetadataRuns
<1> HIDE DEF n, adds
<1> DEFINE T == {k \in Nat : k <= n => w[k] = h[k] /\ w[k] \in Seq(Sent)}
<1>4. 0 \in T
  <2>1. <<>> \in Seq(Sent)
    OBVIOUS
  <2> QED BY <1>2, <1>3, <2>1
<1>5. ASSUME NEW k \in T PROVE k + 1 \in T
  <2> SUFFICES ASSUME k + 1 <= n PROVE w[k + 1] = h[k + 1] /\ w[k + 1] \in Seq(Sent)
    OBVIOUS
  <2> DEFINE o == w[k]
             e == adds[k + 1]
  <2>1. k \in Nat /\ k + 1 \in 1..n /\ (k + 1) - 1 = k /\ o = h[k] /\ o \in Seq(Sent)
    BY <1>1
  <2>2. w[k + 1] = ValidateAndAdd(o, e) /\ h[k + 1] = Keep(o, e)
    BY <1>2, <1>3, <2>1
  <2>3. e \in Entries
    BY <1>1, <2>1 DEF n
  <2> HIDE DEF o, e
  <2>4. CASE e.key \in Forbidden
    BY <2>1, <2>2, <2>4 DEF ValidateAndAdd, Keep, Forbidden, IsValidKey, IsReservedKey
  <2>5. CASE e.key \notin Forbidden
    <3>1. e \in Sent
      BY <2>3, <2>5 DEF Sent, Forbidden, IsValidKey, IsReservedKey, IsInternal
    <3>2. w[k + 1] = Append(o, e) /\ h[k + 1] = Append(o, e)
      BY <2>2, <2>5, <3>1 DEF ValidateAndAdd, Keep, Sent
    <3> QED BY <2>1, <3>1, <3>2
  <2> QED BY <2>4, <2>5
<1>6. T = Nat
  <2>1. T \in SUBSET Nat
    OBVIOUS
  <2> HIDE DEF T
  <2> QED BY <1>4, <1>5, <2>1, Induction
<1>7. w[n] = h[n] /\ w[n] \in Seq(Sent)
  BY <1>1, <1>6
<1> QED BY <1>2, <1>3, <1>7 DEF adds

Expected(c) == <<[key |-> "user-agent", value |-> <<0>>]>> \o Sendable(c.adds)

(* The server makes of the headers what the user may send.                 *)
LEMMA MetadataRead ==
    ASSUME context \in Contexts
    PROVE  HeadersToMetadata(BuildStreamingGrpcHeaders) = Expected(context)
<1> DEFINE own == [key |-> "content-type", value |-> <<>>]
           ua  == [key |-> "user-agent", value |-> <<0>>]
           md  == SendMetadata
<1>1. md \in Seq(Sent) /\ md = Sendable(context.adds)
  BY Accepted
<1>2. own \in Entries /\ IsInternal(own.key) /\ ~IsBinaryKey(own.key)
  <2>1. <<>> \in Seq(Byte)
    OBVIOUS
  <2>2. own \in Entries
    BY <2>1, EntryType
  <2> QED BY <2>2 DEF IsInternal, IsBinaryKey
<1>3. ua \in Sent /\ ~IsBinaryKey(ua.key)
  <2>1. <<0>> \in Seq(Byte)
    BY DEF Byte
  <2>2. ua \in Entries /\ ua.key = "user-agent"
    BY <2>1, EntryType
  <2> HIDE DEF ua
  <2> QED BY <2>2 DEF Sent, IsInternal, IsBinaryKey, IsValidKey, IsReservedKey
<1>4. BuildStreamingGrpcHeaders = <<own, ua>> \o MetadataToHeaders(md)
  BY DEF BuildStreamingGrpcHeaders
<1>5. Expected(context) = <<ua>> \o md
  BY <1>1 DEF Expected
<1> HIDE DEF own, ua, md
<1> QED BY <1>1, <1>2, <1>3, <1>4, <1>5, MetadataRoundTrip

(* The model keeps the order in which entries were added between keys, too. *)
MetadataInv ==
    /\ context \in Contexts
    /\ request \notin {"no", "refused"} => metadata = Expected(context)
    /\ request # "no" => (request = "refused" <=> TotalSize(Expected(context)) > MaxMetadata)

(* A step that leaves the context and the metadata alone, and neither      *)
(* starts nor refuses a request.                                           *)
LEMMA MetadataStays ==
    ASSUME MetadataInv, UNCHANGED <<context, metadata>>, request' = "no" <=> request = "no",
           request' = "refused" <=> request = "refused"
    PROVE  MetadataInv'
BY DEF MetadataInv

(* Start reads the metadata that the headers carry, or refuses it.         *)
LEMMA MetadataStarts == ASSUME MetadataInv, Start PROVE MetadataInv'
<1>1. context \in Contexts /\ UNCHANGED context
  BY DEF MetadataInv, Start
<1> DEFINE x == Expected(context)
<1>2. HeadersToMetadata(BuildStreamingGrpcHeaders) = x
  BY <1>1, MetadataRead
<1>3. \/ TotalSize(x) > MaxMetadata /\ request' = "refused"
      \/ ~(TotalSize(x) > MaxMetadata) /\ request' = "reading" /\ metadata' = x
  BY <1>2 DEF Start
<1>4. Expected(context') = x
  BY <1>1
<1> HIDE DEF x
<1> QED BY <1>1, <1>3, <1>4 DEF MetadataInv

(* Only Start reads the metadata.                                          *)
LEMMA MetadataStep == MetadataInv /\ [ExchangeNext]_allVars => MetadataInv'
<1> SUFFICES ASSUME MetadataInv, [ExchangeNext]_allVars PROVE MetadataInv'
  OBVIOUS
<1>1. CASE ClientStep
  BY <1>1, MetadataStays DEF ClientStep, serverVars, headerVars, bodyVars
<1>2. CASE Start
  BY <1>2, MetadataStarts
<1>3. CASE OnHalfClose
  BY <1>3, MetadataStays DEF OnHalfClose, Reading, headerVars
<1>4. CASE OnClose
  BY <1>4, MetadataStays DEF OnClose, Unanswered, headerVars
<1>5. CASE \E n \in 1..(Len(wire) - delivered) : OnData(n)
  BY <1>5, MetadataStays DEF OnData, Reading, headerVars
<1>6. CASE HandlerReturns
  BY <1>6, MetadataStays DEF HandlerReturns, headerVars, bodyVars
<1>7. CASE OnTrailers
  BY <1>7, MetadataStays DEF OnTrailers, headerVars, bodyVars
<1>8. CASE UNCHANGED allVars
  BY <1>8, MetadataStays DEF allVars, serverVars, headerVars, bodyVars
<1> QED BY <1>1, <1>2, <1>3, <1>4, <1>5, <1>6, <1>7, <1>8 DEF ExchangeNext, ServerStep

(* ValidateAndAdd, MetadataToNghttp2Headers and Nghttp2HeadersToMetadata,  *)
(* for any number of entries with values of any length: the handler finds  *)
(* all that may be sent, the values of each key in the order they were     *)
(* added and binary ones as they were, and a request is refused exactly if *)
(* that is over the limit.                                                 *)
THEOREM MetadataArrivesWhole == ExchangeSafety => []MetadataArrives
<1>1. ExchangeInit => MetadataInv
  BY DEF ExchangeInit, MetadataInv
<1>2. MetadataInv => MetadataArrives
  <2>1. metadata = Expected(context) => SameMultimap(metadata, Expected(context))
    BY DEF SameMultimap
  <2> QED BY <2>1 DEF MetadataInv, MetadataArrives, Expected
<1> QED BY <1>1, <1>2, MetadataStep, PTL DEF ExchangeSafety
=============================================================================
