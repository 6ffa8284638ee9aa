---------------------------- MODULE CodecProofs ----------------------------
(***************************************************************************)
(* What the codecs do, whatever their parameters are: FormatTimeout picks  *)
(* the best duration a header can express and ParseTimeout reads it back;  *)
(* decoding undoes base64, percent coding, the status trailers and the     *)
(* metadata headers, for values of any length.                             *)
(***************************************************************************)
EXTENDS Codec, WellFoundedInduction, TLAPS

-----------------------------------------------------------------------------
(* Least elements and induction.                                            *)

(* A set of naturals that is not empty has a least element.                *)
LEMMA LeastNat ==
    ASSUME NEW T \in SUBSET Nat, T # {}
    PROVE  \E n \in T : \A m \in T : n <= m
<1> DEFINE R == OpToRel(<, Nat)
<1>1. IsWellFoundedOn(R, Nat)
  BY NatLessThanWellFounded
<1>2. \A a, b \in Nat : a < b => <<a, b>> \in R
  BY DEF OpToRel
<1> HIDE DEF R
<1>3. PICK n \in T : \A m \in T : <<m, n>> \notin R
  BY <1>1, WFMin
<1>4. ASSUME NEW m \in T PROVE n <= m
  <2>1. ~(m < n)
    BY <1>2, <1>3
  <2> QED BY <2>1
<1> QED BY <1>4

(* What holds for 0 and passes from n to n + 1 holds for all naturals.     *)
LEMMA Induction ==
    ASSUME NEW T \in SUBSET Nat, 0 \in T, \A n \in T : n + 1 \in T
    PROVE  T = Nat
<1> SUFFICES ASSUME Nat \ T # {} PROVE FALSE
  OBVIOUS
<1>1. PICK n \in Nat \ T : \A m \in Nat \ T : n <= m
  BY LeastNat
<1>2. n # 0 /\ n - 1 \in Nat
  BY <1>1
<1>3. n - 1 \in T
  BY <1>1, <1>2
<1>4. (n - 1) + 1 = n
  OBVIOUS
<1> QED BY <1>1, <1>3, <1>4

(* Min picks the least element, and there is only one.                     *)
LEMMA MinIs ==
    ASSUME NEW T \in SUBSET Nat, NEW n \in T, \A m \in T : n <= m
    PROVE  Min(T) = n
<1>1. Min(T) \in T /\ \A m \in T : Min(T) <= m
  BY DEF Min
<1>2. Min(T) \in Nat /\ n \in Nat /\ Min(T) <= n /\ n <= Min(T)
  BY <1>1
<1> QED BY <1>2

LEMMA MinFacts ==
    ASSUME NEW T \in SUBSET Nat, T # {}
    PROVE  Min(T) \in T /\ \A m \in T : Min(T) <= m
<1>1. PICK n \in T : \A m \in T : n <= m
  BY LeastNat
<1> QED BY <1>1, MinIs

-----------------------------------------------------------------------------
(* Products and quotients of naturals.                                      *)

LEMMA TimesMonotone ==
    ASSUME NEW a \in Nat, NEW b \in Nat, NEW u \in Nat, a <= b
    PROVE  a * u \in Nat /\ b * u \in Nat /\ a * u <= b * u
OBVIOUS

LEMMA DivFacts ==
    ASSUME NEW a \in Nat, NEW u \in Nat \ {0}
    PROVE  /\ a \div u \in Nat /\ a % u \in Nat /\ a % u < u
           /\ a = (a \div u) * u + (a % u)
OBVIOUS

(* A product stays below a number as long as its factor is no more than    *)
(* the quotient: ParseTimeout's test before it multiplies.                 *)
LEMMA DivCompares ==
    ASSUME NEW a \in Nat, NEW c \in Nat, NEW u \in Nat \ {0}
    PROVE  c > a \div u <=> c * u > a
<1> DEFINE q == a \div u
           r == a % u
<1>1. q \in Nat /\ r \in Nat /\ r < u /\ a = q * u + r
  BY DivFacts
<1> HIDE DEF q, r
<1>2. CASE c <= q
  <2>1. c * u \in Nat /\ q * u \in Nat /\ c * u <= q * u
    BY <1>1, <1>2, TimesMonotone
  <2> QED BY <1>1, <1>2, <2>1 DEF q
<1>3. CASE c > q
  <2>1. (q + 1) * u \in Nat /\ c * u \in Nat /\ (q + 1) * u <= c * u
    <3>1. q + 1 \in Nat /\ q + 1 <= c
      BY <1>1, <1>3
    <3> QED BY <3>1, TimesMonotone
  <2>2. (q + 1) * u = q * u + u /\ q * u \in Nat
    BY <1>1
  <2> QED BY <1>1, <1>3, <2>1, <2>2 DEF q
<1> QED BY <1>1, <1>2, <1>3

(* RoundUp gives the least count of units that is not shorter.             *)
LEMMA RoundUpFacts ==
    ASSUME NEW n \in Nat \ {0}, NEW u \in Nat \ {0}
    PROVE  /\ RoundUp(n, u) \in Nat \ {0} /\ n <= RoundUp(n, u) * u
           /\ RoundUp(n, u) * u < n + u
<1> DEFINE a == n + u - 1
           q == a \div u
           r == a % u
<1>1. a \in Nat /\ u <= a
  OBVIOUS
<1>2. q \in Nat /\ r \in Nat /\ r < u /\ a = q * u + r
  <2> HIDE DEF a
  <2> QED BY <1>1, DivFacts
<1>3. RoundUp(n, u) = q
  BY DEF RoundUp
<1> HIDE DEF q, r
<1>4. q # 0
  BY <1>1, <1>2
<1>5. q * u \in Nat
  BY <1>2
<1> QED BY <1>2, <1>3, <1>4, <1>5

(* No smaller count of units is long enough.                               *)
LEMMA RoundUpLeast ==
    ASSUME NEW n \in Nat \ {0}, NEW u \in Nat \ {0}, NEW v \in Nat, n <= v * u
    PROVE  RoundUp(n, u) <= v
<1> DEFINE c == RoundUp(n, u)
<1>1. c \in Nat \ {0} /\ c * u < n + u
  BY RoundUpFacts
<1> HIDE DEF c
<1> SUFFICES ASSUME v + 1 <= c PROVE FALSE
  BY <1>1 DEF c
<1>2. (v + 1) * u <= c * u /\ (v + 1) * u \in Nat /\ c * u \in Nat
  <2>1. v + 1 \in Nat
    OBVIOUS
  <2> QED BY <1>1, <2>1, TimesMonotone
<1>3. (v + 1) * u = v * u + u /\ v * u \in Nat
  OBVIOUS
<1> QED BY <1>1, <1>2, <1>3

(* What is a whole count of units is not changed.                          *)
LEMMA RoundUpExact ==
    ASSUME NEW n \in Nat \ {0}, NEW u \in Nat \ {0}, n % u = 0
    PROVE  RoundUp(n, u) * u = n
<1> DEFINE q == n \div u
           c == RoundUp(n, u)
<1>1. q \in Nat /\ n = q * u
  BY DivFacts
<1>2. c \in Nat \ {0} /\ n <= c * u
  BY RoundUpFacts
<1>3. c <= q
  <2>1. n <= q * u
    BY <1>1
  <2> HIDE DEF q
  <2> QED BY <1>1, <2>1, RoundUpLeast
<1> HIDE DEF q, c
<1>4. c * u <= q * u /\ c * u \in Nat
  BY <1>1, <1>2, <1>3, TimesMonotone
<1>5. c * u = n
  BY <1>1, <1>2, <1>4
<1> QED BY <1>5 DEF c

-----------------------------------------------------------------------------
(* The units                                                                *)

Fits(n, i) == RoundUp(n, Units[i]) <= MaxValue

Coarser(n, i) == i < Len(Units) /\ n % Units[i + 1] = 0

Usable(n) == {i \in 1..Len(Units) : Fits(n, i) /\ ~Coarser(n, i)}

(* FormatTimeout in terms of the units that it may take.                   *)
LEMMA FormatIs ==
    ASSUME NEW n
    PROVE  FormatTimeout(n) = IF Usable(n) = {} THEN <<MaxValue, Len(Units)>>
                              ELSE <<RoundUp(n, Units[Min(Usable(n))]), Min(Usable(n))>>
BY DEF FormatTimeout, Usable, Fits, Coarser

LEMMA UnitFacts ==
    ASSUME NEW i \in 1..Len(Units)
    PROVE  Units[i] \in Nat \ {0} /\ Len(Units) \in Nat \ {0} /\ i \in Nat
BY UnitsAssumption

(* A unit is a whole number of a finer one.                                *)
LEMMA Multiple ==
    ASSUME NEW i \in 1..Len(Units), NEW j \in 1..Len(Units), i <= j
    PROVE  \E q \in Nat \ {0} : Units[j] = q * Units[i]
<1> DEFINE a == Units[j]
           u == Units[i]
           q == a \div u
<1>1. a \in Nat \ {0} /\ u \in Nat \ {0} /\ a % u = 0
  BY UnitFacts, UnitsAssumption
<1> HIDE DEF a, u
<1>2. q \in Nat /\ a = q * u
  BY <1>1, DivFacts
<1> HIDE DEF q
<1>3. q # 0
  BY <1>1, <1>2
<1> QED BY <1>2, <1>3 DEF a, u

(* If a duration can be expressed at a unit, it can at every coarser one.  *)
LEMMA CoarserFits ==
    ASSUME NEW n \in Nat \ {0}, NEW i \in 1..Len(Units), NEW j \in 1..Len(Units), i <= j,
           Fits(n, i)
    PROVE  Fits(n, j)
<1> DEFINE u == Units[i]
           w == Units[j]
           c == RoundUp(n, u)
<1>1. PICK q \in Nat \ {0} : w = q * u
  BY Multiple
<1>2. u \in Nat \ {0} /\ w \in Nat \ {0}
  BY UnitFacts
<1>3. c \in Nat \ {0} /\ n <= c * u /\ c <= MaxValue
  BY <1>2, RoundUpFacts DEF Fits
<1> HIDE DEF u, w, c
<1>4. u <= w
  BY <1>1, <1>2
<1>5. c * u <= c * w
  BY <1>2, <1>3, <1>4
<1>6. n <= c * w
  BY <1>2, <1>3, <1>5
<1>7. RoundUp(n, w) <= c /\ RoundUp(n, w) \in Nat
  BY <1>2, <1>3, <1>6, RoundUpLeast, RoundUpFacts
<1>8. RoundUp(n, w) <= MaxValue
  BY <1>3, <1>7, LimitsAssumption
<1> QED BY <1>8 DEF Fits, w

(* Every duration up to MaxNs has a unit that FormatTimeout takes.         *)
LEMMA SomeUsable ==
    ASSUME NEW n \in 1..MaxNs
    PROVE  Usable(n) # {}
<1> DEFINE k == Len(Units)
           u == Units[k]
<1>1. k \in 1..Len(Units) /\ k \in Nat \ {0} /\ u \in Nat \ {0}
  BY UnitsAssumption
<1>2. n \in Nat \ {0} /\ MaxValue \in Nat /\ n <= MaxValue * u
  <2>1. MaxValue \in Nat \ {0} /\ MaxNs \in Nat /\ MaxNs <= MaxValue * u
    BY LimitsAssumption
  <2>2. MaxValue * u \in Nat
    <3> HIDE DEF u
    <3> QED BY <1>1, <2>1
  <2> HIDE DEF u
  <2> QED BY <2>1, <2>2
<1>3. RoundUp(n, u) <= MaxValue
  <2> HIDE DEF u, k
  <2> QED BY <1>1, <1>2, RoundUpLeast
<1>4. Fits(n, k) /\ ~Coarser(n, k)
  BY <1>1, <1>3 DEF Fits, Coarser
<1> QED BY <1>1, <1>4 DEF Usable

(* The unit that FormatTimeout takes expresses the best duration.          *)
LEMMA BestUnit ==
    ASSUME NEW n \in 1..MaxNs, NEW k \in Usable(n), \A i \in Usable(n) : k <= i,
           NEW v \in 1..MaxValue, NEW i \in 1..Len(Units), n <= v * Units[i]
    PROVE  RoundUp(n, Units[k]) * Units[k] <= v * Units[i]
<1> DEFINE u == Units[k]
           w == Units[i]
           c == RoundUp(n, u)
<1>1. k \in 1..Len(Units) /\ k \in Nat /\ i \in Nat /\ Fits(n, k) /\ ~Coarser(n, k)
  BY DEF Usable
<1>2. /\ n \in Nat \ {0} /\ v \in Nat /\ MaxValue \in Nat
      /\ u \in Nat \ {0} /\ w \in Nat \ {0}
  BY <1>1, UnitFacts, LimitsAssumption
<1>3. Fits(n, i)
  <2>1. RoundUp(n, w) <= v /\ RoundUp(n, w) \in Nat
    <3> HIDE DEF w
    <3>1. n <= v * w
      BY DEF w
    <3> QED BY <1>2, <3>1, RoundUpLeast, RoundUpFacts
  <2> QED BY <1>2, <2>1 DEF Fits
<1>4. CASE k <= i
  <2>1. PICK q \in Nat \ {0} : w = q * u
    BY <1>1, <1>4, Multiple
  <2> HIDE DEF u, w
  <2>2. v * w = (v * q) * u /\ v * q \in Nat
    BY <1>2, <2>1
  <2>3. n <= (v * q) * u
    BY <2>2 DEF w
  <2>4. c <= v * q /\ c \in Nat
    <3> DEFINE y == v * q
    <3>1. y \in Nat /\ n <= y * u
      BY <2>2, <2>3
    <3> HIDE DEF y
    <3>2. c <= y /\ c \in Nat
      BY <1>2, <3>1, RoundUpLeast, RoundUpFacts
    <3> QED BY <3>2 DEF y
  <2>5. c * u <= (v * q) * u
    <3> DEFINE y == v * q
    <3>1. y \in Nat /\ c <= y
      BY <2>2, <2>4
    <3> HIDE DEF y, c
    <3>2. c * u <= y * u
      BY <1>2, <2>4, <3>1, TimesMonotone
    <3> QED BY <3>2 DEF y
  <2> QED BY <2>2, <2>5 DEF u, w
<1>5. CASE i < k
  (* The unit before k fits too, so it was passed over for an exact one.   *)
  <2>1. k - 1 \in 1..Len(Units) /\ i <= k - 1 /\ k - 1 < Len(Units) /\ (k - 1) + 1 = k
    BY <1>1, <1>5, UnitFacts
  <2>2. Fits(n, k - 1)
    BY <1>2, <1>3, <2>1, CoarserFits
  <2>3. k - 1 \notin Usable(n)
    BY <1>1
  <2>4. Coarser(n, k - 1)
    BY <2>1, <2>2, <2>3 DEF Usable
  <2>5. n % u = 0
    BY <2>1, <2>4 DEF Coarser
  <2>6. c * u = n
    <3> HIDE DEF u
    <3> QED BY <1>2, <2>5, RoundUpExact
  <2> QED BY <2>6
<1> QED BY <1>1, <1>4, <1>5

(* What the peer reads is the shortest expressible duration that is not    *)
(* shorter than what was asked for, or none if that is over the limit.     *)
LEMMA TimeoutCarries ==
    ASSUME NEW n \in 1..MaxNs
    PROVE  LET best == Min({d \in Expressible : d >= n})
           IN  ParseTimeout(FormatTimeout(n)) = IF best > MaxNs THEN 0 ELSE best
<1> DEFINE k == Min(Usable(n))
           u == Units[k]
           c == RoundUp(n, u)
           D == {d \in Expressible : d >= n}
<1>1. k \in Usable(n) /\ \A i \in Usable(n) : k <= i
  <2>1. Usable(n) \in SUBSET Nat
    BY DEF Usable
  <2> QED BY <2>1, SomeUsable, MinFacts
<1>2. FormatTimeout(n) = <<c, k>>
  BY <1>1, FormatIs
<1> HIDE DEF k
<1>3. k \in 1..Len(Units) /\ n \in Nat \ {0} /\ u \in Nat \ {0} /\ MaxNs \in Nat
  BY <1>1, UnitFacts, LimitsAssumption DEF Usable
<1>4. c \in Nat \ {0} /\ n <= c * u /\ c <= MaxValue /\ c * u \in Nat
  <2>1. c \in Nat \ {0} /\ n <= c * u
    <3> HIDE DEF u
    <3> QED BY <1>3, RoundUpFacts
  <2>2. c <= MaxValue
    BY <1>1 DEF Usable, Fits
  <2> HIDE DEF c, u
  <2> QED BY <1>3, <2>1, <2>2
<1>5. D \in SUBSET Nat
  <2> SUFFICES ASSUME NEW d \in Expressible PROVE d \in Nat
    OBVIOUS
  <2>1. PICK v \in 1..MaxValue, i \in 1..Len(Units) : d = v * Units[i]
    BY DEF Expressible
  <2>2. v \in Nat /\ Units[i] \in Nat
    BY UnitFacts
  <2> QED BY <2>1, <2>2
<1>6. c * u \in D
  <2>1. c \in 1..MaxValue
    BY <1>4, LimitsAssumption
  <2>2. c * u \in Expressible
    BY <1>3, <2>1 DEF Expressible
  <2> HIDE DEF c, u
  <2> QED BY <1>3, <1>4, <2>2
<1>7. ASSUME NEW d \in D PROVE c * u <= d
  <2>1. PICK v \in 1..MaxValue, i \in 1..Len(Units) : d = v * Units[i]
    BY <1>7 DEF Expressible
  <2>2. n <= v * Units[i]
    BY <1>5, <1>7, <2>1, <1>3
  <2> QED BY <1>1, <2>1, <2>2, BestUnit
<1>8. Min(D) = c * u
  <2> HIDE DEF D, c, u
  <2> QED BY <1>5, <1>6, <1>7, MinIs
<1>9. ParseTimeout(FormatTimeout(n)) = IF c > MaxNs \div u THEN 0 ELSE c * u
  BY <1>2 DEF ParseTimeout
<1>10. c > MaxNs \div u <=> c * u > MaxNs
  <2> HIDE DEF c, u
  <2> QED BY <1>3, <1>4, DivCompares
<1> HIDE DEF c, u
<1>11. ParseTimeout(FormatTimeout(n)) = IF Min(D) > MaxNs THEN 0 ELSE Min(D)
  BY <1>8, <1>9, <1>10
<1> QED BY <1>11

-----------------------------------------------------------------------------
(* Loops                                                                    *)

(* h goes from a through n turns over states of A; g[k] is the turn k.     *)
Turns(h, A, a, n, g) ==
    h \in [0..n -> A] /\ h[0] = a /\ \A k \in 1..n : h[k] = g[k][h[k - 1]]

(* Such a loop has a run.                                                  *)
LEMMA LoopRuns ==
    ASSUME NEW A, NEW a \in A, NEW n \in Nat, NEW g \in [1..n -> [A -> A]]
    PROVE  \E h : Turns(h, A, a, n, g)
<1> DEFINE Run(h, k) == h \in [0..k -> A] /\ h[0] = a /\ \A j \in 1..k : h[j] = g[j][h[j - 1]]
           T == {k \in Nat : k <= n => \E h : Run(h, k)}
<1>1. 0 \in T
  <2> DEFINE h == [j \in 0..0 |-> a]
  <2>1. h \in [0..0 -> A] /\ h[0] = a /\ 1..0 = {}
    OBVIOUS
  <2> HIDE DEF h
  <2>2. Run(h, 0)
    BY <2>1
  <2> QED BY <2>2
<1>2. ASSUME NEW k \in T PROVE k + 1 \in T
  <2> SUFFICES ASSUME k + 1 <= n PROVE \E h : Run(h, k + 1)
    OBVIOUS
  <2>1. k \in Nat /\ k + 1 \in 1..n /\ \E h : Run(h, k)
    OBVIOUS
  <2>2. PICK h : Run(h, k)
    BY <2>1
  <2> DEFINE f == [j \in 0..(k + 1) |-> IF j = k + 1 THEN g[k + 1][h[k]] ELSE h[j]]
  <2>3. h[k] \in A /\ g[k + 1] \in [A -> A]
    BY <2>1, <2>2
  <2>4. f \in [0..(k + 1) -> A] /\ (\A j \in 0..k : f[j] = h[j]) /\ f[k + 1] = g[k + 1][h[k]]
    BY <2>1, <2>2, <2>3
  <2> HIDE DEF f
  <2>5. f[0] = a
    BY <2>1, <2>2, <2>4
  <2>6. ASSUME NEW j \in 1..(k + 1) PROVE f[j] = g[j][f[j - 1]]
    <3>1. CASE j = k + 1
      <4>1. j - 1 = k /\ k \in 0..k
        BY <2>1, <3>1
      <4> QED BY <2>4, <3>1, <4>1
    <3>2. CASE j # k + 1
      <4>1. j \in 1..k /\ j \in 0..k /\ j - 1 \in 0..k
        BY <2>1, <3>2
      <4> QED BY <2>2, <2>4, <4>1
    <3> QED BY <3>1, <3>2
  <2>7. Run(f, k + 1)
    BY <2>4, <2>5, <2>6
  <2> QED BY <2>7
<1>3. T = Nat
  <2>1. T \in SUBSET Nat
    OBVIOUS
  <2> HIDE DEF T
  <2> QED BY <1>1, <1>2, <2>1, Induction
<1>4. n \in T
  BY <1>3
<1>5. PICK h : Run(h, n)
  BY <1>4
<1>6. Turns(h, A, a, n, g)
  BY <1>5 DEF Turns
<1> QED BY <1>6

-----------------------------------------------------------------------------
(* Sequences                                                                *)

(* Concatenation, of sequences over any set: its length and its elements.  *)
LEMMA JoinLen ==
    ASSUME NEW S, NEW r \in Seq(S), NEW a \in Seq(S)
    PROVE  /\ r \o a \in Seq(S) /\ Len(r \o a) = Len(r) + Len(a)
           /\ Len(r) \in Nat /\ Len(a) \in Nat
OBVIOUS

LEMMA JoinAt ==
    ASSUME NEW S, NEW r \in Seq(S), NEW a \in Seq(S)
    PROVE  /\ \A i \in 1..Len(r) : (r \o a)[i] = r[i]
           /\ \A i \in 1..Len(a) : (r \o a)[Len(r) + i] = a[i]
OBVIOUS

-----------------------------------------------------------------------------
(* Decoding copies its source, element by element.                          *)

Copied(out, s, c) == Len(out) = c /\ \A i \in 1..c : out[i] = s[i]

LEMMA CopyOne ==
    ASSUME NEW S, NEW s \in Seq(S), NEW out \in Seq(S), NEW c \in Nat, Copied(out, s, c),
           c + 1 <= Len(s), NEW x, x = s[c + 1]
    PROVE  Append(out, x) \in Seq(S) /\ Copied(Append(out, x), s, c + 1)
<1>1. x \in S
  OBVIOUS
<1>2. Append(out, x) \in Seq(S) /\ Len(Append(out, x)) = c + 1
  BY <1>1 DEF Copied
<1>3. ASSUME NEW i \in 1..(c + 1) PROVE Append(out, x)[i] = s[i]
  <2>1. CASE i = c + 1
    BY <2>1 DEF Copied
  <2>2. CASE i # c + 1
    <3>1. i \in 1..c /\ i \in 1..Len(out)
      BY <2>2 DEF Copied
    <3> QED BY <3>1 DEF Copied
  <2> QED BY <2>1, <2>2
<1> QED BY <1>2, <1>3 DEF Copied

LEMMA CopyAll ==
    ASSUME NEW S, NEW s \in Seq(S), NEW out \in Seq(S), Copied(out, s, Len(s))
    PROVE  out = s
BY DEF Copied

-----------------------------------------------------------------------------
(* Base64                                                                   *)

Bits == [buf : Nat, bits : 0..3, out : Seq(Byte)]

NoBits == [buf |-> 0, bits |-> 0, out |-> <<>>]

LEMMA BitsFields ==
    ASSUME NEW r, NEW u \in Nat, NEW v \in 0..3, NEW o \in Seq(Byte),
           r = [buf |-> u, bits |-> v, out |-> o]
    PROVE  r \in Bits /\ r.buf = u /\ r.bits = v /\ r.out = o
BY DEF Bits

(* What a digit does, by the number of bits that are left from before.     *)
LEMMA DigitFacts ==
    ASSUME NEW acc \in Bits, NEW d \in 0..7
    PROVE  LET next == DecodeDigit(acc, d) IN
           /\ next \in Bits
           /\ acc.bits = 0 => next.bits = 3 /\ next.out = acc.out /\ next.buf % 8 = d
           /\ acc.bits = 3 => /\ next.bits = 2 /\ next.buf % 4 = d % 4
                              /\ next.out = Append(acc.out, ((acc.buf % 8) * 8 + d) \div 4)
           /\ acc.bits = 2 => /\ next.bits = 1 /\ next.buf % 2 = d % 2
                              /\ next.out = Append(acc.out, ((acc.buf % 4) * 8 + d) \div 2)
           /\ acc.bits = 1 => /\ next.bits = 0
                              /\ next.out = Append(acc.out, (acc.buf % 2) * 8 + d)
<1> DEFINE next == DecodeDigit(acc, d)
           b    == acc.buf
           buf  == (b * 8 + d) % 65536
<1>1. b \in Nat /\ acc.bits \in 0..3 /\ acc.out \in Seq(Byte)
  BY DEF Bits
<1>2. buf \in Nat
  <2> HIDE DEF b
  <2> QED BY <1>1
<1>3. CASE acc.bits = 0
  <2>1. next = [buf |-> buf, bits |-> 3, out |-> acc.out]
    <3>1. next = [acc EXCEPT !.buf = buf, !.bits = 3]
      BY <1>3 DEF DecodeDigit
    <3> HIDE DEF next, buf
    <3> QED BY <3>1 DEF Bits
  <2>2. buf % 8 = d
    <3> HIDE DEF b
    <3> QED BY <1>1
  <2>3. 3 \in 0..3
    OBVIOUS
  <2> HIDE DEF next, buf
  <2>4. next \in Bits /\ next.bits = 3 /\ next.out = acc.out /\ next.buf = buf
    BY <1>1, <1>2, <2>1, <2>3, BitsFields
  <2> QED BY <1>3, <2>2, <2>4 DEF next
<1>4. CASE acc.bits = 3
  <2>1. next = [buf |-> buf, bits |-> 2, out |-> Append(acc.out, (buf \div 4) % 16)]
    <3> HIDE DEF buf
    <3> QED BY <1>4 DEF DecodeDigit, buf, b
  <2>2. (buf \div 4) % 16 = ((b % 8) * 8 + d) \div 4 /\ (buf \div 4) % 16 \in Byte
    <3> HIDE DEF b
    <3> QED BY <1>1 DEF Byte
  <2> DEFINE o == Append(acc.out, (buf \div 4) % 16)
  <2>3. o \in Seq(Byte)
    <3> HIDE DEF buf
    <3> QED BY <1>1, <2>2
  <2>4. next = [buf |-> buf, bits |-> 2, out |-> o]
    BY <2>1
  <2>5. 2 \in 0..3
    OBVIOUS
  <2> HIDE DEF o, next, buf
  <2>6. next \in Bits /\ next.bits = 2 /\ next.out = o /\ next.buf = buf
    BY <1>2, <2>3, <2>4, <2>5, BitsFields
  <2>7. o = Append(acc.out, ((b % 8) * 8 + d) \div 4)
    BY <2>2 DEF o
  <2>8. buf % 4 = d % 4
    <3> HIDE DEF b
    <3> QED BY <1>1 DEF buf
  <2> QED BY <1>4, <2>6, <2>7, <2>8 DEF next
<1>5. CASE acc.bits = 2
  <2>1. next = [buf |-> buf, bits |-> 1, out |-> Append(acc.out, (buf \div 2) % 16)]
    <3> HIDE DEF buf
    <3> QED BY <1>5 DEF DecodeDigit, buf, b
  <2>2. (buf \div 2) % 16 = ((b % 4) * 8 + d) \div 2 /\ (buf \div 2) % 16 \in Byte
    <3> HIDE DEF b
    <3> QED BY <1>1 DEF Byte
  <2> DEFINE o == Append(acc.out, (buf \div 2) % 16)
  <2>3. o \in Seq(Byte)
    <3> HIDE DEF buf
    <3> QED BY <1>1, <2>2
  <2>4. next = [buf |-> buf, bits |-> 1, out |-> o]
    BY <2>1
  <2>5. 1 \in 0..3
    OBVIOUS
  <2> HIDE DEF o, next, buf
  <2>6. next \in Bits /\ next.bits = 1 /\ next.out = o /\ next.buf = buf
    BY <1>2, <2>3, <2>4, <2>5, BitsFields
  <2>7. o = Append(acc.out, ((b % 4) * 8 + d) \div 2)
    BY <2>2 DEF o
  <2>8. buf % 2 = d % 2
    <3> HIDE DEF b
    <3> QED BY <1>1 DEF buf
  <2> QED BY <1>5, <2>6, <2>7, <2>8 DEF next
<1>6. CASE acc.bits = 1
  <2>1. next = [buf |-> buf, bits |-> 0, out |-> Append(acc.out, (buf \div 1) % 16)]
    <3> HIDE DEF buf
    <3> QED BY <1>6 DEF DecodeDigit, buf, b
  <2>2. (buf \div 1) % 16 = (b % 2) * 8 + d /\ (buf \div 1) % 16 \in Byte
    <3> HIDE DEF b
    <3> QED BY <1>1 DEF Byte
  <2> DEFINE o == Append(acc.out, (buf \div 1) % 16)
  <2>3. o \in Seq(Byte)
    <3> HIDE DEF buf
    <3> QED BY <1>1, <2>2
  <2>4. next = [buf |-> buf, bits |-> 0, out |-> o]
    BY <2>1
  <2>5. 0 \in 0..3
    OBVIOUS
  <2> HIDE DEF o, next, buf
  <2>6. next \in Bits /\ next.bits = 0 /\ next.out = o /\ next.buf = buf
    BY <1>2, <2>3, <2>4, <2>5, BitsFields
  <2>7. o = Append(acc.out, (b % 2) * 8 + d)
    BY <2>2 DEF o
  <2> QED BY <1>6, <2>6, <2>7 DEF next
<1> HIDE DEF next
<1>7. acc.bits \in {0, 1, 2, 3}
  BY <1>1
<1> QED BY <1>3, <1>4, <1>5, <1>6, <1>7

(* DecodeBase64 is a run of DecodeDigit.                                   *)
LEMMA DecodeBase64Runs ==
    ASSUME NEW s \in Seq(0..7)
    PROVE  \E h : /\ h[0] = NoBits
                  /\ \A k \in 1..Len(s) : h[k] = DecodeDigit(h[k - 1], s[k])
                  /\ DecodeBase64(s) = h[Len(s)].out
<1> DEFINE n     == Len(s)
           Is(h) == h = [k \in 0..n |-> IF k = 0 THEN NoBits ELSE DecodeDigit(h[k - 1], s[k])]
           g     == [k \in 1..n |-> [acc \in Bits |-> DecodeDigit(acc, s[k])]]
           c     == CHOOSE h : Is(h)
<1>1. n \in Nat /\ NoBits \in Bits
  BY DEF NoBits, Bits
<1>2. \A k \in 1..n : s[k] \in 0..7
  OBVIOUS
<1>3. DecodeBase64(s) = c[n].out
  BY DEF DecodeBase64, NoBits
<1> HIDE DEF n, c
<1>4. g \in [1..n -> [Bits -> Bits]]
  <2>1. \A k \in 1..n, acc \in Bits : DecodeDigit(acc, s[k]) \in Bits
    BY <1>2, DigitFacts
  <2> QED BY <2>1
<1>5. PICK f : Turns(f, Bits, NoBits, n, g)
  <2> HIDE DEF g
  <2> QED BY <1>1, <1>4, LoopRuns
<1>6. Is(f)
  <2>1. ASSUME NEW k \in 0..n
        PROVE  f[k] = IF k = 0 THEN NoBits ELSE DecodeDigit(f[k - 1], s[k])
    <3>1. CASE k = 0
      BY <1>5, <3>1 DEF Turns
    <3>2. CASE k # 0
      <4>1. k \in 1..n /\ k - 1 \in 0..n
        BY <1>1, <3>2
      <4> QED BY <1>5, <3>2, <4>1 DEF Turns
    <3> QED BY <3>1, <3>2
  <2> QED BY <1>5, <2>1 DEF Turns
<1>7. Is(c)
  BY <1>6 DEF c
<1>8. \A k \in 0..n : c[k] = IF k = 0 THEN NoBits ELSE DecodeDigit(c[k - 1], s[k])
  BY <1>7
<1>9. c[0] = NoBits /\ \A k \in 1..n : c[k] = DecodeDigit(c[k - 1], s[k])
  <2>1. 0 \in 0..n /\ \A k \in 1..n : k \in 0..n /\ k # 0
    BY <1>1
  <2> QED BY <1>8, <2>1
<1> QED BY <1>3, <1>9 DEF n

ByteAt(data, i) == IF i <= Len(data) THEN data[i] ELSE 0

LEMMA ByteType ==
    ASSUME NEW data \in Seq(Byte), NEW i \in Nat \ {0}
    PROVE  ByteAt(data, i) \in Byte
BY DEF ByteAt, Byte

(* The digits of three bytes.                                              *)
LEMMA DigitsOf ==
    ASSUME NEW a \in Byte, NEW b \in Byte, NEW c \in Byte, NEW v, v = a * 256 + b * 16 + c
    PROVE  /\ Digit(v, 0) = a \div 2 /\ Digit(v, 1) = (a % 2) * 4 + b \div 4
           /\ Digit(v, 2) = (b % 4) * 2 + c \div 8 /\ Digit(v, 3) = c % 8
<1>1. Digit(v, 0) = (v \div 512) % 8 /\ Digit(v, 1) = (v \div 64) % 8
  BY DEF Digit
<1>2. Digit(v, 2) = (v \div 8) % 8 /\ Digit(v, 3) = (v \div 1) % 8
  BY DEF Digit
<1>3. (v \div 512) % 8 = a \div 2
  BY DEF Byte
<1>4. (v \div 64) % 8 = (a % 2) * 4 + b \div 4
  BY DEF Byte
<1>5. (v \div 8) % 8 = (b % 4) * 2 + c \div 8
  BY DEF Byte
<1>6. (v \div 1) % 8 = c % 8
  BY DEF Byte
<1> QED BY <1>1, <1>2, <1>3, <1>4, <1>5, <1>6

(* And how DecodeDigit puts them together again.                           *)
LEMMA BytesOf ==
    ASSUME NEW a \in Byte, NEW b \in Byte, NEW c \in Byte
    PROVE  /\ a \div 2 \in 0..7 /\ (a % 2) * 4 + b \div 4 \in 0..7
           /\ (b % 4) * 2 + c \div 8 \in 0..7 /\ c % 8 \in 0..7
           /\ ((a \div 2) * 8 + ((a % 2) * 4 + b \div 4)) \div 4 = a
           /\ ((a % 2) * 4 + b \div 4) % 4 = b \div 4
           /\ ((b \div 4) * 8 + ((b % 4) * 2 + c \div 8)) \div 2 = b
           /\ ((b % 4) * 2 + c \div 8) % 2 = c \div 8
           /\ (c \div 8) * 8 + (c % 8) = c
<1>1. a \div 2 \in 0..7 /\ c % 8 \in 0..7
  BY DEF Byte
<1>2. (a % 2) * 4 + b \div 4 \in 0..7 /\ ((a % 2) * 4 + b \div 4) % 4 = b \div 4
  BY DEF Byte
<1>3. (b % 4) * 2 + c \div 8 \in 0..7 /\ ((b % 4) * 2 + c \div 8) % 2 = c \div 8
  BY DEF Byte
<1>4. ((a \div 2) * 8 + ((a % 2) * 4 + b \div 4)) \div 4 = a
  BY DEF Byte
<1>5. ((b \div 4) * 8 + ((b % 4) * 2 + c \div 8)) \div 2 = b
  BY DEF Byte
<1>6. (c \div 8) * 8 + (c % 8) = c
  <2>1. c \in Nat /\ 8 \in Nat \ {0}
    BY DEF Byte
  <2> QED BY <2>1, DivFacts
<1> QED BY <1>1, <1>2, <1>3, <1>4, <1>5, <1>6

(* Between j = 0 and 3 digits of group g have been decoded.                *)
Decoded(acc, data, g, j) ==
    /\ acc \in Bits
    /\ Copied(acc.out, data, 3 * g + (IF j = 0 THEN 0 ELSE j - 1))
    /\ j = 0 => acc.bits = 0
    /\ j = 1 => acc.bits = 3 /\ acc.buf % 8 = ByteAt(data, 3 * g + 1) \div 2
    /\ j = 2 => acc.bits = 2 /\ acc.buf % 4 = ByteAt(data, 3 * g + 2) \div 4
    /\ j = 3 => acc.bits = 1 /\ acc.buf % 2 = ByteAt(data, 3 * g + 3) \div 8

LEMMA DigitStep ==
    ASSUME NEW data \in Seq(Byte), NEW g \in Nat, NEW j \in 0..3, NEW acc,
           4 * g + j < (4 * Len(data) + 2) \div 3, Decoded(acc, data, g, j)
    PROVE  LET next == DecodeDigit(acc, Digit(Group(data, g), j))
           IN  IF j = 3 THEN Decoded(next, data, g + 1, 0) ELSE Decoded(next, data, g, j + 1)
<1> DEFINE a == ByteAt(data, 3 * g + 1)
           b == ByteAt(data, 3 * g + 2)
           c == ByteAt(data, 3 * g + 3)
           v == Group(data, g)
           d == Digit(v, j)
           next == DecodeDigit(acc, d)
           n == Len(data)
<1>1. a \in Byte /\ b \in Byte /\ c \in Byte
  BY ByteType
<1>2. v = a * 256 + b * 16 + c
  BY DEF Group, ByteAt
<1>3. n \in Nat /\ 3 * (4 * g + j + 1) <= 4 * n + 2
  OBVIOUS
<1>4. acc \in Bits /\ acc.out \in Seq(Byte)
  BY DEF Decoded, Bits
<1> HIDE DEF a, b, c, v
<1>5. /\ Digit(v, 0) = a \div 2 /\ Digit(v, 1) = (a % 2) * 4 + b \div 4
      /\ Digit(v, 2) = (b % 4) * 2 + c \div 8 /\ Digit(v, 3) = c % 8
  BY <1>1, <1>2, DigitsOf
<1>6. d \in 0..7
  BY <1>1, <1>5, BytesOf
<1> HIDE DEF d
<1>7. /\ next \in Bits
      /\ acc.bits = 0 => next.bits = 3 /\ next.out = acc.out /\ next.buf % 8 = d
      /\ acc.bits = 3 => /\ next.bits = 2 /\ next.buf % 4 = d % 4
                         /\ next.out = Append(acc.out, ((acc.buf % 8) * 8 + d) \div 4)
      /\ acc.bits = 2 => /\ next.bits = 1 /\ next.buf % 2 = d % 2
                         /\ next.out = Append(acc.out, ((acc.buf % 4) * 8 + d) \div 2)
      /\ acc.bits = 1 => /\ next.bits = 0
                         /\ next.out = Append(acc.out, (acc.buf % 2) * 8 + d)
  BY <1>4, <1>6, DigitFacts
<1> HIDE DEF next
<1>8. CASE j = 0
  <2>1. acc.bits = 0 /\ Copied(acc.out, data, 3 * g)
    BY <1>8 DEF Decoded
  <2>2. next.bits = 3 /\ next.out = acc.out /\ next.buf % 8 = a \div 2
    BY <1>5, <1>7, <1>8, <2>1 DEF d
  <2>3. Decoded(next, data, g, 1)
    BY <1>7, <2>1, <2>2 DEF Decoded, a
  <2> QED BY <1>8, <2>3 DEF next, d, v
<1>9. CASE j = 1
  <2>1. acc.bits = 3 /\ Copied(acc.out, data, 3 * g) /\ acc.buf % 8 = a \div 2
    BY <1>9 DEF Decoded, a
  <2>2. d = (a % 2) * 4 + b \div 4
    BY <1>5, <1>9 DEF d
  <2>3. /\ next.bits = 2 /\ next.buf % 4 = b \div 4 /\ next.out = Append(acc.out, a)
    <3>1. /\ ((a \div 2) * 8 + ((a % 2) * 4 + b \div 4)) \div 4 = a
          /\ ((a % 2) * 4 + b \div 4) % 4 = b \div 4
      BY <1>1, BytesOf
    <3>2. ((acc.buf % 8) * 8 + d) \div 4 = a /\ d % 4 = b \div 4
      BY <2>1, <2>2, <3>1
    <3> QED BY <1>7, <2>1, <3>2
  <2>4. 3 * g + 1 <= n /\ a = data[3 * g + 1] /\ 3 * g \in Nat
    BY <1>3, <1>9 DEF a, ByteAt
  <2>5. Copied(next.out, data, 3 * g + 1)
    BY <1>4, <2>1, <2>3, <2>4, CopyOne
  <2>6. Decoded(next, data, g, 2)
    BY <1>7, <2>3, <2>5 DEF Decoded, b
  <2> QED BY <1>9, <2>6 DEF next, d, v
<1>10. CASE j = 2
  <2>1. acc.bits = 2 /\ Copied(acc.out, data, 3 * g + 1) /\ acc.buf % 4 = b \div 4
    BY <1>10 DEF Decoded, b
  <2>2. d = (b % 4) * 2 + c \div 8
    BY <1>5, <1>10 DEF d
  <2>3. /\ next.bits = 1 /\ next.buf % 2 = c \div 8 /\ next.out = Append(acc.out, b)
    <3>1. /\ ((b \div 4) * 8 + ((b % 4) * 2 + c \div 8)) \div 2 = b
          /\ ((b % 4) * 2 + c \div 8) % 2 = c \div 8
      BY <1>1, BytesOf
    <3>2. ((acc.buf % 4) * 8 + d) \div 2 = b /\ d % 2 = c \div 8
      BY <2>1, <2>2, <3>1
    <3> QED BY <1>7, <2>1, <3>2
  <2>4. 3 * g + 2 <= n /\ b = data[(3 * g + 1) + 1] /\ 3 * g + 1 \in Nat
    BY <1>3, <1>10 DEF b, ByteAt
  <2>5. Copied(next.out, data, (3 * g + 1) + 1) /\ (3 * g + 1) + 1 = 3 * g + 2
    BY <1>4, <2>1, <2>3, <2>4, CopyOne
  <2>6. Decoded(next, data, g, 3)
    BY <1>7, <2>3, <2>5 DEF Decoded, c
  <2> QED BY <1>10, <2>6 DEF next, d, v
<1>11. CASE j = 3
  <2>1. acc.bits = 1 /\ Copied(acc.out, data, 3 * g + 2) /\ acc.buf % 2 = c \div 8
    BY <1>11 DEF Decoded, c
  <2>2. d = c % 8
    BY <1>5, <1>11 DEF d
  <2>3. next.bits = 0 /\ next.out = Append(acc.out, c)
    <3> DEFINE q == c \div 8
               r == c % 8
               x == acc.buf % 2
    <3>1. q * 8 + r = c /\ x = q /\ d = r
      BY <1>1, <2>1, <2>2, BytesOf
    <3> HIDE DEF q, r, x
    <3>2. x * 8 + d = c
      BY <3>1
    <3>3. (acc.buf % 2) * 8 + d = c
      BY <3>2 DEF x
    <3> QED BY <1>7, <2>1, <3>3
  <2>4. 3 * g + 3 <= n /\ c = data[(3 * g + 2) + 1] /\ 3 * g + 2 \in Nat
    BY <1>3, <1>11 DEF c, ByteAt
  <2>5. Copied(next.out, data, (3 * g + 2) + 1) /\ (3 * g + 2) + 1 = 3 * (g + 1)
    BY <1>4, <2>1, <2>3, <2>4, CopyOne
  <2>6. Decoded(next, data, g + 1, 0)
    BY <1>7, <2>3, <2>5 DEF Decoded
  <2> QED BY <1>11, <2>6 DEF next, d, v
<1> QED BY <1>8, <1>9, <1>10, <1>11

(* What is encoded decodes to what it was, for any number of bytes.        *)
LEMMA Base64RoundTrip ==
    ASSUME NEW data \in Seq(Byte)
    PROVE  DecodeBase64(EncodeBase64(data)) = data
<1> DEFINE n == Len(data)
           K == (4 * n + 2) \div 3
           s == EncodeBase64(data)
           digit(i) == Digit(Group(data, (i - 1) \div 4), (i - 1) % 4)
<1>1. n \in Nat
  OBVIOUS
<1> HIDE DEF n
<1>2. K \in Nat
  BY <1>1
<1>3. ASSUME NEW i \in 1..K PROVE digit(i) \in 0..7
  <2> DEFINE g == (i - 1) \div 4
             j == (i - 1) % 4
  <2>1. g \in Nat /\ j \in 0..3
    <3>1. i \in Nat /\ i >= 1
      BY <1>2
    <3> QED BY <3>1
  <2> HIDE DEF g, j
  <2>2. ByteAt(data, 3 * g + 1) \in Byte /\ ByteAt(data, 3 * g + 2) \in Byte
        /\ ByteAt(data, 3 * g + 3) \in Byte
    BY <2>1, ByteType
  <2>3. Group(data, g) = ByteAt(data, 3 * g + 1) * 256 + ByteAt(data, 3 * g + 2) * 16
                           + ByteAt(data, 3 * g + 3)
    BY DEF Group, ByteAt
  <2>4. Group(data, g) \in Nat
    <3> DEFINE x == ByteAt(data, 3 * g + 1)
               y == ByteAt(data, 3 * g + 2)
               z == ByteAt(data, 3 * g + 3)
    <3>1. x \in Byte /\ y \in Byte /\ z \in Byte
      BY <2>2
    <3>2. Group(data, g) = x * 256 + y * 16 + z
      BY <2>3
    <3> HIDE DEF x, y, z
    <3>3. x \in Nat /\ y \in Nat /\ z \in Nat
      BY <3>1 DEF Byte
    <3> QED BY <3>2, <3>3
  <2>5. Digit(Group(data, g), j) \in 0..7
    <3> DEFINE v == Group(data, g)
               w == <<512, 64, 8, 1>>[j + 1]
    <3>1. w \in Nat \ {0}
      BY <2>1
    <3>2. v \div w \in Nat
      <4> HIDE DEF v, w
      <4> QED BY <2>4, <3>1 DEF v
    <3>3. (v \div w) % 8 \in 0..7
      <4> HIDE DEF v, w
      <4> QED BY <3>2
    <3> QED BY <3>3 DEF Digit
  <2> QED BY <2>5 DEF g, j
<1>4. s \in Seq(0..7) /\ Len(s) = K /\ \A i \in 1..K : s[i] = digit(i)
  <2>1. s = [i \in 1..K |-> digit(i)]
    BY DEF EncodeBase64, n
  <2> HIDE DEF s, K, digit
  <2> QED BY <1>2, <1>3, <2>1
<1> HIDE DEF s, digit
<1>5. PICK h : /\ h[0] = NoBits
               /\ \A k \in 1..K : h[k] = DecodeDigit(h[k - 1], s[k])
               /\ DecodeBase64(s) = h[K].out
  <2> HIDE DEF K
  <2> QED BY <1>4, DecodeBase64Runs
<1> DEFINE T == {k \in Nat : k <= K => Decoded(h[k], data, k \div 4, k % 4)}
<1>6. 0 \in T
  <2>1. h[0] \in Bits /\ h[0].bits = 0 /\ h[0].out = <<>>
    BY <1>5 DEF NoBits, Bits
  <2>2. Decoded(h[0], data, 0, 0)
    BY <2>1 DEF Decoded, Copied
  <2>3. 0 \div 4 = 0 /\ 0 % 4 = 0
    OBVIOUS
  <2> QED BY <2>2, <2>3
<1>7. ASSUME NEW k \in T PROVE k + 1 \in T
  <2> SUFFICES ASSUME k + 1 <= K PROVE Decoded(h[k + 1], data, (k + 1) \div 4, (k + 1) % 4)
    OBVIOUS
  <2> DEFINE g == k \div 4
             j == k % 4
  <2>1. k \in Nat /\ Decoded(h[k], data, g, j)
    BY <1>2
  <2>2. g \in Nat /\ j \in 0..3 /\ 4 * g + j = k
    BY <2>1
  <2>3. h[k + 1] = DecodeDigit(h[k], Digit(Group(data, g), j))
    <3>1. k + 1 \in 1..K /\ (k + 1) - 1 = k
      BY <1>2, <2>1
    <3>2. h[k + 1] = DecodeDigit(h[k], s[k + 1]) /\ s[k + 1] = digit(k + 1)
      <4> HIDE DEF K
      <4> QED BY <1>4, <1>5, <3>1
    <3>3. digit(k + 1) = Digit(Group(data, g), j)
      BY <3>1 DEF digit
    <3> QED BY <3>2, <3>3
  <2>4. 4 * g + j < (4 * Len(data) + 2) \div 3
    BY <1>2, <2>1, <2>2 DEF n
  <2>5. CASE j = 3
    <3>1. (k + 1) \div 4 = g + 1 /\ (k + 1) % 4 = 0
      BY <2>1, <2>2, <2>5
    <3> HIDE DEF g, j
    <3>2. Decoded(h[k + 1], data, g + 1, 0)
      BY <2>1, <2>2, <2>3, <2>4, <2>5, DigitStep
    <3> QED BY <3>1, <3>2
  <2>6. CASE j # 3
    <3>1. (k + 1) \div 4 = g /\ (k + 1) % 4 = j + 1
      BY <2>1, <2>2, <2>6
    <3> HIDE DEF g, j
    <3>2. Decoded(h[k + 1], data, g, j + 1)
      BY <2>1, <2>2, <2>3, <2>4, <2>6, DigitStep
    <3> QED BY <3>1, <3>2
  <2> QED BY <2>5, <2>6
<1>8. T = Nat
  <2>1. T \in SUBSET Nat
    OBVIOUS
  <2> HIDE DEF T
  <2> QED BY <1>6, <1>7, <2>1, Induction
<1>9. Decoded(h[K], data, K \div 4, K % 4)
  <2> HIDE DEF K
  <2> QED BY <1>2, <1>8
<1>10. 3 * (K \div 4) + (IF K % 4 = 0 THEN 0 ELSE (K % 4) - 1) = n
  BY <1>1
<1>11. Copied(h[K].out, data, n) /\ h[K].out \in Seq(Byte)
  <2> HIDE DEF K
  <2> QED BY <1>9, <1>10 DEF Decoded, Bits
<1>12. h[K].out = data
  <2> HIDE DEF K
  <2> QED BY <1>11, CopyAll DEF n
<1> QED BY <1>5, <1>12 DEF s

-----------------------------------------------------------------------------
(* The status code                                                          *)

Codes == [code : Nat, bad : BOOLEAN]

NoCode == [code |-> 0, bad |-> FALSE]

(* A digit that keeps the code within 16 is taken.                         *)
LEMMA StatusDigitFacts ==
    ASSUME NEW acc \in Codes, NEW d \in 0..9
    PROVE  /\ StatusDigit(acc, d) \in Codes
           /\ ~acc.bad /\ acc.code * 10 + d <= 16
                => StatusDigit(acc, d) = [code |-> acc.code * 10 + d, bad |-> FALSE]
<1>1. acc.code \in Nat /\ acc.bad \in BOOLEAN
  BY DEF Codes
<1> DEFINE x == acc.code * 10 + d
<1>2. x \in Nat
  BY <1>1
<1>3. StatusDigit(acc, d) = IF acc.bad \/ d \notin 0..9 \/ x > 16
                            THEN [code |-> UNKNOWN, bad |-> TRUE] ELSE [code |-> x, bad |-> FALSE]
  BY DEF StatusDigit
<1> HIDE DEF x
<1>4. [code |-> UNKNOWN, bad |-> TRUE] \in Codes /\ [code |-> x, bad |-> FALSE] \in Codes
  BY <1>2 DEF Codes, UNKNOWN
<1>5. StatusDigit(acc, d) \in Codes
  BY <1>3, <1>4
<1>6. ~acc.bad /\ x <= 16 => StatusDigit(acc, d) = [code |-> x, bad |-> FALSE]
  BY <1>2, <1>3
<1> QED BY <1>5, <1>6 DEF x

(* ParseGrpcStatus is a run of StatusDigit.                                *)
LEMMA ParseGrpcStatusRuns ==
    ASSUME NEW s \in Seq(0..9)
    PROVE  \E h : /\ h[0] = NoCode
                  /\ \A k \in 1..Len(s) : h[k] = StatusDigit(h[k - 1], s[k])
                  /\ ParseGrpcStatus(s) = h[Len(s)].code
<1> DEFINE n     == Len(s)
           Is(h) == h = [k \in 0..n |-> IF k = 0 THEN NoCode ELSE StatusDigit(h[k - 1], s[k])]
           g     == [k \in 1..n |-> [acc \in Codes |-> StatusDigit(acc, s[k])]]
           c     == CHOOSE h : Is(h)
<1>1. n \in Nat /\ NoCode \in Codes
  BY DEF NoCode, Codes
<1>2. ParseGrpcStatus(s) = c[n].code
  BY DEF ParseGrpcStatus, NoCode
<1>3. \A k \in 1..n, acc \in Codes : StatusDigit(acc, s[k]) \in Codes
  <2>1. \A k \in 1..n : s[k] \in 0..9
    OBVIOUS
  <2> QED BY <2>1, StatusDigitFacts
<1> HIDE DEF n, c
<1>4. g \in [1..n -> [Codes -> Codes]]
  BY <1>3
<1>5. PICK f : Turns(f, Codes, NoCode, n, g)
  <2> HIDE DEF g
  <2> QED BY <1>1, <1>4, LoopRuns
<1>6. ASSUME NEW k \in 0..n
      PROVE  f[k] = IF k = 0 THEN NoCode ELSE StatusDigit(f[k - 1], s[k])
  <2>1. CASE k = 0
    BY <1>5, <2>1 DEF Turns
  <2>2. CASE k # 0
    <3>1. k \in 1..n /\ k - 1 \in 0..n
      BY <1>1, <2>2
    <3>2. f[k - 1] \in Codes /\ f[k] = g[k][f[k - 1]]
      BY <1>5, <3>1 DEF Turns
    <3> QED BY <2>2, <3>1, <3>2
  <2> QED BY <2>1, <2>2
<1>7. Is(f)
  BY <1>5, <1>6 DEF Turns
<1>8. Is(c)
  BY <1>7 DEF c
<1>9. 0 \in 0..n /\ \A k \in 1..n : k \in 0..n /\ k # 0
  BY <1>1
<1>10. c[0] = NoCode /\ \A k \in 1..n : c[k] = StatusDigit(c[k - 1], s[k])
  BY <1>8, <1>9
<1> QED BY <1>2, <1>10 DEF n

(* A code of the standard is read as it was written.                       *)
LEMMA StatusRoundTrip ==
    ASSUME NEW c \in 0..16
    PROVE  ParseGrpcStatus(StatusText(c)) = c
<1>1. CASE c < 10
  <2> DEFINE s == <<c>>
  <2>1. StatusText(c) = s /\ s \in Seq(0..9) /\ Len(s) = 1 /\ s[1] = c /\ c \in 0..9
    BY <1>1 DEF StatusText
  <2> HIDE DEF s
  <2>2. PICK h : /\ h[0] = NoCode
                 /\ \A k \in 1..Len(s) : h[k] = StatusDigit(h[k - 1], s[k])
                 /\ ParseGrpcStatus(s) = h[Len(s)].code
    BY <2>1, ParseGrpcStatusRuns
  <2>3. h[1] = StatusDigit(NoCode, c)
    BY <2>1, <2>2
  <2>4. NoCode \in Codes /\ ~NoCode.bad /\ NoCode.code = 0 /\ 0 * 10 + c = c
    BY DEF NoCode, Codes
  <2>5. h[1] = [code |-> c, bad |-> FALSE]
    BY <2>1, <2>3, <2>4, StatusDigitFacts
  <2> QED BY <2>1, <2>2, <2>5
<1>2. CASE c >= 10
  <2> DEFINE d == c - 10
             s == <<1, d>>
  <2>1. c \div 10 = 1 /\ c % 10 = d /\ d \in 0..9 /\ 1 * 10 + d = c
    BY <1>2
  <2> HIDE DEF d
  <2>2. StatusText(c) = s /\ s \in Seq(0..9) /\ Len(s) = 2 /\ s[1] = 1 /\ s[2] = d
    BY <1>2, <2>1 DEF StatusText
  <2> HIDE DEF s
  <2>3. PICK h : /\ h[0] = NoCode
                 /\ \A k \in 1..Len(s) : h[k] = StatusDigit(h[k - 1], s[k])
                 /\ ParseGrpcStatus(s) = h[Len(s)].code
    BY <2>2, ParseGrpcStatusRuns
  <2> DEFINE one == [code |-> 1, bad |-> FALSE]
  <2>4. h[1] = StatusDigit(NoCode, 1) /\ h[2] = StatusDigit(h[1], d)
    BY <2>2, <2>3
  <2>5. NoCode \in Codes /\ ~NoCode.bad /\ NoCode.code * 10 + 1 = 1
    BY DEF NoCode, Codes
  <2>6. h[1] = one
    <3>1. 1 \in 0..9 /\ 1 <= 16
      OBVIOUS
    <3>2. StatusDigit(NoCode, 1) = [code |-> NoCode.code * 10 + 1, bad |-> FALSE]
      BY <2>5, <3>1, StatusDigitFacts
    <3> QED BY <2>4, <2>5, <3>2
  <2>7. one \in Codes /\ ~one.bad /\ one.code * 10 + d = c /\ c <= 16
    BY <2>1 DEF Codes
  <2> HIDE DEF one
  <2>8. h[2] = [code |-> c, bad |-> FALSE]
    <3>1. StatusDigit(one, d) = [code |-> one.code * 10 + d, bad |-> FALSE]
      BY <2>1, <2>7, StatusDigitFacts
    <3> QED BY <2>4, <2>6, <2>7, <3>1
  <2> QED BY <2>2, <2>3, <2>8
<1> QED BY <1>1, <1>2

-----------------------------------------------------------------------------
(* grpc-message                                                             *)

Chars == [out : Seq(Nat), skip : Nat]

NoChars == [out |-> <<>>, skip |-> 0]

LEMMA CharsFields ==
    ASSUME NEW o \in Seq(Nat), NEW k \in Nat
    PROVE  [out |-> o, skip |-> k] \in Chars
BY DEF Chars

(* The digits of a character, and the character of the digits.             *)
LEMMA EscapeFacts ==
    ASSUME NEW v \in Char
    PROVE  /\ v \in Nat /\ Escape(v) \in Seq(Nat)
           /\ v < Percent => Escape(v) = <<v>>
           /\ ~(v < Percent) => /\ Escape(v) = <<Percent, v \div Radix, v % Radix>>
                               /\ v \div Radix \in Nat /\ v \div Radix < Radix
                               /\ v % Radix \in Nat /\ v % Radix < Radix
                               /\ (v \div Radix) * Radix + (v % Radix) = v
<1> DEFINE q == v \div Radix
           r == v % Radix
<1>1. Radix \in Nat \ {0}
  BY RadixAssumption
<1>2. Radix * Radix \in Nat
  BY <1>1
<1>3. v \in Nat /\ Radix * Radix > v
  BY <1>2 DEF Char
<1>4. q \in Nat /\ r \in Nat /\ r < Radix /\ v = q * Radix + r
  BY <1>1, <1>3, DivFacts
<1>5. Radix > q
  BY <1>1, <1>3, DivCompares
<1>6. Escape(v) = IF v < Percent THEN <<v>> ELSE <<Percent, q, r>>
  BY DEF Escape
<1> HIDE DEF q, r
<1>7. Percent \in Nat
  BY <1>1 DEF Percent
<1>8. <<v>> \in Seq(Nat) /\ <<Percent, q, r>> \in Seq(Nat)
  BY <1>3, <1>4, <1>7
<1>9. v \in Nat /\ Escape(v) \in Seq(Nat)
  BY <1>3, <1>6, <1>8
<1>10. q < Radix
  BY <1>1, <1>4, <1>5
<1> QED BY <1>4, <1>6, <1>9, <1>10 DEF q, r

(* The cases of a turn of PercentDecode.                                   *)
LEMMA DecodeCharFacts ==
    ASSUME NEW e \in Seq(Nat), NEW acc \in Chars, NEW i \in 1..Len(e)
    PROVE  /\ DecodeChar(e, acc, i) \in Chars
           /\ acc.skip > 0 => DecodeChar(e, acc, i) = [out |-> acc.out, skip |-> acc.skip - 1]
           /\ acc.skip = 0 /\ e[i] # Percent
                => DecodeChar(e, acc, i) = [out |-> Append(acc.out, e[i]), skip |-> 0]
           /\ acc.skip = 0 /\ e[i] = Percent /\ i + 2 <= Len(e) /\ e[i + 1] < Radix
                /\ e[i + 2] < Radix
                => DecodeChar(e, acc, i)
                     = [out |-> Append(acc.out, e[i + 1] * Radix + e[i + 2]), skip |-> 2]
<1> DEFINE esc == e[i] = Percent /\ i + 2 <= Len(e) /\ e[i + 1] < Radix /\ e[i + 2] < Radix
           x == e[i + 1] * Radix + e[i + 2]
<1>1. acc = [out |-> acc.out, skip |-> acc.skip] /\ acc.out \in Seq(Nat) /\ acc.skip \in Nat
  BY DEF Chars
<1>2. DecodeChar(e, acc, i)
        = IF acc.skip > 0 THEN [acc EXCEPT !.skip = @ - 1]
          ELSE IF esc THEN [out |-> Append(acc.out, x), skip |-> 2]
               ELSE [acc EXCEPT !.out = Append(@, e[i])]
  BY DEF DecodeChar
<1>3. [acc EXCEPT !.skip = @ - 1] = [out |-> acc.out, skip |-> acc.skip - 1]
  BY <1>1
<1>4. [acc EXCEPT !.out = Append(@, e[i])] = [out |-> Append(acc.out, e[i]), skip |-> acc.skip]
  <2> DEFINE y == Append(acc.out, e[i])
  <2> HIDE DEF y
  <2>1. [acc EXCEPT !.out = y] = [out |-> y, skip |-> acc.skip]
    BY <1>1
  <2> QED BY <2>1 DEF y
<1>5. esc => x \in Nat
  <2> SUFFICES ASSUME esc PROVE x \in Nat
    OBVIOUS
  <2>1. i + 1 \in 1..Len(e) /\ i + 2 \in 1..Len(e)
    OBVIOUS
  <2> DEFINE y == e[i + 1]
             z == e[i + 2]
  <2>2. y \in Nat /\ z \in Nat /\ Radix \in Nat
    BY <2>1, RadixAssumption
  <2> HIDE DEF y, z
  <2>3. y * Radix + z \in Nat
    BY <2>2
  <2> QED BY <2>3 DEF y, z
<1>6. e[i] \in Nat
  OBVIOUS
<1> HIDE DEF esc, x
<1>7. CASE acc.skip > 0
  <2>1. DecodeChar(e, acc, i) = [out |-> acc.out, skip |-> acc.skip - 1]
    BY <1>2, <1>3, <1>7
  <2>2. acc.skip - 1 \in Nat /\ acc.skip # 0
    BY <1>1, <1>7
  <2>3. DecodeChar(e, acc, i) \in Chars
    BY <1>1, <2>1, <2>2, CharsFields
  <2> QED BY <2>1, <2>2, <2>3
<1>8. CASE ~(acc.skip > 0) /\ esc
  <2>1. DecodeChar(e, acc, i) = [out |-> Append(acc.out, x), skip |-> 2]
    BY <1>2, <1>8
  <2>2. Append(acc.out, x) \in Seq(Nat) /\ 2 \in Nat
    BY <1>1, <1>5, <1>8
  <2>3. DecodeChar(e, acc, i) \in Chars
    BY <2>1, <2>2, CharsFields
  <2> QED BY <1>8, <2>1, <2>3 DEF esc, x
<1>9. CASE ~(acc.skip > 0) /\ ~esc
  <2>1. acc.skip = 0
    BY <1>1, <1>9
  <2>2. DecodeChar(e, acc, i) = [out |-> Append(acc.out, e[i]), skip |-> 0]
    BY <1>2, <1>4, <1>9, <2>1
  <2>3. Append(acc.out, e[i]) \in Seq(Nat) /\ 0 \in Nat
    BY <1>1, <1>6
  <2>4. DecodeChar(e, acc, i) \in Chars
    BY <2>2, <2>3, CharsFields
  <2> QED BY <1>9, <2>2, <2>4 DEF esc
<1> QED BY <1>7, <1>8, <1>9

(* A character that an escape has read is passed over.                     *)
LEMMA SkipChar ==
    ASSUME NEW e \in Seq(Nat), NEW acc \in Chars, NEW i \in 1..Len(e), acc.skip > 0
    PROVE  /\ DecodeChar(e, acc, i) \in Chars
           /\ DecodeChar(e, acc, i) = [out |-> acc.out, skip |-> acc.skip - 1]
BY DecodeCharFacts

(* PercentEncode is a run of Escape.                                       *)
LEMMA PercentEncodeRuns ==
    ASSUME NEW m \in Seq(Char)
    PROVE  \E h : /\ h[0] = <<>>
                  /\ \A k \in 1..Len(m) : h[k] = h[k - 1] \o Escape(m[k])
                  /\ PercentEncode(m) = h[Len(m)]
<1> DEFINE n     == Len(m)
           Is(h) == h = [k \in 0..n |-> IF k = 0 THEN <<>> ELSE h[k - 1] \o Escape(m[k])]
           g     == [k \in 1..n |-> [acc \in Seq(Nat) |-> acc \o Escape(m[k])]]
           c     == CHOOSE h : Is(h)
<1>1. n \in Nat /\ <<>> \in Seq(Nat)
  OBVIOUS
<1>2. PercentEncode(m) = c[n]
  BY DEF PercentEncode
<1>3. \A k \in 1..n, acc \in Seq(Nat) : acc \o Escape(m[k]) \in Seq(Nat)
  <2>1. \A k \in 1..n : Escape(m[k]) \in Seq(Nat)
    BY EscapeFacts
  <2> HIDE DEF n
  <2> QED BY <2>1
<1> HIDE DEF n, c
<1>4. g \in [1..n -> [Seq(Nat) -> Seq(Nat)]]
  BY <1>3
<1>5. PICK f : Turns(f, Seq(Nat), <<>>, n, g)
  <2> HIDE DEF g
  <2> QED BY <1>1, <1>4, LoopRuns
<1>6. ASSUME NEW k \in 0..n
      PROVE  f[k] = IF k = 0 THEN <<>> ELSE f[k - 1] \o Escape(m[k])
  <2>1. CASE k = 0
    BY <1>5, <2>1 DEF Turns
  <2>2. CASE k # 0
    <3>1. k \in 1..n /\ k - 1 \in 0..n
      BY <1>1, <2>2
    <3>2. f[k - 1] \in Seq(Nat) /\ f[k] = g[k][f[k - 1]]
      BY <1>5, <3>1 DEF Turns
    <3> QED BY <2>2, <3>1, <3>2
  <2> QED BY <2>1, <2>2
<1>7. Is(f)
  BY <1>5, <1>6 DEF Turns
<1>8. Is(c)
  BY <1>7 DEF c
<1>9. 0 \in 0..n /\ \A k \in 1..n : k \in 0..n /\ k # 0
  BY <1>1
<1>10. c[0] = <<>> /\ \A k \in 1..n : c[k] = c[k - 1] \o Escape(m[k])
  BY <1>8, <1>9
<1> QED BY <1>2, <1>10 DEF n

(* PercentDecode is a run of DecodeChar.                                   *)
LEMMA PercentDecodeRuns ==
    ASSUME NEW e \in Seq(Nat)
    PROVE  \E h : /\ h[0] = NoChars
                  /\ \A k \in 1..Len(e) : h[k] = DecodeChar(e, h[k - 1], k)
                  /\ PercentDecode(e) = h[Len(e)].out
<1> DEFINE n     == Len(e)
           Is(h) == h = [k \in 0..n |-> IF k = 0 THEN NoChars ELSE DecodeChar(e, h[k - 1], k)]
           g     == [k \in 1..n |-> [acc \in Chars |-> DecodeChar(e, acc, k)]]
           c     == CHOOSE h : Is(h)
<1>1. n \in Nat /\ NoChars \in Chars
  BY DEF NoChars, Chars
<1>2. PercentDecode(e) = c[n].out
  BY DEF PercentDecode, NoChars
<1>3. \A k \in 1..n, acc \in Chars : DecodeChar(e, acc, k) \in Chars
  BY DecodeCharFacts
<1> HIDE DEF n, c
<1>4. g \in [1..n -> [Chars -> Chars]]
  BY <1>3
<1>5. PICK f : Turns(f, Chars, NoChars, n, g)
  <2> HIDE DEF g
  <2> QED BY <1>1, <1>4, LoopRuns
<1>6. ASSUME NEW k \in 0..n
      PROVE  f[k] = IF k = 0 THEN NoChars ELSE DecodeChar(e, f[k - 1], k)
  <2>1. CASE k = 0
    BY <1>5, <2>1 DEF Turns
  <2>2. CASE k # 0
    <3>1. k \in 1..n /\ k - 1 \in 0..n
      BY <1>1, <2>2
    <3>2. f[k - 1] \in Chars /\ f[k] = g[k][f[k - 1]]
      BY <1>5, <3>1 DEF Turns
    <3> QED BY <2>2, <3>1, <3>2
  <2> QED BY <2>1, <2>2
<1>7. Is(f)
  BY <1>5, <1>6 DEF Turns
<1>8. Is(c)
  BY <1>7 DEF c
<1>9. 0 \in 0..n /\ \A k \in 1..n : k \in 0..n /\ k # 0
  BY <1>1
<1>10. c[0] = NoChars /\ \A k \in 1..n : c[k] = DecodeChar(e, c[k - 1], k)
  BY <1>8, <1>9
<1> QED BY <1>2, <1>10 DEF n

(* e starts with p.                                                        *)
Starts(e, p) == Len(p) <= Len(e) /\ \A i \in 1..Len(p) : e[i] = p[i]

LEMMA StartsJoin ==
    ASSUME NEW e \in Seq(Nat), NEW p \in Seq(Nat), NEW x \in Seq(Nat), Starts(e, p \o x)
    PROVE  /\ Starts(e, p) /\ Len(p \o x) = Len(p) + Len(x) /\ Len(p) + Len(x) <= Len(e)
           /\ \A i \in 1..Len(x) : e[Len(p) + i] = x[i]
<1> DEFINE q == p \o x
<1>1. /\ Len(p) \in Nat /\ Len(x) \in Nat /\ Len(q) = Len(p) + Len(x)
      /\ \A i \in 1..Len(p) : q[i] = p[i]
  OBVIOUS
<1>2. ASSUME NEW i \in 1..Len(x) PROVE q[Len(p) + i] = x[i]
  OBVIOUS
<1> HIDE DEF q
<1>3. Len(q) <= Len(e) /\ \A i \in 1..Len(q) : e[i] = q[i]
  BY DEF Starts, q
<1>4. ASSUME NEW i \in 1..Len(p) PROVE e[i] = p[i]
  <2>1. i \in 1..Len(q)
    BY <1>1
  <2> QED BY <1>1, <1>3, <2>1
<1>5. ASSUME NEW i \in 1..Len(x) PROVE e[Len(p) + i] = x[i]
  <2>1. Len(p) + i \in 1..Len(q)
    BY <1>1
  <2> QED BY <1>2, <1>3, <2>1
<1>6. Len(e) \in Nat /\ Len(p) <= Len(e)
  BY <1>1, <1>3
<1> QED BY <1>1, <1>3, <1>4, <1>5, <1>6 DEF Starts, q

(* The decoder is between two characters, and has copied c of them.        *)
Between(acc, m, c) == acc \in Chars /\ acc.skip = 0 /\ Copied(acc.out, m, c)

(* From the encoding of one character to the next.                         *)
LEMMA CharStep ==
    ASSUME NEW m \in Seq(Char), NEW c \in Nat, c + 1 <= Len(m), NEW e \in Seq(Nat), NEW d,
           \A i \in 1..Len(e) : d[i] = DecodeChar(e, d[i - 1], i),
           NEW l \in Nat, Between(d[l], m, c),
           l + Len(Escape(m[c + 1])) <= Len(e),
           \A i \in 1..Len(Escape(m[c + 1])) : e[l + i] = Escape(m[c + 1])[i]
    PROVE  Between(d[l + Len(Escape(m[c + 1]))], m, c + 1)
<1> DEFINE v == m[c + 1]
<1>1. v \in Char /\ v \in Nat
  BY EscapeFacts
<1>2. d[l] \in Chars /\ d[l].skip = 0 /\ Copied(d[l].out, m, c) /\ d[l].out \in Seq(Nat)
  BY DEF Between, Chars
<1>3. Append(d[l].out, v) \in Seq(Nat) /\ Copied(Append(d[l].out, v), m, c + 1)
  <2>1. m \in Seq(Nat)
    BY EscapeFacts
  <2> QED BY <1>2, <2>1, CopyOne
<1> HIDE DEF v
<1>4. CASE v < Percent
  <2>1. Escape(v) = <<v>>
    BY <1>1, <1>4, EscapeFacts
  <2>2. l + 1 <= Len(e) /\ e[l + 1] = v /\ Len(Escape(v)) = 1
    BY <2>1 DEF v
  <2>3. l + 1 \in 1..Len(e) /\ (l + 1) - 1 = l /\ v # Percent
    <3>1. Percent \in Nat
      BY RadixAssumption DEF Percent
    <3> QED BY <1>1, <1>4, <2>2, <3>1
  <2>4. d[l + 1] = DecodeChar(e, d[l], l + 1)
    BY <2>3
  <2>5. d[l + 1] \in Chars /\ d[l + 1] = [out |-> Append(d[l].out, v), skip |-> 0]
    BY <1>2, <2>2, <2>3, <2>4, DecodeCharFacts
  <2>6. Between(d[l + 1], m, c + 1)
    BY <1>3, <2>5 DEF Between
  <2> QED BY <2>2, <2>6 DEF v
<1>5. CASE ~(v < Percent)
  <2> DEFINE q == v \div Radix
             r == v % Radix
  <2>1. /\ Escape(v) = <<Percent, q, r>> /\ q < Radix /\ r < Radix
        /\ q * Radix + r = v
    BY <1>1, <1>5, EscapeFacts
  <2> HIDE DEF q, r
  <2>2. /\ Len(Escape(v)) = 3 /\ Escape(v)[1] = Percent /\ Escape(v)[2] = q
        /\ Escape(v)[3] = r
    BY <2>1
  <2>3. l + 3 <= Len(e) /\ e[l + 1] = Percent /\ e[l + 2] = q /\ e[l + 3] = r
    <3>1. l + 3 <= Len(e) /\ \A i \in 1..3 : e[l + i] = Escape(v)[i]
      BY <2>2 DEF v
    <3>2. 1 \in 1..3 /\ 2 \in 1..3 /\ 3 \in 1..3
      OBVIOUS
    <3> QED BY <2>2, <3>1, <3>2
  <2>4. /\ l + 1 \in 1..Len(e) /\ l + 2 \in 1..Len(e) /\ l + 3 \in 1..Len(e)
        /\ (l + 1) - 1 = l /\ (l + 2) - 1 = l + 1 /\ (l + 3) - 1 = l + 2
        /\ (l + 1) + 1 = l + 2 /\ (l + 1) + 2 = l + 3
    <3>1. l + 3 <= Len(e) /\ Len(e) \in Nat
      BY <2>3
    <3>2. l + 1 \in 1..Len(e) /\ l + 2 \in 1..Len(e) /\ l + 3 \in 1..Len(e)
      BY <3>1
    <3>3. /\ (l + 1) - 1 = l /\ (l + 2) - 1 = l + 1 /\ (l + 3) - 1 = l + 2
          /\ (l + 1) + 1 = l + 2 /\ (l + 1) + 2 = l + 3
      OBVIOUS
    <3> QED BY <3>2, <3>3
  <2>5. /\ d[l + 1] = DecodeChar(e, d[l], l + 1) /\ d[l + 2] = DecodeChar(e, d[l + 1], l + 2)
        /\ d[l + 3] = DecodeChar(e, d[l + 2], l + 3)
    BY <2>4
  <2> DEFINE o == Append(d[l].out, v)
             a1 == d[l + 1]
             a2 == d[l + 2]
  <2>6. a1 \in Chars /\ a1 = [out |-> o, skip |-> 2]
    <3> DEFINE i == l + 1
    <3>1. /\ i \in 1..Len(e) /\ i + 2 <= Len(e) /\ e[i] = Percent /\ e[i + 1] = q
          /\ e[i + 2] = r /\ a1 = DecodeChar(e, d[l], i)
      BY <2>3, <2>4, <2>5
    <3> HIDE DEF i, a1
    <3>2. /\ a1 \in Chars
          /\ a1 = [out |-> Append(d[l].out, e[i + 1] * Radix + e[i + 2]), skip |-> 2]
      BY <1>2, <2>1, <3>1, DecodeCharFacts
    <3>3. e[i + 1] * Radix + e[i + 2] = v
      BY <2>1, <3>1
    <3> QED BY <3>2, <3>3
  <2>7. a2 \in Chars /\ a2 = [out |-> o, skip |-> 1]
    <3> DEFINE i == l + 2
    <3>1. i \in 1..Len(e) /\ a2 = DecodeChar(e, a1, i)
      BY <2>4, <2>5
    <3> HIDE DEF i, a1, a2, o
    <3>2. a1.skip > 0 /\ a1.out = o /\ a1.skip - 1 = 1
      BY <2>6
    <3>3. a2 \in Chars /\ a2 = [out |-> a1.out, skip |-> a1.skip - 1]
      BY <2>6, <3>1, <3>2, SkipChar
    <3> QED BY <3>2, <3>3
  <2>8. d[l + 3] \in Chars /\ d[l + 3] = [out |-> o, skip |-> 0]
    <3> DEFINE i == l + 3
    <3>1. i \in 1..Len(e) /\ d[i] = DecodeChar(e, a2, i)
      BY <2>4, <2>5
    <3> HIDE DEF i, a2, o
    <3>2. a2.skip > 0 /\ a2.out = o /\ a2.skip - 1 = 0
      BY <2>7
    <3>3. d[i] \in Chars /\ d[i] = [out |-> a2.out, skip |-> a2.skip - 1]
      BY <2>7, <3>1, <3>2, SkipChar
    <3> QED BY <3>2, <3>3 DEF i
  <2>9. Between(d[l + 3], m, c + 1)
    BY <1>3, <2>8 DEF Between
  <2> QED BY <2>2, <2>9 DEF v
<1> QED BY <1>4, <1>5

(* A message arrives as it was, whatever is in it.                         *)
LEMMA PercentRoundTrip ==
    ASSUME NEW m \in Seq(Char)
    PROVE  PercentEncode(m) \in Seq(Nat) /\ PercentDecode(PercentEncode(m)) = m
<1> DEFINE n == Len(m)
           e == PercentEncode(m)
<1>1. n \in Nat /\ \A k \in 1..n : m[k] \in Char /\ Escape(m[k]) \in Seq(Nat)
  BY EscapeFacts
<1>2. PICK h : /\ h[0] = <<>> /\ \A k \in 1..n : h[k] = h[k - 1] \o Escape(m[k])
               /\ e = h[n]
  BY PercentEncodeRuns
<1> HIDE DEF n, e
<1>3. \A k \in 0..n : h[k] \in Seq(Nat)
  <2> DEFINE T == {k \in Nat : k <= n => h[k] \in Seq(Nat)}
  <2>1. 0 \in T
    <3>1. <<>> \in Seq(Nat)
      OBVIOUS
    <3> QED BY <1>2, <3>1
  <2>2. ASSUME NEW k \in T PROVE k + 1 \in T
    <3> SUFFICES ASSUME k + 1 <= n PROVE h[k + 1] \in Seq(Nat)
      OBVIOUS
    <3>1. k \in Nat /\ k + 1 \in 1..n /\ (k + 1) - 1 = k /\ h[k] \in Seq(Nat)
      BY <1>1
    <3>2. h[k + 1] = h[k] \o Escape(m[k + 1]) /\ Escape(m[k + 1]) \in Seq(Nat)
      BY <1>1, <1>2, <3>1
    <3> QED BY <3>1, <3>2
  <2>3. T = Nat
    <3>1. T \in SUBSET Nat
      OBVIOUS
    <3> HIDE DEF T
    <3> QED BY <2>1, <2>2, <3>1, Induction
  <2> QED BY <1>1, <2>3
<1>4. e \in Seq(Nat)
  BY <1>1, <1>2, <1>3
<1>5. PICK d : /\ d[0] = NoChars /\ \A i \in 1..Len(e) : d[i] = DecodeChar(e, d[i - 1], i)
               /\ PercentDecode(e) = d[Len(e)].out
  BY <1>4, PercentDecodeRuns
(* The encoding starts with that of any first part of the message.         *)
<1>6. ASSUME NEW k \in 0..n PROVE Starts(e, h[k])
  <2> DEFINE T == {j \in Nat : j <= n => Starts(e, h[n - j])}
  <2>1. 0 \in T
    <3>1. n - 0 = n
      BY <1>1
    <3>2. Starts(e, h[n])
      BY <1>2, <1>4 DEF Starts
    <3> QED BY <3>1, <3>2
  <2>2. ASSUME NEW j \in T PROVE j + 1 \in T
    <3> SUFFICES ASSUME j + 1 <= n PROVE Starts(e, h[n - (j + 1)])
      OBVIOUS
    <3> DEFINE i == n - j
    <3>1. i \in 1..n /\ n - (j + 1) = i - 1 /\ i - 1 \in 0..n /\ Starts(e, h[i])
      BY <1>1
    <3> HIDE DEF i
    <3>2. h[i] = h[i - 1] \o Escape(m[i])
      BY <1>2, <3>1
    <3>3. Starts(e, h[i - 1])
      BY <1>1, <1>3, <1>4, <3>1, <3>2, StartsJoin
    <3> QED BY <3>1, <3>3
  <2>3. T = Nat
    <3>1. T \in SUBSET Nat
      OBVIOUS
    <3> HIDE DEF T
    <3> QED BY <2>1, <2>2, <3>1, Induction
  <2>4. n - k \in T /\ n - k <= n /\ n - (n - k) = k
    <3>1. n - k \in Nat /\ n - k <= n /\ n - (n - k) = k
      BY <1>1
    <3> HIDE DEF T
    <3> QED BY <2>3, <3>1
  <2> QED BY <2>4
<1> DEFINE T == {k \in Nat : k <= n => Between(d[Len(h[k])], m, k)}
<1>7. 0 \in T
  <2>1. h[0] = <<>> /\ Len(h[0]) = 0
    BY <1>2
  <2>2. Between(NoChars, m, 0)
    BY DEF Between, NoChars, Chars, Copied
  <2> QED BY <1>5, <2>1, <2>2
<1>8. ASSUME NEW k \in T PROVE k + 1 \in T
  <2> SUFFICES ASSUME k + 1 <= n PROVE Between(d[Len(h[k + 1])], m, k + 1)
    OBVIOUS
  <2>1. /\ k \in Nat /\ k \in 0..n /\ k + 1 \in 0..n /\ k + 1 \in 1..n /\ (k + 1) - 1 = k
        /\ Between(d[Len(h[k])], m, k)
    BY <1>1
  <2> DEFINE l == Len(h[k])
             x == Escape(m[k + 1])
  <2>2. h[k] \in Seq(Nat) /\ x \in Seq(Nat) /\ h[k + 1] = h[k] \o x
    BY <1>1, <1>2, <1>3, <2>1
  <2>3. Starts(e, h[k] \o x)
    BY <1>6, <2>1, <2>2
  <2>4. /\ l \in Nat /\ Len(h[k + 1]) = l + Len(x) /\ l + Len(x) <= Len(e)
        /\ \A i \in 1..Len(x) : e[l + i] = x[i]
    <3> DEFINE p == h[k]
    <3>1. p \in Seq(Nat) /\ h[k + 1] = p \o x /\ Starts(e, p \o x)
      BY <2>2, <2>3
    <3> HIDE DEF x, p
    <3>2. /\ Len(p) \in Nat /\ Len(p \o x) = Len(p) + Len(x) /\ Len(p) + Len(x) <= Len(e)
          /\ \A i \in 1..Len(x) : e[Len(p) + i] = x[i]
      BY <1>4, <2>2, <3>1, StartsJoin
    <3> QED BY <3>1, <3>2 DEF p
  <2> HIDE DEF l
  <2>5. Between(d[l + Len(x)], m, k + 1)
    <3>1. Between(d[l], m, k)
      BY <2>1 DEF l
    <3> QED BY <1>4, <1>5, <2>1, <2>4, <3>1, CharStep DEF n
  <2> QED BY <2>4, <2>5
<1>9. T = Nat
  <2>1. T \in SUBSET Nat
    OBVIOUS
  <2> HIDE DEF T
  <2> QED BY <1>7, <1>8, <2>1, Induction
<1>10. Between(d[Len(e)], m, n)
  BY <1>1, <1>2, <1>9
<1>11. d[Len(e)].out = m
  <2>1. d[Len(e)].out \in Seq(Nat) /\ Copied(d[Len(e)].out, m, Len(m)) /\ m \in Seq(Nat)
    BY <1>10, EscapeFacts DEF Between, Chars, n
  <2> QED BY <2>1, CopyAll
<1> QED BY <1>4, <1>5, <1>11 DEF e

(* BuildTrailers and ExtractTrailerStatus: a status arrives as it was.     *)
LEMMA TrailersRoundTrip ==
    ASSUME NEW s \in Status
    PROVE  ExtractTrailerStatus(BuildTrailers(s)) = s
<1>1. /\ s.code \in 0..16 /\ s.message \in Seq(Char) /\ s.details \in Seq(Byte)
      /\ s = [code |-> s.code, message |-> s.message, details |-> s.details]
  BY DEF Status
<1>2. ParseGrpcStatus(StatusText(s.code)) = s.code
  BY <1>1, StatusRoundTrip
<1>3. PercentDecode(PercentEncode(s.message)) = s.message
  BY <1>1, PercentRoundTrip
<1>4. DecodeBase64(EncodeBase64(s.details)) = s.details
  BY <1>1, Base64RoundTrip
<1> QED BY <1>1, <1>2, <1>3, <1>4 DEF ExtractTrailerStatus, BuildTrailers

-----------------------------------------------------------------------------
(* Metadata                                                                 *)

(* The channel's own keys are strings too, which the provers do not know.  *)
Entries == [key : STRING \cup {"content-type", "user-agent"}, value : Seq(Byte)]

LEMMA EntryType ==
    ASSUME NEW k \in STRING \cup {"content-type", "user-agent"}, NEW v \in Seq(Byte)
    PROVE  [key |-> k, value |-> v] \in Entries
BY DEF Entries

(* An entry that passes every test on its way to the other side.           *)
Sent == {e \in Entries : IsValidKey(e.key) /\ ~IsReservedKey(e.key) /\ ~IsInternal(e.key)}

(* A header of a sent entry gives the entry.                               *)
LEMMA HeaderFacts ==
    ASSUME NEW e \in Sent
    PROVE  ToHeader(e).key = e.key /\ FromHeader(ToHeader(e)) = e
<1>1. e = [key |-> e.key, value |-> e.value] /\ e.value \in Seq(Byte)
  BY DEF Sent, Entries
<1>2. CASE IsBinaryKey(e.key)
  <2> DEFINE x == EncodeBase64(e.value)
             h == [key |-> e.key, value |-> x]
  <2>1. DecodeBase64(x) = e.value
    BY <1>1, Base64RoundTrip
  <2> HIDE DEF x
  <2>2. ToHeader(e) = h
    BY <1>1, <1>2 DEF ToHeader, x
  <2>3. h.key = e.key /\ h.value = x
    OBVIOUS
  <2>4. FromHeader(h) = [h EXCEPT !.value = DecodeBase64(x)]
    BY <1>2, <2>3 DEF FromHeader
  <2>5. FromHeader(h) = e
    BY <1>1, <2>1, <2>4
  <2> QED BY <2>2, <2>3, <2>5
<1>3. CASE ~IsBinaryKey(e.key)
  BY <1>3 DEF ToHeader, FromHeader
<1> QED BY <1>2, <1>3

(* The turns of the two loops.                                             *)
AddHeader(acc, e) ==
    IF IsValidKey(e.key) /\ ~IsReservedKey(e.key) THEN Append(acc, ToHeader(e)) ELSE acc

AddEntry(acc, h) ==
    IF IsValidKey(h.key) /\ ~IsInternal(h.key) THEN Append(acc, FromHeader(h)) ELSE acc

(* MetadataToHeaders is a run of AddHeader.                                *)
LEMMA MetadataToHeadersRuns ==
    ASSUME NEW md, Len(md) \in Nat, NEW S, \A k \in 1..Len(md) : ToHeader(md[k]) \in S
    PROVE  \E h : /\ h[0] = <<>>
                  /\ \A k \in 1..Len(md) : h[k] = AddHeader(h[k - 1], md[k])
                  /\ MetadataToHeaders(md) = h[Len(md)]
<1> DEFINE n     == Len(md)
           Is(h) == h = [k \in 0..n |-> IF k = 0 THEN <<>> ELSE AddHeader(h[k - 1], md[k])]
           g     == [k \in 1..n |-> [acc \in Seq(S) |-> AddHeader(acc, md[k])]]
           c     == CHOOSE h : Is(h)
<1>1. n \in Nat /\ <<>> \in Seq(S)
  OBVIOUS
<1>2. MetadataToHeaders(md) = c[n]
  BY DEF MetadataToHeaders, AddHeader
<1>3. \A k \in 1..n, acc \in Seq(S) : AddHeader(acc, md[k]) \in Seq(S)
  <2> SUFFICES ASSUME NEW k \in 1..n, NEW acc \in Seq(S)
               PROVE  AddHeader(acc, md[k]) \in Seq(S)
    OBVIOUS
  <2> DEFINE x == ToHeader(md[k])
  <2>1. x \in S
    OBVIOUS
  <2>2. AddHeader(acc, md[k]) \in {Append(acc, x), acc}
    BY DEF AddHeader
  <2> HIDE DEF x
  <2>3. Append(acc, x) \in Seq(S)
    BY <2>1
  <2> QED BY <2>2, <2>3
<1> HIDE DEF n, c
<1>4. g \in [1..n -> [Seq(S) -> Seq(S)]]
  BY <1>3
<1>5. PICK f : Turns(f, Seq(S), <<>>, n, g)
  <2> HIDE DEF g
  <2> QED BY <1>1, <1>4, LoopRuns
<1>6. ASSUME NEW k \in 0..n
      PROVE  f[k] = IF k = 0 THEN <<>> ELSE AddHeader(f[k - 1], md[k])
  <2>1. CASE k = 0
    BY <1>5, <2>1 DEF Turns
  <2>2. CASE k # 0
    <3>1. k \in 1..n /\ k - 1 \in 0..n
      BY <1>1, <2>2
    <3>2. f[k - 1] \in Seq(S) /\ f[k] = g[k][f[k - 1]]
      BY <1>5, <3>1 DEF Turns
    <3> QED BY <2>2, <3>1, <3>2
  <2> QED BY <2>1, <2>2
<1>7. Is(f)
  BY <1>5, <1>6 DEF Turns
<1>8. Is(c)
  BY <1>7 DEF c
<1>9. 0 \in 0..n /\ \A k \in 1..n : k \in 0..n /\ k # 0
  BY <1>1
<1>10. c[0] = <<>> /\ \A k \in 1..n : c[k] = AddHeader(c[k - 1], md[k])
  BY <1>8, <1>9
<1> QED BY <1>2, <1>10 DEF n

(* HeadersToMetadata is a run of AddEntry.                                 *)
LEMMA HeadersToMetadataRuns ==
    ASSUME NEW s, Len(s) \in Nat, NEW S, \A k \in 1..Len(s) : FromHeader(s[k]) \in S
    PROVE  \E h : /\ h[0] = <<>>
                  /\ \A k \in 1..Len(s) : h[k] = AddEntry(h[k - 1], s[k])
                  /\ HeadersToMetadata(s) = h[Len(s)]
<1> DEFINE n     == Len(s)
           Is(h) == h = [k \in 0..n |-> IF k = 0 THEN <<>> ELSE AddEntry(h[k - 1], s[k])]
           g     == [k \in 1..n |-> [acc \in Seq(S) |-> AddEntry(acc, s[k])]]
           c     == CHOOSE h : Is(h)
<1>1. n \in Nat /\ <<>> \in Seq(S)
  OBVIOUS
<1>2. HeadersToMetadata(s) = c[n]
  BY DEF HeadersToMetadata, AddEntry
<1>3. \A k \in 1..n, acc \in Seq(S) : AddEntry(acc, s[k]) \in Seq(S)
  <2> SUFFICES ASSUME NEW k \in 1..n, NEW acc \in Seq(S)
               PROVE  AddEntry(acc, s[k]) \in Seq(S)
    OBVIOUS
  <2> DEFINE x == FromHeader(s[k])
  <2>1. x \in S
    OBVIOUS
  <2>2. AddEntry(acc, s[k]) \in {Append(acc, x), acc}
    BY DEF AddEntry
  <2> HIDE DEF x
  <2>3. Append(acc, x) \in Seq(S)
    BY <2>1
  <2> QED BY <2>2, <2>3
<1> HIDE DEF n, c
<1>4. g \in [1..n -> [Seq(S) -> Seq(S)]]
  BY <1>3
<1>5. PICK f : Turns(f, Seq(S), <<>>, n, g)
  <2> HIDE DEF g
  <2> QED BY <1>1, <1>4, LoopRuns
<1>6. ASSUME NEW k \in 0..n
      PROVE  f[k] = IF k = 0 THEN <<>> ELSE AddEntry(f[k - 1], s[k])
  <2>1. CASE k = 0
    BY <1>5, <2>1 DEF Turns
  <2>2. CASE k # 0
    <3>1. k \in 1..n /\ k - 1 \in 0..n
      BY <1>1, <2>2
    <3>2. f[k - 1] \in Seq(S) /\ f[k] = g[k][f[k - 1]]
      BY <1>5, <3>1 DEF Turns
    <3> QED BY <2>2, <3>1, <3>2
  <2> QED BY <2>1, <2>2
<1>7. Is(f)
  BY <1>5, <1>6 DEF Turns
<1>8. Is(c)
  BY <1>7 DEF c
<1>9. 0 \in 0..n /\ \A k \in 1..n : k \in 0..n /\ k # 0
  BY <1>1
<1>10. c[0] = <<>> /\ \A k \in 1..n : c[k] = AddEntry(c[k - 1], s[k])
  BY <1>8, <1>9
<1> QED BY <1>2, <1>10 DEF n

(* All entries that may be sent become headers.                            *)
LEMMA HeadersOf ==
    ASSUME NEW md \in Seq(Sent)
    PROVE  MetadataToHeaders(md) = [k \in 1..Len(md) |-> ToHeader(md[k])]
<1> DEFINE n == Len(md)
           S == {ToHeader(e) : e \in Sent}
           x == [k \in 1..n |-> ToHeader(md[k])]
<1>1. n \in Nat /\ \A k \in 1..n : md[k] \in Sent
  OBVIOUS
<1>2. \A k \in 1..n : ToHeader(md[k]) \in S
  BY <1>1
<1>3. x \in Seq(S) /\ Len(x) = n /\ \A k \in 1..n : x[k] = ToHeader(md[k])
  <2> HIDE DEF n, S
  <2> QED BY <1>1, <1>2
<1>4. PICK h : /\ h[0] = <<>> /\ \A k \in 1..n : h[k] = AddHeader(h[k - 1], md[k])
               /\ MetadataToHeaders(md) = h[n]
  <2> HIDE DEF S
  <2> QED BY <1>1, <1>2, MetadataToHeadersRuns
<1> HIDE DEF n, S, x
<1> DEFINE T == {k \in Nat : k <= n => h[k] \in Seq(S) /\ Copied(h[k], x, k)}
<1>5. 0 \in T
  <2>1. <<>> \in Seq(S) /\ Copied(<<>>, x, 0)
    BY DEF Copied
  <2> QED BY <1>4, <2>1
<1>6. ASSUME NEW k \in T PROVE k + 1 \in T
  <2> SUFFICES ASSUME k + 1 <= n PROVE h[k + 1] \in Seq(S) /\ Copied(h[k + 1], x, k + 1)
    OBVIOUS
  <2> DEFINE o == h[k]
             y == ToHeader(md[k + 1])
  <2>1. k \in Nat /\ k + 1 \in 1..n /\ (k + 1) - 1 = k /\ o \in Seq(S) /\ Copied(o, x, k)
    BY <1>1
  <2>2. h[k + 1] = AddHeader(o, md[k + 1])
    BY <1>4, <2>1
  <2>3. h[k + 1] = Append(o, y)
    BY <1>1, <2>1, <2>2 DEF AddHeader, Sent
  <2>4. y = x[k + 1] /\ k + 1 <= Len(x)
    BY <1>3, <2>1
  <2> HIDE DEF o, y
  <2> QED BY <1>3, <2>1, <2>3, <2>4, CopyOne
<1>7. T = Nat
  <2>1. T \in SUBSET Nat
    OBVIOUS
  <2> HIDE DEF T
  <2> QED BY <1>5, <1>6, <2>1, Induction
<1>8. h[n] \in Seq(S) /\ Copied(h[n], x, n)
  BY <1>1, <1>7
<1>9. h[n] = x
  BY <1>3, <1>8, CopyAll
<1> QED BY <1>4, <1>9 DEF x, n

(* The other side finds the entries again, behind a header that it drops   *)
(* and one that it keeps.                                                  *)
LEMMA MetadataRoundTrip ==
    ASSUME NEW md \in Seq(Sent), NEW own \in Entries, IsInternal(own.key), ~IsBinaryKey(own.key),
           NEW ua \in Sent, ~IsBinaryKey(ua.key)
    PROVE  HeadersToMetadata(<<own, ua>> \o MetadataToHeaders(md)) = <<ua>> \o md
<1> DEFINE n == Len(md)
           hdrs == MetadataToHeaders(md)
           s == <<own, ua>> \o hdrs
           x == <<ua>> \o md
<1>1. n \in Nat /\ \A k \in 1..n : md[k] \in Sent
  OBVIOUS
<1>2. hdrs = [k \in 1..n |-> ToHeader(md[k])]
  BY HeadersOf
<1> HIDE DEF hdrs
<1>3. hdrs \in Seq({own, ua} \cup {ToHeader(e) : e \in Sent}) /\ Len(hdrs) = n
  <2> DEFINE S == {own, ua} \cup {ToHeader(e) : e \in Sent}
  <2>1. \A k \in 1..n : ToHeader(md[k]) \in S
    BY <1>1
  <2> HIDE DEF n, S
  <2>2. hdrs \in Seq(S) /\ Len(hdrs) = n
    BY <1>1, <1>2, <2>1
  <2> QED BY <2>2 DEF S
<1>4. /\ Len(s) = n + 2 /\ s[1] = own /\ s[2] = ua
      /\ \A k \in 1..n : s[k + 2] = ToHeader(md[k])
  <2> DEFINE S == {own, ua} \cup {ToHeader(e) : e \in Sent}
             two == <<own, ua>>
  <2>1. two \in Seq(S) /\ Len(two) = 2 /\ two[1] = own /\ two[2] = ua
    OBVIOUS
  <2>2. hdrs \in Seq(S) /\ Len(hdrs) = n
    BY <1>3
  <2> HIDE DEF S, two, n
  <2>3. two \in Seq(S) /\ hdrs \in Seq(S)
    BY <2>1, <2>2
  <2>4. /\ Len(two \o hdrs) = n + 2 /\ (two \o hdrs)[1] = two[1] /\ (two \o hdrs)[2] = two[2]
    <3>1. Len(two \o hdrs) = Len(two) + Len(hdrs)
      BY <2>3, JoinLen
    <3>2. \A k \in 1..Len(two) : (two \o hdrs)[k] = two[k]
      BY <2>3, JoinAt
    <3>3. 1 \in 1..2 /\ 2 \in 1..2
      OBVIOUS
    <3> QED BY <1>1, <2>1, <2>2, <3>1, <3>2, <3>3
  <2>5. ASSUME NEW k \in 1..n PROVE (two \o hdrs)[k + 2] = hdrs[k]
    <3>1. \A j \in 1..Len(hdrs) : (two \o hdrs)[Len(two) + j] = hdrs[j]
      BY <2>3, JoinAt
    <3>2. Len(two) + k = k + 2 /\ k \in 1..Len(hdrs)
      BY <1>1, <2>1, <2>2
    <3> QED BY <3>1, <3>2
  <2> QED BY <1>2, <2>1, <2>4, <2>5 DEF two
<1>5. x \in Seq(Entries) /\ Len(x) = n + 1 /\ x[1] = ua /\ \A k \in 1..n : x[k + 1] = md[k]
  <2>1. md \in Seq(Entries) /\ <<ua>> \in Seq(Entries)
    BY DEF Sent
  <2>2. x \in Seq(Entries) /\ Len(x) = n + 1 /\ x[1] = ua
    BY <2>1
  <2>3. ASSUME NEW k \in 1..n PROVE x[k + 1] = md[k]
    OBVIOUS
  <2> QED BY <2>2, <2>3
<1> HIDE DEF s, x, n
<1>6. FromHeader(s[1]) \in Entries /\ \A acc : AddEntry(acc, s[1]) = acc
  BY <1>4 DEF FromHeader, AddEntry
<1>7. ASSUME NEW k \in 1..(n + 1)
      PROVE  /\ FromHeader(s[k + 1]) = x[k] /\ x[k] \in Entries
             /\ \A acc : AddEntry(acc, s[k + 1]) = Append(acc, x[k])
  <2>1. CASE k = 1
    <3>1. s[k + 1] = ua /\ x[k] = ua
      BY <1>4, <1>5, <2>1
    <3>2. FromHeader(ua) = ua
      BY DEF FromHeader
    <3> QED BY <3>1, <3>2 DEF AddEntry, Sent
  <2>2. CASE k # 1
    <3> DEFINE j == k - 1
               e == md[j]
               h == s[k + 1]
    <3>1. j \in 1..n /\ k + 1 = j + 2 /\ k = j + 1
      BY <1>1, <2>2
    <3>2. e \in Sent /\ h = ToHeader(e) /\ x[k] = e
      <4> HIDE DEF j
      <4> QED BY <1>1, <1>4, <1>5, <3>1
    <3> HIDE DEF e, h, j
    <3>3. FromHeader(h) = e /\ h.key = e.key
      BY <3>2, HeaderFacts
    <3>4. \A acc : AddEntry(acc, h) = Append(acc, e)
      BY <3>2, <3>3 DEF AddEntry, Sent
    <3>5. e \in Entries
      BY <3>2 DEF Sent
    <3> QED BY <3>2, <3>3, <3>4, <3>5 DEF h
  <2> QED BY <2>1, <2>2
<1>8. PICK d : /\ d[0] = <<>> /\ \A k \in 1..(n + 2) : d[k] = AddEntry(d[k - 1], s[k])
               /\ HeadersToMetadata(s) = d[n + 2]
  <2>1. ASSUME NEW k \in 1..Len(s) PROVE FromHeader(s[k]) \in Entries
    <3>1. CASE k = 1
      BY <1>6, <3>1
    <3>2. CASE k # 1
      <4>1. k - 1 \in 1..(n + 1) /\ (k - 1) + 1 = k
        BY <1>1, <1>4, <3>2
      <4> QED BY <1>7, <4>1
    <3> QED BY <3>1, <3>2
  <2>2. Len(s) \in Nat
    BY <1>1, <1>4
  <2> QED BY <1>4, <2>1, <2>2, HeadersToMetadataRuns
<1> DEFINE T == {k \in Nat : k <= n + 1 => d[k + 1] \in Seq(Entries) /\ Copied(d[k + 1], x, k)}
<1>9. 0 \in T
  <2>1. 1 \in 1..(n + 2) /\ 1 - 1 = 0 /\ 0 + 1 = 1
    BY <1>1
  <2>2. d[1] = <<>>
    BY <1>6, <1>8, <2>1
  <2>3. <<>> \in Seq(Entries) /\ Copied(<<>>, x, 0)
    BY DEF Copied
  <2> QED BY <2>1, <2>2, <2>3
<1>10. ASSUME NEW k \in T PROVE k + 1 \in T
  <2> SUFFICES ASSUME k + 1 <= n + 1
               PROVE  d[(k + 1) + 1] \in Seq(Entries) /\ Copied(d[(k + 1) + 1], x, k + 1)
    OBVIOUS
  <2> DEFINE j == k + 1
             o == d[j]
             z == d[j + 1]
  <2>1. /\ k \in Nat /\ j \in 1..(n + 1) /\ j + 1 \in 1..(n + 2) /\ (j + 1) - 1 = j
        /\ o \in Seq(Entries) /\ Copied(o, x, k)
    BY <1>1
  <2>2. z = AddEntry(o, s[j + 1])
    BY <1>8, <2>1
  <2>3. z = Append(o, x[j]) /\ j <= Len(x)
    BY <1>1, <1>5, <1>7, <2>1, <2>2
  <2>4. j = k + 1
    OBVIOUS
  <2> HIDE DEF o, z, j
  <2>5. z \in Seq(Entries) /\ Copied(z, x, k + 1)
    BY <1>5, <2>1, <2>3, <2>4, CopyOne
  <2> QED BY <2>5 DEF z, j
<1>11. T = Nat
  <2>1. T \in SUBSET Nat
    OBVIOUS
  <2> HIDE DEF T
  <2> QED BY <1>9, <1>10, <2>1, Induction
<1>12. d[n + 2] \in Seq(Entries) /\ Copied(d[n + 2], x, Len(x))
  <2>1. n + 1 \in T /\ (n + 1) + 1 = n + 2 /\ n + 1 <= n + 1
    <3>1. n + 1 \in Nat /\ (n + 1) + 1 = n + 2 /\ n + 1 <= n + 1
      BY <1>1
    <3> HIDE DEF T
    <3> QED BY <1>11, <3>1
  <2> QED BY <1>5, <2>1
<1>13. d[n + 2] = x
  BY <1>5, <1>12, CopyAll
<1> QED BY <1>8, <1>13 DEF s, x, hdrs
=============================================================================
