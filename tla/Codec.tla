------------------------------- MODULE Codec -------------------------------
(***************************************************************************)
(* What the headers and trailers of a call carry, and how: the deadline,   *)
(* the application's metadata and the status.  Each conversion works on    *)
(* sequences of bytes, of a size that a parameter gives: the code has two  *)
(* hex digits to a byte and regroups three bytes of 8 bits as four digits  *)
(* of 6; here a byte of a message has two digits of radix Radix, and three *)
(* binary bytes of 4 bits are four digits of 3.                            *)
(***************************************************************************)
EXTENDS Naturals, Sequences, SequencesExt

CONSTANTS
    Units,         \* kUnits, the finest first
    MaxValue,      \* kMaxTimeoutValue
    MaxNs,         \* kMaxNs
    Radix,         \* hex digits
    MaxMetadata    \* max_metadata_size_

(* A unit is a multiple of every finer one.                                *)
ASSUME UnitsAssumption ==
    /\ Units \in Seq(Nat \ {0}) /\ Units # <<>>
    /\ \A i, j \in 1..Len(Units) : i <= j => Units[j] % Units[i] = 0
(* Eight digits of hours exceed the largest duration.                      *)
ASSUME LimitsAssumption ==
    /\ MaxValue \in Nat \ {0} /\ MaxNs \in Nat /\ MaxMetadata \in Nat
    /\ MaxNs <= MaxValue * Units[Len(Units)]
ASSUME RadixAssumption == Radix \in Nat \ {0, 1}

-----------------------------------------------------------------------------
(* timeout.cc                                                              *)

RoundUp(ns, u) == (ns + u - 1) \div u

(* Mutant: the value is cut off.                                           *)
FormatTimeout_RoundsDown(ns) ==
    LET fits(i)    == ns \div Units[i] <= MaxValue
        coarser(i) == i < Len(Units) /\ ns % Units[i + 1] = 0
        usable     == {i \in 1..Len(Units) : fits(i) /\ ~coarser(i)}
    IN  IF usable = {} THEN <<MaxValue, Len(Units)>>
                       ELSE <<ns \div Units[Min(usable)], Min(usable)>>

(* The finest unit with a value of eight digits, unless a coarser one is   *)
(* exact.  Only a positive duration is formatted.                          *)
FormatTimeout(ns) ==
    LET fits(i)    == RoundUp(ns, Units[i]) <= MaxValue
        coarser(i) == i < Len(Units) /\ ns % Units[i + 1] = 0
        usable     == {i \in 1..Len(Units) : fits(i) /\ ~coarser(i)}
    IN  IF usable = {} THEN <<MaxValue, Len(Units)>>
                       ELSE <<RoundUp(ns, Units[Min(usable)]), Min(usable)>>

(* All the durations a header can express.                                 *)
Expressible == {v * Units[i] : v \in 1..MaxValue, i \in 1..Len(Units)}

(* nullopt and a count of zero both leave the call without a deadline: 0.  *)
ParseTimeout(t) == IF t[1] > MaxNs \div Units[t[2]] THEN 0 ELSE t[1] * Units[t[2]]

-----------------------------------------------------------------------------
(* grpc-message.  The byte v is the digit v for v < Radix, and the percent *)
(* sign is the byte Radix; it and all bytes above it are escaped.          *)

Percent == Radix

Char == 0..(Radix * Radix - 1)

Escape(v) == IF v < Percent THEN <<v>> ELSE <<Percent, v \div Radix, v % Radix>>

PercentEncode(m) ==
    LET out[k \in 0..Len(m)] == IF k = 0 THEN <<>> ELSE out[k - 1] \o Escape(m[k])
    IN  out[Len(m)]

(* Mutant: an escape at the very end is not seen.                          *)
DecodeChar_MissesLast(e, acc, i) ==
    IF acc.skip > 0 THEN [acc EXCEPT !.skip = @ - 1]
    ELSE IF e[i] = Percent /\ i + 2 < Len(e) /\ e[i + 1] < Radix /\ e[i + 2] < Radix
         THEN [out |-> Append(acc.out, e[i + 1] * Radix + e[i + 2]), skip |-> 2]
         ELSE [acc EXCEPT !.out = Append(@, e[i])]

(* One turn of the loop: skip is what an escape has read ahead.  A         *)
(* malformed escape is passed through.                                     *)
DecodeChar(e, acc, i) ==
    IF acc.skip > 0 THEN [acc EXCEPT !.skip = @ - 1]
    ELSE IF e[i] = Percent /\ i + 2 <= Len(e) /\ e[i + 1] < Radix /\ e[i + 2] < Radix
         THEN [out |-> Append(acc.out, e[i + 1] * Radix + e[i + 2]), skip |-> 2]
         ELSE [acc EXCEPT !.out = Append(@, e[i])]

PercentDecode(e) ==
    LET acc[i \in 0..Len(e)] ==
            IF i = 0 THEN [out |-> <<>>, skip |-> 0] ELSE DecodeChar(e, acc[i - 1], i)
    IN  acc[Len(e)].out

-----------------------------------------------------------------------------
(* A byte of a binary value.                                               *)
Byte == 0..15

(* Base64 without padding: three bytes give four digits, a rest of one or  *)
(* two bytes gives one digit more than it has bytes.                       *)

Group(data, g) ==
    LET byte(i) == IF i <= Len(data) THEN data[i] ELSE 0
    IN  byte(3 * g + 1) * 256 + byte(3 * g + 2) * 16 + byte(3 * g + 3)

Digit(v, j) == (v \div <<512, 64, 8, 1>>[j + 1]) % 8

EncodeBase64(data) ==
    [i \in 1..((4 * Len(data) + 2) \div 3) |->
        Digit(Group(data, (i - 1) \div 4), (i - 1) % 4)]

(* Padding ends the value and other characters are skipped in the code;    *)
(* this peer sends neither.  What is shifted out of buf is not looked at.  *)
DecodeDigit(acc, d) ==
    LET buf  == (acc.buf * 8 + d) % 65536
        bits == acc.bits + 3
    IN  IF bits < 4 THEN [acc EXCEPT !.buf = buf, !.bits = bits]
        ELSE [buf |-> buf, bits |-> bits - 4,
              out |-> Append(acc.out, (buf \div <<1, 2, 4>>[bits - 3]) % 16)]

DecodeBase64(digits) ==
    LET acc[k \in 0..Len(digits)] ==
            IF k = 0 THEN [buf |-> 0, bits |-> 0, out |-> <<>>]
                     ELSE DecodeDigit(acc[k - 1], digits[k])
    IN  acc[Len(digits)].out

-----------------------------------------------------------------------------
(* Metadata is a sequence of entries [key, value], in the order they were  *)
(* added; MetadataMap is a multimap, sorted by key, so only the order of   *)
(* the entries of one key is the code's.  A key stands for all keys that   *)
(* the code treats alike, and counts for one byte.                         *)

IsValidKey(k) == k \notin {"Invalid", ":path"}

IsReservedKey(k) == k \in {"grpc-timeout", "grpc-x", "content-type", ":path"}

IsBinaryKey(k) == k = "x-bin"

(* IsGrpcInternal and IsHttp2Pseudo.  Not every reserved key is internal.  *)
IsInternal(k) == k \in {"grpc-timeout", "content-type", ":path"}

ValidateAndAdd(md, e) ==
    IF IsValidKey(e.key) /\ ~IsReservedKey(e.key) THEN Append(md, e) ELSE md

ToHeader(e) == IF IsBinaryKey(e.key) THEN [e EXCEPT !.value = EncodeBase64(@)] ELSE e

MetadataToHeaders(md) ==
    LET out[k \in 0..Len(md)] ==
            IF k = 0 THEN <<>>
            ELSE IF IsValidKey(md[k].key) /\ ~IsReservedKey(md[k].key)
                 THEN Append(out[k - 1], ToHeader(md[k])) ELSE out[k - 1]
    IN  out[Len(md)]

(* Mutant: the value of a binary key is taken as it came.                  *)
FromHeader_Raw(h) == h

FromHeader(h) == IF IsBinaryKey(h.key) THEN [h EXCEPT !.value = DecodeBase64(@)] ELSE h

HeadersToMetadata(hdrs) ==
    LET out[k \in 0..Len(hdrs)] ==
            IF k = 0 THEN <<>>
            ELSE IF IsValidKey(hdrs[k].key) /\ ~IsInternal(hdrs[k].key)
                 THEN Append(out[k - 1], FromHeader(hdrs[k])) ELSE out[k - 1]
    IN  out[Len(hdrs)]

TotalSize(md) == FoldLeft(LAMBDA n, e : n + 1 + Len(e.value), 0, md)

-----------------------------------------------------------------------------
(* The status: [code, message, details] in the program, a record of        *)
(* strings in the trailers, where an empty message or details is left out  *)
(* and read as empty.                                                      *)

Status == [code : 0..16, message : Seq(Char), details : Seq(Byte)]

StatusText(code) == IF code < 10 THEN <<code>> ELSE <<code \div 10, code % 10>>

UNKNOWN == 2

(* A character that is no digit, a sign too, makes the code UNKNOWN, and   *)
(* so does more than 16, at whatever digit it shows.                       *)
StatusDigit(acc, d) ==
    IF acc.bad \/ d \notin 0..9 \/ acc.code * 10 + d > 16
    THEN [code |-> UNKNOWN, bad |-> TRUE]
    ELSE [code |-> acc.code * 10 + d, bad |-> FALSE]

ParseGrpcStatus(s) ==
    LET acc[k \in 0..Len(s)] ==
            IF k = 0 THEN [code |-> 0, bad |-> FALSE] ELSE StatusDigit(acc[k - 1], s[k])
    IN  acc[Len(s)].code

BuildTrailers(s) ==
    [status |-> StatusText(s.code), message |-> PercentEncode(s.message),
     details |-> EncodeBase64(s.details)]

ExtractTrailerStatus(t) ==
    [code |-> ParseGrpcStatus(t.status), message |-> PercentDecode(t.message),
     details |-> DecodeBase64(t.details)]
=============================================================================
