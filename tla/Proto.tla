------------------------------- MODULE Proto -------------------------------
(***************************************************************************)
(* ProtoEncoder and ProtoDecoder of codec/proto.go, and ReadVarint of      *)
(* codec/codec.go, as functions from items to bytes and from bytes and a   *)
(* cursor to results.                                                      *)
(*                                                                         *)
(* WordBits is 64 in the code. As 64 = 9 * 7 + 1, the last group of a      *)
(* varint of full length holds one bit; the assumption keeps that.         *)
(***************************************************************************)
EXTENDS Bytes, FiniteSetsExt

CONSTANT WordBits

ASSUME WordAssumption == WordBits \in Nat /\ WordBits > 7 /\ WordBits % 7 = 1

Word == 2^WordBits
ToInt(w) == IF w >= Word \div 2 THEN w - Word ELSE w   \* int64(w)
MaxVarintLen == (WordBits + 6) \div 7

WireVarint  == 0
WireFixed64 == 1
WireBytes   == 2
WireFixed32 == 5

(***************************************************************************)
(* Varints: groups of 7 bits, lowest first, all but the last one marked.   *)
(***************************************************************************)
appendVarint(v) ==
  LET n == Min({k \in 1..MaxVarintLen : k = MaxVarintLen \/ v < 128^k})
  IN  [i \in 1..n |-> ((v \div 128^(i - 1)) % 128) + (IF i < n THEN 128 ELSE 0)]

\* The value of the n groups from pos on; what a shift moves beyond the word
\* is lost.
Groups(data, pos, n) ==
  FoldLeft(LAMBDA v, i :
             LET shift == 7 * (i - 1)
             IN  v + ((At(data, pos + i - 1) % 128) % 2^(WordBits - shift)) * 2^shift,
           0, [i \in 1..n |-> i])

\* The lengths at which a varint at pos can end.
Ends(data, pos) ==
  {n \in 1..MaxVarintLen : pos + n <= Len(data) /\ At(data, pos + n - 1) < 128}

DecodeVarint(data, pos) ==
  LET ends == Ends(data, pos)
  IN  CASE ends # {} -> Done(Num("varint", Groups(data, pos, Min(ends))), pos + Min(ends))
        [] ends = {} /\ pos + MaxVarintLen <= Len(data) -> Fail("malformed", pos + MaxVarintLen)
        [] OTHER -> Fail("unexpectedEOF", IF pos > Len(data) THEN pos ELSE Len(data))

\* Reader.ReadVarint on the stream data from pos on.
ReadVarint(data, pos) ==
  LET ends == Ends(data, pos)
      n == Min(ends)
  IN  CASE ends = {} /\ pos + MaxVarintLen > Len(data) -> Fail("EOF", Len(data))
        [] ends = {} /\ pos + MaxVarintLen <= Len(data) -> Fail("overflow", pos + MaxVarintLen)
        [] ends # {} /\ n = MaxVarintLen /\ At(data, pos + n - 1) > 1 -> Fail("overflow", pos + n)
        [] OTHER -> Done(Num("varint", Groups(data, pos, n)), pos + n)

(***************************************************************************)
(* ZigZag: x ^ y for a y of zeros or of ones is x or its complement.       *)
(***************************************************************************)
ZigZag(val) ==
  LET v == (2 * val) % Word IN IF val >= 0 THEN v ELSE Word - 1 - v
UnZigZag(v) ==
  ToInt(IF v % 2 = 0 THEN v \div 2 ELSE Word - 1 - v \div 2)

LittleEndian(v, n) == Reverse(BigEndian(v, n))

encodeTag(field, wire) == appendVarint((field * 8 + wire) % Word)

(***************************************************************************)
(* The Encode functions for a field with number item.id.                   *)
(***************************************************************************)
EncodeField(item) ==
  CASE item.kind = "varint" -> encodeTag(item.id, WireVarint) \o appendVarint(item.num)
    [] item.kind = "zigzag" -> encodeTag(item.id, WireVarint) \o appendVarint(ZigZag(item.num))
    [] item.kind = "fixed32" -> encodeTag(item.id, WireFixed32) \o LittleEndian(item.num, Len32)
    [] item.kind = "fixed64" -> encodeTag(item.id, WireFixed64) \o LittleEndian(item.num, Len64)
    [] item.kind \in {"string", "bytes"} ->
         encodeTag(item.id, WireBytes) \o appendVarint(Len(item.str)) \o item.str

(***************************************************************************)
(* NextField: the item's id is the field number, its num the wire type.    *)
(***************************************************************************)
NextField(data, pos) ==
  LET r == DecodeVarint(data, pos)
      field == r.item.num \div 8
  IN  CASE pos >= Len(data) -> Fail("EOF", pos)
        [] pos < Len(data) /\ r.err # "none" -> r
        [] pos < Len(data) /\ r.err = "none" /\ field <= 0 -> Fail("malformed", r.pos)
        [] OTHER -> Done(Item("tag", field, r.item.num % 8, <<>>), r.pos)

DecodeFixed(kind, n, data, pos) ==
  IF pos + n > Len(data) THEN Fail("unexpectedEOF", pos)
  ELSE Done(Num(kind, Unsigned(Reverse(Take(data, pos, n)))), pos + n)

DecodeZigZag64(data, pos) ==
  LET r == DecodeVarint(data, pos)
  IN  IF r.err # "none" THEN r ELSE Done(Num("zigzag", UnZigZag(r.item.num)), r.pos)

\* The length is converted to int, and the sum with the cursor may wrap.
TooLong(r, data) == ToInt((r.pos + r.item.num) % Word) > Len(data)

DecodeBlob(kind, data, pos, scope) ==
  LET r == DecodeVarint(data, pos)
      l == ToInt(r.item.num)
      item == Str(kind, Take(data, r.pos, l))
  IN  CASE r.err # "none" -> r
        [] r.err = "none" /\ TooLong(r, data) -> Fail("unexpectedEOF", r.pos)
        [] r.err = "none" /\ ~TooLong(r, data) /\ (l < 0 \/ r.pos + l > Len(data)) ->
             Fail("panic", r.pos)
        [] OTHER -> AllocSlice(scope /\ l > 0, item, r.pos + l)

SkipField(wire, data, pos) ==
  LET r == DecodeVarint(data, pos)
      skipped == Num("skipped", 0)
      Over(n) == IF pos + n > Len(data) THEN Fail("unexpectedEOF", pos)
                 ELSE Done(skipped, pos + n)
  IN  CASE wire = WireVarint -> IF r.err # "none" THEN r ELSE Done(skipped, r.pos)
        [] wire = WireFixed64 -> Over(Len64)
        [] wire = WireFixed32 -> Over(Len32)
        [] wire = WireBytes ->
             CASE r.err # "none" -> r
               [] r.err = "none" /\ TooLong(r, data) -> Fail("unexpectedEOF", r.pos)
               [] OTHER -> Done(skipped, ToInt((r.pos + r.item.num) % Word))
        [] OTHER -> Fail("wire", pos)

(***************************************************************************)
(* What a client does for a field: it reads the tag, and then decodes the  *)
(* payload as its schema says, or skips a field it does not need.          *)
(***************************************************************************)
DecodePayload(kind, wire, data, pos, scope) ==
  CASE kind = "varint"  -> DecodeVarint(data, pos)
    [] kind = "zigzag"  -> DecodeZigZag64(data, pos)
    [] kind = "fixed32" -> DecodeFixed(kind, Len32, data, pos)
    [] kind = "fixed64" -> DecodeFixed(kind, Len64, data, pos)
    [] kind \in {"string", "bytes"} -> DecodeBlob(kind, data, pos, scope)
    [] kind = "skip"    -> SkipField(wire, data, pos)

DecodeField(kind, data, pos, scope) ==
  LET tag == NextField(data, pos)
      r == DecodePayload(kind, tag.item.num, data, tag.pos, scope)
  IN  CASE tag.err # "none" -> tag
        [] tag.err = "none" /\ r.err # "none" -> r
        [] OTHER -> Done([r.item EXCEPT !.id = tag.item.id], r.pos)
=============================================================================
