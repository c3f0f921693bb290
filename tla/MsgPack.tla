------------------------------ MODULE MsgPack ------------------------------
(***************************************************************************)
(* MsgPackEncoder and MsgPackDecoder of codec/msgpack.go as functions from *)
(* items to bytes and from bytes and a cursor to results. The tag bytes    *)
(* are those of the source.                                                *)
(***************************************************************************)
EXTENDS Bytes, FiniteSetsExt

(***************************************************************************)
(* How strings, byte strings, arrays and maps give their size: in the tag  *)
(* itself for the tags of fix, else in the bytes after one of the wide     *)
(* tags, listed with their widths, smallest first.                         *)
(***************************************************************************)
StringHeader == [fix |-> \ha0..\hbf, wide |-> << <<\hd9, 1>>, <<\hda, Len16>>, <<\hdb, Len32>> >>]
BytesHeader  == [fix |-> {},         wide |-> << <<\hc4, 1>>, <<\hc5, Len16>>, <<\hc6, Len32>> >>]
ArrayHeader  == [fix |-> \h90..\h9f, wide |-> << <<\hdc, Len16>>, <<\hdd, Len32>> >>]
MapHeader    == [fix |-> \h80..\h8f, wide |-> << <<\hde, Len16>>, <<\hdf, Len32>> >>]

\* Mutant: one size too many goes into the tag (l <= 32).
EncodeHeader_OneMore(h, n) ==
  IF n <= Cardinality(h.fix) /\ h.fix # {} THEN <<Min(h.fix) + n>>
  ELSE LET w == CHOOSE i \in DOMAIN h.wide :
                  /\ i = Len(h.wide) \/ n < 256^h.wide[i][2]
                  /\ \A j \in 1..(i - 1) : n >= 256^h.wide[j][2]
       IN  <<h.wide[w][1]>> \o BigEndian(n, h.wide[w][2])

(***************************************************************************)
(* The encoder's headers: the first form that holds the size.              *)
(***************************************************************************)
EncodeHeader(h, n) ==
  IF n < Cardinality(h.fix) THEN <<Min(h.fix) + n>>
  ELSE LET w == CHOOSE i \in DOMAIN h.wide :
                  /\ i = Len(h.wide) \/ n < 256^h.wide[i][2]
                  /\ \A j \in 1..(i - 1) : n >= 256^h.wide[j][2]
       IN  <<h.wide[w][1]>> \o BigEndian(n, h.wide[w][2])

EncodeNil == <<\hc0>>
EncodeBool(v) == IF v = 1 THEN <<\hc3>> ELSE <<\hc2>>

Fits(v, n) == -(2^(8 * n - 1)) <= v /\ v < 2^(8 * n - 1)

EncodeInt(v) ==
  CASE v \in -32..127 -> BigEndian(v, 1)
    [] v \notin -32..127 /\ Fits(v, 1) -> <<\hd0>> \o BigEndian(v, 1)
    [] ~Fits(v, 1) /\ Fits(v, Len16) -> <<\hd1>> \o BigEndian(v, Len16)
    [] ~Fits(v, Len16) /\ Fits(v, Len32) -> <<\hd2>> \o BigEndian(v, Len32)
    [] OTHER -> <<\hd3>> \o BigEndian(v, Len64)

EncodeString(s) == EncodeHeader(StringHeader, Len(s)) \o s
EncodeBytes(s)  == EncodeHeader(BytesHeader, Len(s)) \o s
EncodeArrayHeader(n) == EncodeHeader(ArrayHeader, n)
EncodeMapHeader(n)   == EncodeHeader(MapHeader, n)

(***************************************************************************)
(* Other encoders also use the unsigned tags, and floats; num is then the  *)
(* bit pattern.                                                            *)
(***************************************************************************)
UintHeader ==
  [fix |-> {}, wide |-> << <<\hcc, 1>>, <<\hcd, Len16>>, <<\hce, Len32>>, <<\hcf, Len64>> >>]

ForeignEncode(item) ==
  CASE item.kind = "uint" -> EncodeHeader(UintHeader, item.num)
    [] item.kind = "float32" -> <<\hca>> \o BigEndian(item.num, Len32)
    [] item.kind = "float64" -> <<\hcb>> \o BigEndian(item.num, Len64)

(***************************************************************************)
(* The decoder.                                                            *)
(***************************************************************************)
DecodeNil(data, pos) ==
  CASE pos >= Len(data) -> Fail("EOF", pos)
    [] pos < Len(data) /\ At(data, pos) # \hc0 -> Fail("mismatch", pos)
    [] OTHER -> Done(Num("nil", 0), pos + 1)

DecodeBool(data, pos) ==
  CASE pos >= Len(data) -> Fail("EOF", pos)
    [] pos < Len(data) /\ At(data, pos) \notin {\hc2, \hc3} -> Fail("mismatch", pos)
    [] OTHER -> Done(Num("bool", At(data, pos) - \hc2), pos + 1)

\* The n bytes after the tag at pos, as an item made by Value; short data
\* leaves the cursor where it is.
Wide(data, pos, n, Value(_)) ==
  IF pos + 1 + n > Len(data) THEN Fail("unexpectedEOF", pos)
  ELSE Done(Value(Take(data, pos + 1, n)), pos + 1 + n)

\* Mutant: int 8 is not converted to a signed byte.
IntValue_Int8(tag, bs) ==
  Num("int", IF tag \in \hcc..\hce \cup {\hd0} THEN Unsigned(bs) ELSE Signed(bs))

\* int64(v) of an unsigned value that fills the word reads it as signed.
IntValue(tag, bs) ==
  Num("int", IF tag \in \hcc..\hce THEN Unsigned(bs) ELSE Signed(bs))

DecodeInt(data, pos) ==
  IF pos >= Len(data) THEN Fail("EOF", pos)
  ELSE LET b == At(data, pos)
           width == <<1, Len16, Len32, Len64>>
       IN  CASE b <= \h7f -> Done(Num("int", b), pos + 1)
             [] b >= \he0 -> Done(Num("int", b - 256), pos + 1)
             [] b \in \hcc..\hd3 ->
                  Wide(data, pos, width[((b - \hcc) % 4) + 1],
                       LAMBDA bs : IntValue(b, bs))
             [] OTHER -> Fail("mismatch", pos)

DecodeFloat64(data, pos) ==
  CASE pos >= Len(data) -> Fail("EOF", pos)
    [] pos < Len(data) /\ At(data, pos) = \hca ->
         Wide(data, pos, Len32, LAMBDA bs : Num("float32", Unsigned(bs)))
    [] pos < Len(data) /\ At(data, pos) = \hcb ->
         Wide(data, pos, Len64, LAMBDA bs : Num("float64", Signed(bs)))
    [] OTHER -> Fail("mismatch", pos)

DecodeHeader(h, kind, data, pos) ==
  IF pos >= Len(data) THEN Fail("EOF", pos)
  ELSE LET b == At(data, pos)
           w == SelectInSeq(h.wide, LAMBDA t : t[1] = b)
       IN  CASE b \in h.fix -> Done(Num(kind, b - Min(h.fix)), pos + 1)
             [] w # 0 -> Wide(data, pos, h.wide[w][2],
                              LAMBDA bs : Num(kind, Unsigned(bs)))
             [] OTHER -> Fail("mismatch", pos)

DecodeArrayHeader(data, pos) == DecodeHeader(ArrayHeader, "array", data, pos)
DecodeMapHeader(data, pos)   == DecodeHeader(MapHeader, "map", data, pos)

\* Mutant: a short payload is reported as the end of the data.
Payload_PlainEOF(r, kind, data, scope) ==
  LET n == r.item.num
  IN  IF r.pos + n > Len(data) THEN Fail("EOF", r.pos)
      ELSE AllocSlice(scope, Str(kind, Take(data, r.pos, n)), r.pos + n)

\* The cursor is past the header when the data turn out too short.
Payload(r, kind, data, scope) ==
  LET n == r.item.num
  IN  IF r.pos + n > Len(data) THEN Fail("unexpectedEOF", r.pos)
      ELSE AllocSlice(scope, Str(kind, Take(data, r.pos, n)), r.pos + n)

DecodeString(data, pos, scope) ==
  LET r == DecodeHeader(StringHeader, "string", data, pos)
  IN  IF r.err # "none" THEN r ELSE Payload(r, "string", data, scope)

DecodeBytes(data, pos, scope) ==
  LET r == DecodeHeader(BytesHeader, "bytes", data, pos)
  IN  IF r.err # "none" THEN r ELSE Payload(r, "bytes", data, scope)
=============================================================================
