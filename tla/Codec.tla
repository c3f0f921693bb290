------------------------------- MODULE Codec -------------------------------
(***************************************************************************)
(* The codecs at work: a writer encodes items one after the other into a   *)
(* buffer or stream, all of it or only a part arrives, and a reader        *)
(* decodes until it meets an error. The reader knows which item should     *)
(* come next (its schema), reads strings into a scope or onto the heap,    *)
(* may skip a Protobuf field, and may try MessagePack items as something   *)
(* else first.                                                             *)
(***************************************************************************)
EXTENDS MsgPack, Proto, WSFrame, JSONScanner

CONSTANTS
  Inputs,      \* for each format what may be written: items, with the mask key
               \* for frames
  MaxItems,    \* bound: items in a message
  MaxBytes,    \* bound: the length of a message of more than one item
  SwarBound    \* bound: the longest data on which searches are compared

Formats == DOMAIN Inputs

VARIABLES
  format,      \* which codec is used
  sent,        \* what was written
  bounds,      \* the length of the encoding after each item
  data, pos,   \* what the reader got, and its cursor
  cut,         \* whether something is missing in it
  got,         \* what was decoded
  status       \* "writing", "reading", or the error that ended the reading

cvars == <<format, sent, bounds, data, pos, cut, got, status>>

Encode(in) ==
  LET item == in.item
  IN  CASE format = "proto" -> EncodeField(item)
        [] format = "ws"    -> WriteWSFrame(item, in.mask)
        [] format = "json"  -> JSONText(item)
        [] format = "msgpack" ->
             CASE item.kind = "nil"    -> EncodeNil
               [] item.kind = "bool"   -> EncodeBool(item.num)
               [] item.kind = "int"    -> EncodeInt(item.num)
               [] item.kind = "string" -> EncodeString(item.str)
               [] item.kind = "bytes"  -> EncodeBytes(item.str)
               [] item.kind = "array"  -> EncodeArrayHeader(item.num)
               [] item.kind = "map"    -> EncodeMapHeader(item.num)
               [] OTHER -> ForeignEncode(item)

\* The call of the reader for an item of the kind.
MsgPackDecode(kind, scope) ==
  CASE kind = "nil"  -> DecodeNil(data, pos)
    [] kind = "bool" -> DecodeBool(data, pos)
    [] kind \in {"int", "uint"} -> DecodeInt(data, pos)
    [] kind \in {"float32", "float64"} -> DecodeFloat64(data, pos)
    [] kind = "string" -> DecodeString(data, pos, scope)
    [] kind = "bytes"  -> DecodeBytes(data, pos, scope)
    [] kind = "array"  -> DecodeArrayHeader(data, pos)
    [] kind = "map"    -> DecodeMapHeader(data, pos)

Decode(kind, scope) ==
  CASE format = "msgpack" -> MsgPackDecode(kind, scope)
    [] format = "proto" -> DecodeField(kind, data, pos, scope)
    [] format = "ws"    -> ReadWSFrame(data, pos)
    [] format = "json"  -> JSONNext(data, pos, scope)

\* The kind of the item that the reader expects.
Expected == IF Len(got) < Len(sent) THEN sent[Len(got) + 1].kind
            ELSE IF format = "msgpack" THEN "nil" ELSE "varint"

Init ==
  /\ format \in Formats
  /\ sent = <<>> /\ bounds = <<>> /\ data = <<>> /\ pos = 0
  /\ cut = FALSE /\ got = <<>> /\ status = "writing"

Write(in) ==
  /\ status = "writing" /\ Len(sent) < MaxItems
  /\ data' = data \o Encode(in)
  /\ data = <<>> \/ Len(data') <= MaxBytes
  /\ sent' = Append(sent, in.item)
  /\ bounds' = Append(bounds, Len(data'))
  /\ UNCHANGED <<format, pos, cut, got, status>>

\* The first n bytes arrive. Where data are long, cuts are made near their
\* start and their end only.
Deliver(n) ==
  /\ status = "writing"
  /\ n <= 12 \/ n >= Len(data) - 2
  /\ data' = SubSeq(data, 1, n) /\ cut' = (n < Len(data))
  /\ status' = "reading"
  /\ UNCHANGED <<format, sent, bounds, pos, got>>

Took(r) ==
  /\ pos' = r.pos
  /\ IF r.err = "none" THEN got' = Append(got, r.item) /\ UNCHANGED status
                       ELSE status' = r.err /\ UNCHANGED got
  /\ UNCHANGED <<format, sent, bounds, data, cut>>

Read(scope) ==
  /\ status = "reading"
  /\ Took(Decode(Expected, scope))

Skip ==
  /\ status = "reading" /\ format = "proto"
  /\ Took(Decode("skip", FALSE))

\* A MessagePack reader that tries another type first; a mismatch leaves it
\* where it was.
Probe(kind) ==
  LET r == MsgPackDecode(kind, TRUE)
  IN  /\ status = "reading" /\ format = "msgpack"
      /\ r.err # "mismatch"
      /\ Took(r)

Stopped == status \notin {"writing", "reading"} /\ UNCHANGED cvars

Next ==
  \/ \E in \in Inputs[format] : Write(in)
  \/ \E n \in 0..Len(data) : Deliver(n)
  \/ \E scope \in BOOLEAN : Read(scope)
  \/ Skip
  \/ \E kind \in {i.item.kind : i \in Inputs["msgpack"]} : Probe(kind)
  \/ Stopped

Spec == Init /\ [][Next]_cvars

-----------------------------------------------------------------------------
(***************************************************************************)
(* Type: the cursor stays in the data; a backslash at the end of a cut     *)
(* text takes the JSON scanner one step beyond.                            *)
(***************************************************************************)
TypeOK ==
  /\ format \in Formats /\ cut \in BOOLEAN
  /\ data \in Seq(Byte)
  /\ pos \in 0..(Len(data) + (IF format = "json" THEN 1 ELSE 0))
  /\ Len(sent) <= MaxItems /\ Len(bounds) = Len(sent)
  /\ status \in {"writing", "reading", "EOF", "unexpectedEOF", "malformed",
                 "mismatch", "overflow", "wire", "fragmented", "panic"}

\* What a reader gets for a written item: unsigned numbers come as integers.
Meaning(item) == IF item.kind = "uint" THEN Num("int", item.num) ELSE item

(***************************************************************************)
(* Nothing is decoded that was not written, in that order: also not from   *)
(* data that are cut, nor by a reader that tries the wrong type or skips   *)
(* fields. (A JSON text that ends early may end in a shorter number, or in *)
(* a key without its colon.)                                               *)
(***************************************************************************)
ReadsBack ==
  format # "json" \/ ~cut =>
    /\ Len(got) <= Len(sent)
    /\ \A i \in DOMAIN got :
         \/ got[i] = Meaning(sent[i])
         \/ got[i] = Item("skipped", sent[i].id, 0, <<>>)

ControlFragment(item) == item.kind = "frame" /\ item.id >= WSOpClose /\ item.num = 0

(***************************************************************************)
(* A reader of complete data gets to the end: it stops with EOF when all   *)
(* items were decoded and all bytes consumed. Two things stop it before: a *)
(* fragmented control frame, which ReadWSFrame rejects and WriteWSFrame    *)
(* writes, and an empty string that MsgPackDecoder or JSONScanner copies   *)
(* into a scope, where AllocSlice panics. ProtoDecoder tests for it.       *)
(***************************************************************************)
ReadsAll ==
  ~cut /\ status \notin {"writing", "reading"} =>
    \/ status = "EOF" /\ Len(got) = Len(sent) /\ pos = Len(data)
    \/ status = "fragmented" /\ ControlFragment(sent[Len(got) + 1])
    \/ status = "panic" /\ format \in {"msgpack", "json"} /\ sent[Len(got) + 1].str = <<>>

(***************************************************************************)
(* The Protobuf and MessagePack readers say EOF only between two items: an *)
(* item of which a part is missing is never taken for the end of the data. *)
(***************************************************************************)
EOFAtBoundary ==
  format \in {"proto", "msgpack"} /\ status = "EOF" =>
    pos = IF got = <<>> THEN 0 ELSE bounds[Len(got)]

(***************************************************************************)
(* Reader.ReadVarint and ProtoDecoder.DecodeVarint are two implementations *)
(* of one encoding: wherever the first accepts, the second returns the     *)
(* same value and consumes the same bytes.                                 *)
(***************************************************************************)
ReadersAgree ==
  format = "proto" /\ status = "writing" =>
    \A p \in 0..Len(data) :
      ReadVarint(data, p).err = "none" => ReadVarint(data, p) = DecodeVarint(data, p)

(***************************************************************************)
(* The searches of simd.go, which test 8 bytes at once, return the first   *)
(* position that a search byte by byte finds.                              *)
(***************************************************************************)
First(bytes) ==
  LET hits == {j \in 0..(Len(data) - 1) : data[j + 1] \in bytes}
  IN  IF hits = {} THEN -1 ELSE Min(hits)

SearchExact ==
  Len(data) <= SwarBound /\ status = "writing" =>
    /\ FindQuoteOrEscape(data) = First({Quote, Backslash})
    /\ \A b \in {0, 1, 128, 255} \cup ToSet(data) : FindByte(data, b) = First({b})

(***************************************************************************)
(* RFC 6455: byte i of the payload is xored with byte i mod 4 of the key,  *)
(* whether it is in a whole word or in the rest.                           *)
(***************************************************************************)
MaskExact ==
  format = "ws" /\ Len(data) <= SwarBound /\ status = "writing" =>
    \A in \in Inputs["ws"] :
      in.mask # <<>> =>
        UnmaskBytesVectorized(data, in.mask) =
          [i \in 1..Len(data) |-> data[i] ^^ in.mask[((i - 1) % 4) + 1]]

(***************************************************************************)
(* A reader's cursor stays in the data; it says EOF only between items.    *)
(***************************************************************************)
CursorSound == TypeOK /\ EOFAtBoundary

(***************************************************************************)
(* The fast implementations of the codecs agree with the plain ones: the   *)
(* searches and the unmasking by words of 8 bytes with those by bytes, and *)
(* the two decoders of a varint with each other.                           *)
(***************************************************************************)
ImplementationsAgree == ReadersAgree /\ SearchExact /\ MaskExact
=============================================================================
