------------------------------ MODULE WSFrame ------------------------------
(***************************************************************************)
(* WriteWSFrame and ReadWSFrame of codec/ws.go. A frame is an item with    *)
(* the opcode as id, the fin bit as num and the payload as str.            *)
(***************************************************************************)
EXTENDS Bytes, Simd

WSOpClose == 8

\* mask is <<>> (a nil pointer) or the four bytes of the key.
WriteWSFrame(frame, mask) ==
  LET n  == Len(frame.str)
      b0 == frame.id + 128 * frame.num
      b1 == IF mask = <<>> THEN 0 ELSE 128
      length == CASE n <= 125 -> <<b1 + n>>
                  [] n > 125 /\ n < 256^Len16 -> <<b1 + 126>> \o BigEndian(n, Len16)
                  [] OTHER -> <<b1 + 127>> \o BigEndian(n, Len64)
  IN  <<b0>> \o length \o mask \o
        (IF mask = <<>> THEN frame.str ELSE unmaskVectorized(frame.str, mask))

\* io.ReadFull of n > 0 bytes: an EOF before the first of them is a plain EOF.
ReadFull(data, pos, n) ==
  CASE pos + n <= Len(data) -> [err |-> "none", got |-> Take(data, pos, n), pos |-> pos + n]
    [] pos = Len(data) -> [err |-> "EOF", got |-> <<>>, pos |-> pos]
    [] OTHER -> [err |-> "unexpectedEOF", got |-> <<>>, pos |-> Len(data)]

\* A read that the frame does not ask for.
NoRead(pos) == [err |-> "none", got |-> <<>>, pos |-> pos]

ReadWSFrame(data, pos) ==
  LET header == ReadFull(data, pos, 2)
      fin    == header.got[1] \div 128
      opcode == header.got[1] % 16
      masked == header.got[2] >= 128
      short  == header.got[2] % 128
      ext    == CASE short = 126 -> ReadFull(data, header.pos, Len16)
                  [] short = 127 -> ReadFull(data, header.pos, Len64)
                  [] OTHER -> NoRead(header.pos)
      length == CASE short = 126 -> Unsigned(ext.got)
                  [] short = 127 -> Signed(ext.got)      \* int64(uint64)
                  [] OTHER -> short
      key     == IF masked THEN ReadFull(data, ext.pos, 4) ELSE NoRead(ext.pos)
      payload == IF length > 0 THEN ReadFull(data, key.pos, length) ELSE NoRead(key.pos)
      plain   == IF masked THEN unmaskVectorized(payload.got, key.got) ELSE payload.got
  IN  IF header.err # "none" THEN Fail(header.err, header.pos)
      ELSE IF fin = 0 /\ opcode >= WSOpClose THEN Fail("fragmented", header.pos)
      ELSE IF ext.err # "none" THEN Fail(ext.err, ext.pos)
      ELSE IF key.err # "none" THEN Fail(key.err, key.pos)
      ELSE IF payload.err # "none" THEN Fail(payload.err, payload.pos)
      ELSE Done(Item("frame", opcode, fin, plain), payload.pos)
=============================================================================
