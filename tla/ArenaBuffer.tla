---------------------------- MODULE ArenaBuffer ----------------------------
(***************************************************************************)
(* The ArenaBuffer of buffer.go as operators on its record: buf, the slice *)
(* of its memory, and len, how much of it is written.  `used` counts the   *)
(* bytes it has taken from its scope; memory it has grown out of stays     *)
(* with the scope.                                                         *)
(***************************************************************************)
EXTENDS Integers, Sequences

CONSTANT Slack     \* what grow adds to a request that doubling cannot meet (64)

ASSUME BufferAssumption == Slack \in Nat \ {0}

Blank(n) == [i \in 1..n |-> 0]

NewArenaBuffer(initialCap) == [buf |-> Blank(initialCap), len |-> 0, used |-> initialCap]

NewCap(b, required) ==
  IF 2 * Len(b.buf) < required THEN required + Slack ELSE 2 * Len(b.buf)

(***************************************************************************)
(* grow: new memory, and the bytes written so far copied into it.          *)
(***************************************************************************)
Grow(b, extra) ==
  LET required == b.len + extra
      n == NewCap(b, required)
  IN  IF required <= Len(b.buf) THEN b
      ELSE [b EXCEPT !.buf = [i \in 1..n |-> IF i <= b.len THEN b.buf[i] ELSE 0],
                     !.used = @ + n]

\* copy(b.buf[b.len:], p)
Put(b, p) ==
  [b EXCEPT !.buf = [i \in DOMAIN @ |-> IF i - b.len \in DOMAIN p THEN p[i - b.len] ELSE @[i]],
            !.len = @ + Len(p)]

(***************************************************************************)
(* Write, and with the bytes they produce WriteString, WriteByte, WriteInt *)
(* and WriteUint.                                                          *)
(***************************************************************************)
Write(b, p) == Put(Grow(b, Len(p)), p)

Bytes(b) == SubSeq(b.buf, 1, b.len)
============================================================================
