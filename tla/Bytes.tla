------------------------------- MODULE Bytes -------------------------------
(***************************************************************************)
(* What the decoders of package codec share: byte strings, the fixed-width *)
(* integers of encoding/binary, and the form of a decoder's result.        *)
(*                                                                         *)
(* Bytes have 8 bits, as in the code. The widths of the longer integers    *)
(* are parameters (2, 4 and 8 bytes in the code), so that the case         *)
(* distinctions at each width can be reached with the integers of TLC.     *)
(***************************************************************************)
EXTENDS Integers, Sequences, SequencesExt

CONSTANTS Len16, Len32, Len64

ASSUME WidthAssumption ==
  /\ {Len16, Len32, Len64} \subseteq Nat
  /\ 1 < Len16 /\ Len16 < Len32 /\ Len32 < Len64

Byte == 0..255

(***************************************************************************)
(* A decoded item. Formats use the fields they need: id is a field number  *)
(* or an opcode, num a number, str a byte string.                          *)
(***************************************************************************)
Item(kind, id, num, str) == [kind |-> kind, id |-> id, num |-> num, str |-> str]
Num(kind, n) == Item(kind, 0, n, <<>>)
Str(kind, s) == Item(kind, 0, 0, s)

(***************************************************************************)
(* A decoder leaves its cursor at pos and returns an item or an error.     *)
(* "panic" stands for a run-time panic of the caller's goroutine.          *)
(***************************************************************************)
Done(item, pos) == [err |-> "none", item |-> item, pos |-> pos]
Fail(err, pos)  == [err |-> err, item |-> Num("nothing", 0), pos |-> pos]

At(data, p)      == data[p + 1]
Take(data, p, n) == SubSeq(data, p + 1, p + n)

(***************************************************************************)
(* A byte string is copied into a scope with AllocSlice, which panics for  *)
(* length 0 (AllocAligned does); without a scope it goes to the heap.      *)
(***************************************************************************)
AllocSlice(scope, item, pos) ==
  IF scope /\ item.str = <<>> THEN Fail("panic", pos) ELSE Done(item, pos)

(***************************************************************************)
(* binary.BigEndian: the n bytes of v in two's complement, and back.       *)
(***************************************************************************)
BigEndian(v, n) == [i \in 1..n |-> (v \div 256^(n - i)) % 256]
Unsigned(bs) == FoldLeft(LAMBDA v, b : 256 * v + b, 0, bs)
Signed(bs) ==
  FoldLeft(LAMBDA v, b : 256 * v + b, IF bs[1] >= 128 THEN -1 ELSE 0, bs)
=============================================================================
