-------------------------------- MODULE Simd --------------------------------
(***************************************************************************)
(* The searches of codec/simd.go that look at 8 bytes at once, and the     *)
(* masking of WebSocket payloads. A 64-bit word is the sequence of its     *)
(* bytes, lowest first (binary.LittleEndian).                              *)
(***************************************************************************)
EXTENDS Integers, Sequences, FiniteSetsExt, Bitwise

\* Mutant: the highest byte of the mask hi8 is missing.
HasZeroByte64_SevenBytes(w) ==
  LET borrow[i \in 1..9] ==
        IF i = 1 THEN 0 ELSE IF w[i - 1] < 1 + borrow[i - 1] THEN 1 ELSE 0
  IN  \E i \in 1..7 : (w[i] - 1 - borrow[i]) % 256 >= 128 /\ w[i] < 128

(***************************************************************************)
(* w - lo8, a borrow going from each byte to the next, and then the bytes  *)
(* whose high bit is set in the difference but not in w.                   *)
(***************************************************************************)
HasZeroByte64(w) ==
  LET borrow[i \in 1..9] ==
        IF i = 1 THEN 0 ELSE IF w[i - 1] < 1 + borrow[i - 1] THEN 1 ELSE 0
  IN  \E i \in 1..8 : (w[i] - 1 - borrow[i]) % 256 >= 128 /\ w[i] < 128

WordAt(data, i) == SubSeq(data, i + 1, i + 8)
HasByte(w, b)   == HasZeroByte64([i \in 1..8 |-> w[i] ^^ b])

\* Where a scan from position i stops jumping: at the first word with one of
\* the bytes, or where less than a word is left.
SkipWords(data, i, bytes) ==
  LET whole == {k \in 0..((Len(data) - i) \div 8) :
                  \/ i + 8 * k + 8 > Len(data)
                  \/ \E b \in bytes : HasByte(WordAt(data, i + 8 * k), b)}
  IN  i + 8 * Min(whole)

\* The two loops of FindByte and FindQuoteOrEscape.
FindAny(data, bytes) ==
  LET found == {j \in SkipWords(data, 0, bytes)..(Len(data) - 1) : data[j + 1] \in bytes}
  IN  IF found = {} THEN -1 ELSE Min(found)

FindByte(data, target)  == FindAny(data, {target})
FindQuoteOrEscape(data) == FindAny(data, {\h22, \h5c})

(***************************************************************************)
(* Whole words are xored with the mask written twice, the rest byte by     *)
(* byte with mask[i%4].                                                    *)
(***************************************************************************)
unmaskVectorized(b, mask) ==
  LET words  == 8 * (Len(b) \div 8)
      mask64 == mask \o mask
  IN  [i \in 1..Len(b) |->
         b[i] ^^ (IF i <= words THEN mask64[((i - 1) % 8) + 1]
                                ELSE mask[((i - 1) % 4) + 1])]

\* The same code once more, in simd.go.
UnmaskBytesVectorized(payload, mask) == unmaskVectorized(payload, mask)
=============================================================================
