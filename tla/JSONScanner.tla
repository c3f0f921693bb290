---------------------------- MODULE JSONScanner ----------------------------
(***************************************************************************)
(* JSONScanner of codec/json.go: Next as a function from the text and the  *)
(* cursor to the next token. Characters are their ASCII codes.             *)
(***************************************************************************)
EXTENDS Bytes, Simd

Quote     == \h22
Backslash == \h5c
Colon     == 58
Comma     == 44
Blank     == {9, 10, 13, 32}
Digit     == 48..57
NumberChar == Digit \cup {43, 45, 46, 69, 101}

true  == <<116, 114, 117, 101>>
false == <<102, 97, 108, 115, 101>>
null  == <<110, 117, 108, 108>>

Bracket == [b \in {91, 93, 123, 125} |->
              CASE b = 123 -> "objectStart" [] b = 125 -> "objectEnd"
                [] b = 91  -> "arrayStart"  [] b = 93  -> "arrayEnd"]

\* The first position from p on that holds no character of cs.
SkipChars(data, p, cs) ==
  Min({q \in p..Len(data) : q = Len(data) \/ At(data, q) \notin cs} \cup
      (IF p > Len(data) THEN {p} ELSE {}))

skipWhitespace(data, pos) == SkipChars(data, pos, Blank \cup {Comma, Colon})

(***************************************************************************)
(* strconv.Unquote, for the escapes it shares with JSON and for others.    *)
(***************************************************************************)
Escape == [c \in {Quote, Backslash, 110} |-> IF c = 110 THEN 10 ELSE c]

Unquote(raw) ==
  LET out[i \in 1..(Len(raw) + 2)] ==
        IF i > Len(raw) THEN <<>>
        ELSE IF raw[i] = Backslash THEN <<Escape[raw[i + 1]]>> \o out[i + 2]
        ELSE <<raw[i]>> \o out[i + 1]
      bad == \E i \in 1..Len(raw) : raw[i] = 10
  IN  [ok |-> ~bad, str |-> IF bad THEN <<>> ELSE out[1]]

(***************************************************************************)
(* scanString: jump over words without quote and backslash, then go on     *)
(* byte by byte, two bytes for an escape, up to the closing quote.         *)
(***************************************************************************)
scanString(data, pos, scope) ==
  LET start == pos + 1
      close[p \in 0..(Len(data) + 1)] ==
        CASE p >= Len(data) -> p
          [] p < Len(data) /\ At(data, p) = Backslash -> close[p + 2]
          [] p < Len(data) /\ At(data, p) = Quote -> p
          [] OTHER -> close[p + 1]
      fast == SkipWords(data, start, {Quote, Backslash})
      end  == close[fast]
      raw  == Take(data, start, end - start)
      escaped == \E i \in (fast + 1)..end : data[i] = Backslash
      unquoted == Unquote(raw)
  IN  CASE end >= Len(data) -> Fail("malformed", end)
        [] end < Len(data) /\ ~escaped -> AllocSlice(scope, Str("string", raw), end + 1)
        [] end < Len(data) /\ escaped /\ ~unquoted.ok -> Fail("malformed", end + 1)
        [] OTHER -> AllocSlice(scope, Str("string", unquoted.str), end + 1)

\* A word of the language at pos.
Literal(data, pos, words, kind) ==
  LET here == {w \in words : pos + Len(w) <= Len(data) /\ Take(data, pos, Len(w)) = w}
  IN  IF here = {} THEN Fail("malformed", pos)
      ELSE LET w == CHOOSE x \in here : TRUE IN Done(Str(kind, w), pos + Len(w))

scanNumber(data, pos) ==
  LET end == SkipChars(data, pos, NumberChar)
  IN  Done(Str("number", Take(data, pos, end - pos)), end)

\* A string followed by a colon is a key, and the colon is consumed.
KeyOrString(data, r) ==
  LET peek == SkipChars(data, r.pos, Blank)
  IN  IF r.err = "none" /\ peek < Len(data) /\ At(data, peek) = Colon
      THEN Done([r.item EXCEPT !.kind = "key"], peek + 1)
      ELSE r

JSONNext(data, pos0, scope) ==
  LET pos == skipWhitespace(data, pos0)
      b   == At(data, pos)
  IN  IF pos >= Len(data) THEN Fail("EOF", pos)
      ELSE CASE b \in DOMAIN Bracket -> Done(Num(Bracket[b], 0), pos + 1)
             [] b = Quote -> KeyOrString(data, scanString(data, pos, scope))
             [] b \in {true[1], false[1]} -> Literal(data, pos, {true, false}, "bool")
             [] b = null[1] -> Literal(data, pos, {null}, "null")
             [] b \in Digit \cup {45} -> scanNumber(data, pos)
             [] OTHER -> Fail("malformed", pos)

(***************************************************************************)
(* The text of a token, as some writer of JSON puts it.                    *)
(***************************************************************************)
Quoted(s) ==
  LET esc(c) == CASE c \in {Quote, Backslash} -> <<Backslash, c>>
                  [] c = 10 -> <<Backslash, 110>>
                  [] OTHER -> <<c>>
  IN  <<Quote>> \o FlattenSeq([i \in 1..Len(s) |-> esc(s[i])]) \o <<Quote>>

JSONText(item) ==
  CASE item.kind = "key" -> Quoted(item.str) \o <<32, Colon>>
    [] item.kind = "string" -> Quoted(item.str) \o <<Comma>>
    [] item.kind \in {"number", "bool", "null"} -> item.str \o <<Comma, 10>>
    [] OTHER -> <<CHOOSE b \in DOMAIN Bracket : Bracket[b] = item.kind>>
=============================================================================
