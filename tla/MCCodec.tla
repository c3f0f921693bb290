------------------------------ MODULE MCCodec ------------------------------
(***************************************************************************)
(* Inputs for the codecs: the values at which the encoders change the form *)
(* of what they write, and strings with the characters that matter to the  *)
(* JSON scanner in and across words of 8 bytes.                            *)
(***************************************************************************)
EXTENDS Codec

CONSTANT Long   \* lengths of long strings

Fill(n) == [i \in 1..n |-> 97 + (i % 3)]
Plain(items) == {[item |-> i, mask |-> <<>>] : i \in items}

Ints == {0, 127, 128, -1, -32, -33, -128, -129, 32767, -32768, 32768, -32769,
         2^23 - 1, 2^23, -(2^23), -(2^23) - 1}

MsgPackItems ==
  {Num("nil", 0), Num("bool", 0), Num("bool", 1), Num("float32", 5), Num("float64", 2^30 + 3)}
    \cup {Num("int", n) : n \in Ints}
    \cup {Num("uint", n) : n \in {0, 128, 255, 256, 65535, 65536, 2^24 - 1, 2^24}}
    \cup {Str(k, Fill(n)) : k \in {"string", "bytes"}, n \in {0, 1, 31, 32} \cup Long}
    \cup {Num(k, n) : k \in {"array", "map"}, n \in {0, 15, 16, 65535, 65536}}

ProtoItems ==
  {Item("varint", f, n, <<>>) : f \in {1, 15, 16}, n \in {0, 127, 128, 2^21, 2^28 - 1, 2^28, 2^29 - 1}}
    \cup {Item("zigzag", 1, n, <<>>) : n \in {0, 1, -1, 63, -64, 64, 2^28 - 1, -(2^28)}}
    \cup {Item("fixed32", 2, n, <<>>) : n \in {0, 2^24 - 1}}
    \cup {Item("fixed64", 2, n, <<>>) : n \in {0, 2^24, 2^30 + 1}}
    \cup {Item(k, 3, 0, Fill(n)) : k \in {"string", "bytes"}, n \in {0, 1, 127, 128}}

WSInputs ==
  {[item |-> Item("frame", op, fin, Fill(n)), mask |-> m] :
     op \in {0, 1, 9}, fin \in {0, 1}, n \in {0, 3, 8, 13}, m \in {<<>>, <<1, 0, 128, 255>>}}
    \cup Plain({Item("frame", 2, 1, Fill(n)) : n \in {125, 126} \cup Long})

JSONItems ==
  {Num(k, 0) : k \in {"objectStart", "objectEnd", "arrayStart", "arrayEnd"}}
    \cup {Str("bool", true), Str("bool", false), Str("null", null),
          Str("number", <<45, 49, 46, 48>>), Str("number", <<55>>)}
    \cup {Str(k, s) : k \in {"key", "string"},
            s \in {<<>>, <<Quote>>, <<97, Backslash>>, <<Colon, Comma>>, Fill(7), Fill(8),
                   Fill(9), Fill(8) \o <<Quote, 10>> \o Fill(7)}}

MCInputs == [msgpack |-> Plain(MsgPackItems), proto |-> Plain(ProtoItems),
             ws |-> WSInputs, json |-> Plain(JSONItems)]
=============================================================================
