----------------------------- MODULE MCToolExec -----------------------------
(***************************************************************************)
(* Module ToolExec with packages of one file that has up to three sites of *)
(* every kind, and of two or three simpler files.                          *)
(***************************************************************************)
EXTENDS ToolExec

Site(kind, line, arena, size, align) ==
  [kind |-> kind, line |-> line, loop |-> FALSE, arena |-> arena,
   size |-> size, align |-> align, start |-> 0, now |-> 0, cap |-> NoCap]

Slice(size, align, start, now, cap) ==
  [Site("make", 1, TRUE, size, align) EXCEPT !.start = start, !.now = now, !.cap = cap]

SiteTypes ==
  {Site("new", 1, TRUE, 1, 1), Site("literal", 1, FALSE, 3, 1), Site("pointer_literal", 2, FALSE, 8, 8),
   Site("make_map", 2, TRUE, 8, 8), [Site("new", 3, TRUE, 4, 4) EXCEPT !.loop = TRUE],
   Slice(2, 2, 3, 3, NoCap), Slice(4, 4, 1, 2, NoCap), Slice(1, 1, 0, 0, 2)}

File(len, sites) == [generated |-> FALSE, listed |-> TRUE, bodies |-> <<[len |-> len, sites |-> sites]>>]

Pair == <<Site("new", 1, TRUE, 1, 1), Site("new", 2, TRUE, 2, 2)>>

Plain     == File(2, <<>>)
Generated == [File(2, Pair) EXCEPT !.generated = TRUE]
Unlisted  == [File(2, Pair) EXCEPT !.listed = FALSE]
Short     == File(12, Pair)
Long      == File(13, Pair)
Longer    == File(20, Pair)
Single    == File(13, <<Site("make_chan", 1, TRUE, 8, 8)>>)

MCPackages ==
  {<<File(6, s)>> : s \in UNION {[1..n -> SiteTypes] : n \in 1..3}}
    \cup [1..2 -> {Plain, Generated, Unlisted, Short, Long, Longer, Single}]
    \cup {<<Short, Single, f>> : f \in {Plain, Generated, Long}}
=============================================================================
