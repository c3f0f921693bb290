------------------------------ MODULE Rewriter ------------------------------
(***************************************************************************)
(* The source rewriter of analyzer.go and fix.go: which allocations of a   *)
(* file it moves to an arena, and what it makes of a function body.        *)
(*                                                                         *)
(* A file is [generated, bodies], a body [len, sites]: the number of its   *)
(* statements and the assignments that allocate, in the order of the       *)
(* source.  A site is a record of                                          *)
(*   kind   the form of the expression, one of Kinds;                      *)
(*   line   where it is in its file, and whether it is in a loop;          *)
(*   arena  what the pipeline decides of it (see AnalysisPipeline);        *)
(*   size, align   of its type or, for make, of the element;               *)
(*   start, now, cap   for make, the values of the length when the body is *)
(*          entered and when the site is reached, and of the capacity.     *)
(* How the expression of a site is rewritten is not modelled but for the   *)
(* memory it uses.                                                         *)
(***************************************************************************)
EXTENDS Integers, Sequences, SequencesExt

NoCap == -1

\* The expressions that makeSite takes for a site.
Kinds == {"new", "make", "make_map", "make_chan", "literal", "pointer_literal"}

SiteType == [kind : Kinds, line : Nat, loop : BOOLEAN, arena : BOOLEAN, size : Nat,
             align : Nat \ {0}, start : Nat, now : Nat, cap : Nat \cup {NoCap}]
BodyType == [len : Nat, sites : Seq(SiteType)]

SitesOf(file) == UNION {Range(file.bodies[b].sites) : b \in DOMAIN file.bodies}

(***************************************************************************)
(* A loop that appends the entries at some positions to a list.            *)
(***************************************************************************)
Entries(list, positions) ==
  LET upTo[n \in 0..Len(list)] ==
        IF n = 0 THEN <<>>
        ELSE IF n \in positions THEN Append(upTo[n - 1], list[n]) ELSE upTo[n - 1]
  IN  upTo[Len(list)]

(***************************************************************************)
(* filterEligibleSites: decisions and candidates are matched by the line,  *)
(* so a candidate is eligible if any allocation of its line is proven.     *)
(***************************************************************************)
Eligible(file, s) == \E d \in SitesOf(file) : d.arena /\ d.line = s.line

\* The candidates of a body, which are not in loops, that are eligible.
Chosen(file, body) ==
  LET sites == body.sites
  IN  Entries(sites, {i \in DOMAIN sites : ~sites[i].loop /\ Eligible(file, sites[i])})

Bulkable(s) == s.kind \in Kinds \ {"make_map", "make_chan"}

\* The sites that share one allocation, if there are at least two such.
BulkSites(file, body) ==
  LET chosen == Chosen(file, body)
      bulk == Entries(chosen, {i \in DOMAIN chosen : Bulkable(chosen[i])})
  IN  IF Len(bulk) >= 2 THEN bulk ELSE <<>>

(***************************************************************************)
(* A file of which no site is chosen, or that is generated, is left alone. *)
(***************************************************************************)
Changed(file) ==
  ~file.generated /\ \E b \in DOMAIN file.bodies : Chosen(file, file.bodies[b]) # <<>>

----------------------------------------------------------------------------
(* The layout of a bulk allocation *)

AlignTo(n, a) == ((n + a - 1) \div a) * a

\* rustygoSz<i>, with the length as it is when the body is entered
Reserved(s) == IF s.kind = "make" THEN s.size * s.start ELSE s.size

\* The bytes of the object the site makes: a slice reaches up to its capacity.
Extent(s) ==
  IF s.kind # "make" THEN s.size
  ELSE s.size * (IF s.cap = NoCap THEN s.now ELSE s.cap)

Offsets_Unaligned(sites) ==
  LET off[i \in DOMAIN sites] == IF i = 1 THEN 0 ELSE off[i - 1] + Reserved(sites[i - 1])
  IN  off

(***************************************************************************)
(* rustygoOff<i>: behind the object before, up to the alignment.           *)
(***************************************************************************)
Offsets(sites) ==
  LET off[i \in DOMAIN sites] ==
        IF i = 1 THEN 0 ELSE AlignTo(off[i - 1] + Reserved(sites[i - 1]), sites[i].align)
  IN  off

\* The size of rustygoBulk.
BulkSize(sites) == Offsets(sites)[Len(sites)] + Reserved(Last(sites))

----------------------------------------------------------------------------
(* The statements of a rewritten body *)

Original(body) == [i \in 1..body.len |-> <<"stmt", i>>]

Setup == <<<<"NewArena", 0>>, <<"EnterScope", 0>>, <<"defer Close", 0>>, <<"defer Exit", 0>>>>

\* Three definitions for each site, each with its `_ = name`, and the allocation.
BulkStmts(sites) ==
  [i \in 1..(6 * Len(sites) + 1) |->
     <<IF i % 2 = 1 THEN "define" ELSE "use", (i + 1) \div 2>>]

(***************************************************************************)
(* The capacity Go gives to append([]ast.Stmt{4 of them}, list...): twice  *)
(* 4, or what is needed, rounded up to a size class of the allocator (of   *)
(* 16-byte elements; up to 32 of them).                                    *)
(***************************************************************************)
GrowCap(n) == IF n <= 8 THEN 8 ELSE IF n <= 16 THEN n ELSE AlignTo(n, 2)

InsertBulk_DropsOne(list, cap, x) ==
  SubSeq(list, 1, Len(Setup)) \o x \o SubSeq(list, Len(Setup) + 2, Len(list))

(***************************************************************************)
(* append(append(body.List[:4], x...), body.List[4:]...): where x fits     *)
(* into the capacity, the inner append writes it over the statements that  *)
(* the outer append is about to copy.                                      *)
(***************************************************************************)
InsertBulk(list, cap, x) ==
  LET k == Len(Setup)
      inPlace == k + Len(x) <= cap
      after == [i \in DOMAIN list |->
                  IF inPlace /\ i - k \in DOMAIN x THEN x[i - k] ELSE list[i]]
  IN  SubSeq(list, 1, k) \o x \o SubSeq(after, k + 1, Len(list))

(***************************************************************************)
(* What becomes of a body; the sites are rewritten inside the statements.  *)
(***************************************************************************)
RewriteBody(file, body) ==
  LET list == Setup \o Original(body)
      bulk == BulkSites(file, body)
  IN  IF Chosen(file, body) = <<>> THEN Original(body)
      ELSE IF bulk = <<>> THEN list
      ELSE InsertBulk(list, GrowCap(Len(list)), BulkStmts(bulk))

----------------------------------------------------------------------------
(* What is said of it *)

\* All statements of the body are there, in order, each once.
Complete(file, body) ==
  LET stmts == RewriteBody(file, body)
      kept == {i \in DOMAIN stmts : stmts[i][1] = "stmt"}
  IN  /\ {stmts[i] : i \in kept} = Range(Original(body))
      /\ \A i, j \in kept : i < j => stmts[i][2] < stmts[j][2]

\* The objects of an allocation are aligned, inside of it and apart from each
\* other, as long as they are no larger than what was reserved for them.
LayoutSound(bulk) ==
  LET off == Offsets(bulk)
      end(i) == off[i] + Extent(bulk[i])
  IN  \A i \in DOMAIN bulk :
        /\ off[i] % bulk[i].align = 0
        /\ Extent(bulk[i]) <= Reserved(bulk[i]) =>
             /\ end(i) <= BulkSize(bulk)
             /\ \A j \in DOMAIN bulk : i < j => end(i) <= off[j]

\* A name that is defined twice with := in one block: Go does not compile it.
Redefines(stmts) ==
  \E i, j \in DOMAIN stmts : i < j /\ stmts[i] = stmts[j] /\ stmts[i][1] = "define"
=============================================================================
