---------------------------- MODULE RegionStack ----------------------------
(***************************************************************************)
(* What an Arena promises its callers, with chunks, offsets, locks and     *)
(* goroutines left out.  Every chunk is a stack of byte ranges: an         *)
(* allocation is put above every range of its chunk that somebody may      *)
(* still use, and memory is only ever taken back from the top, down to an  *)
(* instant of the past.  Module Arena is shown to implement this.          *)
(***************************************************************************)
EXTENDS Naturals

CONSTANT Chunk        \* the identities of chunks

VARIABLES live,       \* the ranges that their owners may still use
          clock       \* the number of allocations made so far

rvars == <<live, clock>>

(***************************************************************************)
(* A range [lo, hi) of the bytes of a chunk, handed out as the at-th       *)
(* allocation for a caller that asked for a multiple of align.             *)
(***************************************************************************)
Region == [chunk : Chunk, lo : Nat, hi : Nat, at : Nat, align : Nat]

StackTypeOK ==
  /\ live \in SUBSET Region
  /\ clock \in Nat

StackInit ==
  /\ live = {}
  /\ clock = 0

(***************************************************************************)
(* An allocation adds one non-empty range above all ranges of its chunk.   *)
(***************************************************************************)
Push ==
  /\ clock' = clock + 1
  /\ \E r \in live' :
       /\ r.at = clock + 1
       /\ r.lo < r.hi
       /\ \A s \in live : s.chunk = r.chunk => s.hi <= r.lo
       /\ live' = live \cup {r}

(***************************************************************************)
(* The ranges of chunk c handed out after instant t lose their bytes.      *)
(***************************************************************************)
Pop(c) ==
  /\ \E t \in 0..clock :
       live' = {r \in live : r.chunk = c => r.at <= t}
  /\ UNCHANGED clock

StackNext == Push \/ \E c \in Chunk : Pop(c)

StackSpec == StackInit /\ [][StackNext]_rvars

(***************************************************************************)
(* Two ranges in use at the same time never share a byte.                  *)
(***************************************************************************)
Disjoint(r, s) == r.chunk = s.chunk => r.hi <= s.lo \/ s.hi <= r.lo

StackDisjoint == \A r, s \in live : r # s => Disjoint(r, s)
============================================================================
