------------------------------ MODULE MCArena ------------------------------
(***************************************************************************)
(* Module Arena with the values TLC needs for its constants.               *)
(***************************************************************************)
EXTENDS Arena, TLC

MCRequests == {[n |-> 2, align |-> 1], [n |-> 1, align |-> 2]}
MCSmall    == {[n |-> 1, align |-> 1], [n |-> 2, align |-> 1]}

Sym == Permutations(Goroutines)
============================================================================
