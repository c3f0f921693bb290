--------------------------- MODULE MCTransaction ---------------------------
(***************************************************************************)
(* Module Transaction with the values TLC needs for its constants.         *)
(***************************************************************************)
EXTENDS Transaction, TLC

MCSmall == {[n |-> 1, align |-> 1], [n |-> 2, align |-> 1]}

Sym == Permutations(Goroutines)
============================================================================
