------------------------------ MODULE MCScope ------------------------------
(***************************************************************************)
(* Module Scope with goroutines, scopes, functions, maps and channels that *)
(* are interchangeable.                                                    *)
(***************************************************************************)
EXTENDS Scope, TLC

Sym == Permutations(Goroutines) \cup Permutations(Scopes) \cup Permutations(Functions)
============================================================================
