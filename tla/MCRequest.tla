----------------------------- MODULE MCRequest -----------------------------
(***************************************************************************)
(* Module Request with goroutines and buffers that are interchangeable.    *)
(***************************************************************************)
EXTENDS Request, TLC

Sym == Permutations(Users) \cup Permutations(Buffers)
============================================================================
