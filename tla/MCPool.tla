------------------------------- MODULE MCPool -------------------------------
(***************************************************************************)
(* Module Pool with goroutines that are interchangeable.                   *)
(***************************************************************************)
EXTENDS Pool, TLC

Modes(sync, debug, zero, rogue) ==
  [sync : sync, debug : debug, zero : zero, rogue : rogue]

(***************************************************************************)
(* Both backends in both builds; with the lock-free stack in the debug     *)
(* build clients may make one Free that is against the rules.              *)
(***************************************************************************)
MCOptions ==
  Modes(BOOLEAN, {FALSE}, {TRUE}, {0}) \cup Modes({TRUE}, {TRUE}, {TRUE}, {0})
    \cup Modes({FALSE}, {TRUE}, {TRUE}, {1})

Sym == Permutations(Goroutines)
============================================================================
