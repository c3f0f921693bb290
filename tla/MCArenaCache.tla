---------------------------- MODULE MCArenaCache ----------------------------
(***************************************************************************)
(* Module ArenaCache with the lengths of keys and values.                  *)
(***************************************************************************)
EXTENDS ArenaCache, TLC

CONSTANTS
  Long,        \* the values longer than one byte
  LongLength   \* their length

MCLength == [x \in Keys \cup Values |-> IF x \in Long THEN LongLength ELSE 1]

Sym == Permutations(Goroutines) \cup Permutations(Keys) \cup Permutations(Values)
============================================================================
