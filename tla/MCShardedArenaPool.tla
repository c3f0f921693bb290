------------------------ MODULE MCShardedArenaPool ------------------------
(***************************************************************************)
(* Module ShardedArenaPool with goroutines that are interchangeable.       *)
(***************************************************************************)
EXTENDS ShardedArenaPool, TLC

Sym == Permutations(Goroutines)
============================================================================
