-------------------------- MODULE ShardedArenaPool --------------------------
(***************************************************************************)
(* ShardedArenaPool of arena_sharded.go: Borrow, Release and Close, called *)
(* by any number of goroutines.  A goroutine that holds the mutex of a     *)
(* shard calls nothing that another goroutine can observe, so a critical   *)
(* section is one step; what lies outside (the load of closed, the atomic  *)
(* counter, Reset and Close of a single arena) is a step of its own.       *)
(*                                                                         *)
(* WithScope is a Borrow, the use of a private scope, and a deferred       *)
(* Release.  Clients release only an arena they hold, and once.            *)
(***************************************************************************)
EXTENDS Integers, Sequences, Functions

CONSTANTS
  Goroutines,
  NumShards,      \* len(p.shards), a power of two; p.mask + 1
  MaxPerShard,    \* shard.max
  MaxArenas       \* bound: NewArena is called at most this often

ASSUME ShardedAssumption ==
  /\ NumShards \in Nat \ {0}
  /\ MaxPerShard \in Nat \ {0}
  /\ MaxArenas \in Nat

VARIABLES
  shards,    \* shard.arenas, a stack per shard
  counter,   \* p.counter & p.mask (the mask divides 2^64)
  closed,    \* p.closed
  made,      \* the arenas made so far are 1..made
  shut,      \* the arenas that Arena.Close was called on
  hold,      \* the arenas each goroutine holds as a client
  pc, loc,   \* where each goroutine is, with its arena and its shard
  late       \* history: a Release had passed its check of closed when Close ran

spvars == <<shards, counter, closed, made, shut, hold, pc, loc, late>>

Shard   == 0..(NumShards - 1)
ArenaId == 1..MaxArenas
NoArena == 0

Init ==
  /\ shards = [s \in Shard |-> <<>>]
  /\ counter = 0
  /\ closed = FALSE
  /\ made = 0
  /\ shut = {}
  /\ hold = [g \in Goroutines |-> {}]
  /\ pc = [g \in Goroutines |-> "idle"]
  /\ loc = [g \in Goroutines |-> [a |-> NoArena, idx |-> 0]]
  /\ late = FALSE

Goto(g, label) == pc' = [pc EXCEPT ![g] = label]

Carry(g, a, idx) == loc' = [loc EXCEPT ![g] = [a |-> a, idx |-> idx]]

(***************************************************************************)
(* The arena becomes the client's; the call returns.                       *)
(***************************************************************************)
HandOut(g, a) ==
  /\ hold' = [hold EXCEPT ![g] = @ \cup {a}]
  /\ Goto(g, "idle")
  /\ Carry(g, NoArena, 0)

Borrow(g) ==
  /\ pc[g] = "idle"
  /\ Goto(g, IF closed THEN "new" ELSE "pick")
  /\ UNCHANGED <<shards, counter, closed, made, shut, hold, loc, late>>

(***************************************************************************)
(* idx := atomic.AddUint64(&p.counter, 1) & p.mask, in Borrow and Release. *)
(***************************************************************************)
PickShard(g) ==
  /\ pc[g] \in {"pick", "repick"}
  /\ counter' = (counter + 1) % NumShards
  /\ Carry(g, loc[g].a, counter')
  /\ Goto(g, IF pc[g] = "pick" THEN "pop" ELSE "push")
  /\ UNCHANGED <<shards, closed, made, shut, hold, late>>

(***************************************************************************)
(* What Borrow leaves in a shard: all but the arena on top.                *)
(***************************************************************************)
Remaining(s) == SubSeq(s, 1, Len(s) - 1)

(***************************************************************************)
(* The critical section of Borrow: take the arena on top of the shard.     *)
(***************************************************************************)
Pop(g) ==
  /\ pc[g] = "pop"
  /\ LET i == loc[g].idx
         s == shards[i]
         a == s[Len(s)]
     IN IF s # <<>>
          THEN /\ shards' = [shards EXCEPT ![i] = Remaining(s)]
               /\ Carry(g, a, i)
               /\ Goto(g, "reset")
          ELSE Goto(g, "new") /\ UNCHANGED <<shards, loc>>
  /\ UNCHANGED <<counter, closed, made, shut, hold, late>>

(***************************************************************************)
(* a.Reset() rewinds the offsets and leaves the bytes as they are.         *)
(***************************************************************************)
ResetBorrowed(g) ==
  /\ pc[g] = "reset"
  /\ HandOut(g, loc[g].a)
  /\ UNCHANGED <<shards, counter, closed, made, shut, late>>

NewArena(g) ==
  /\ pc[g] = "new"
  /\ made < MaxArenas
  /\ made' = made + 1
  /\ HandOut(g, made + 1)
  /\ UNCHANGED <<shards, counter, closed, shut, late>>

(***************************************************************************)
(* Release up to a.Reset(), or to the choice to close the arena.           *)
(***************************************************************************)
Release(g, a) ==
  /\ pc[g] = "idle"
  /\ a \in hold[g]
  /\ hold' = [hold EXCEPT ![g] = @ \ {a}]
  /\ Goto(g, IF closed THEN "destroy" ELSE "repick")
  /\ Carry(g, a, 0)
  /\ UNCHANGED <<shards, counter, closed, made, shut, late>>

(***************************************************************************)
(* The critical section of Release.                                        *)
(***************************************************************************)
Push(g) ==
  /\ pc[g] = "push"
  /\ LET i == loc[g].idx
     IN IF Len(shards[i]) < MaxPerShard
          THEN /\ shards' = [shards EXCEPT ![i] = Append(@, loc[g].a)]
               /\ Goto(g, "idle")
               /\ Carry(g, NoArena, 0)
          ELSE Goto(g, "destroy") /\ UNCHANGED <<shards, loc>>
  /\ UNCHANGED <<counter, closed, made, shut, hold, late>>

(***************************************************************************)
(* a.Close() of an arena that does not go back to the pool.                *)
(***************************************************************************)
DestroyArena(g) ==
  /\ pc[g] = "destroy"
  /\ shut' = shut \cup {loc[g].a}
  /\ Goto(g, "idle")
  /\ Carry(g, NoArena, 0)
  /\ UNCHANGED <<shards, counter, closed, made, hold, late>>

(***************************************************************************)
(* Close: only the call that sets closed drains the shards.                *)
(***************************************************************************)
Close(g) ==
  /\ pc[g] = "idle"
  /\ closed' = TRUE
  /\ late' = (late \/ (~closed /\ \E h \in Goroutines : pc[h] \in {"repick", "push"}))
  /\ IF closed THEN UNCHANGED <<pc, loc>> ELSE Goto(g, "drain") /\ Carry(g, NoArena, 0)
  /\ UNCHANGED <<shards, counter, made, shut, hold>>

LastShard_OffByOne(i) == i + 2 >= NumShards

LastShard(i) == i + 1 >= NumShards

(***************************************************************************)
(* The critical section of Close for one shard.                            *)
(***************************************************************************)
Drain_KeepsList(g) ==
  /\ pc[g] = "drain"
  /\ LET i == loc[g].idx
     IN /\ shut' = shut \cup Range(shards[i])
        /\ IF LastShard(i) THEN Goto(g, "idle") /\ Carry(g, NoArena, 0)
                           ELSE Carry(g, NoArena, i + 1) /\ UNCHANGED pc
  /\ UNCHANGED <<shards, counter, closed, made, hold, late>>

Drain(g) ==
  /\ pc[g] = "drain"
  /\ LET i == loc[g].idx
     IN /\ shut' = shut \cup Range(shards[i])
        /\ shards' = [shards EXCEPT ![i] = <<>>]
        /\ IF LastShard(i) THEN Goto(g, "idle") /\ Carry(g, NoArena, 0)
                           ELSE Carry(g, NoArena, i + 1) /\ UNCHANGED pc
  /\ UNCHANGED <<counter, closed, made, hold, late>>

----------------------------------------------------------------------------

Step(g) ==
  \/ Borrow(g) \/ PickShard(g) \/ Pop(g) \/ ResetBorrowed(g) \/ NewArena(g)
  \/ \E a \in ArenaId : Release(g, a)
  \/ Push(g) \/ DestroyArena(g) \/ Close(g) \/ Drain(g)

Next == \E g \in Goroutines : Step(g)

Spec == Init /\ [][Next]_spvars

----------------------------------------------------------------------------
(* Properties *)

Labels == {"idle", "pick", "pop", "reset", "new", "repick", "push", "destroy", "drain"}

(***************************************************************************)
(* The pool, the goroutines inside its methods and the loans are well      *)
(* typed, and no shard holds more than its maximum.                        *)
(***************************************************************************)
TypeOK ==
  /\ shards \in [Shard -> Seq(ArenaId)]
  /\ \A s \in Shard : Len(shards[s]) <= MaxPerShard
  /\ counter \in Shard
  /\ closed \in BOOLEAN
  /\ made \in 0..MaxArenas
  /\ shut \subseteq 1..made
  /\ hold \in [Goroutines -> SUBSET (1..made)]
  /\ pc \in [Goroutines -> Labels]
  /\ loc \in [Goroutines -> [a : 0..made, idx : Shard]]
  /\ late \in BOOLEAN

Lend == INSTANCE Lending WITH
  Client <- Goroutines, Object <- ArenaId,
  leases <- {p \in Goroutines \X ArenaId : p[2] \in hold[p[1]]},
  gone   <- shut

(***************************************************************************)
(* Whatever the interleaving of Borrow, Release and Close, an arena is     *)
(* lent to one client at a time, never after its memory was released, and  *)
(* its memory is not released while a client holds it.                     *)
(***************************************************************************)
ImplementsLending == Lend!LendSpec

Pooled == UNION {Range(shards[s]) : s \in Shard}

(***************************************************************************)
(* No arena is lost: one that was made and not closed is held by a client, *)
(* pooled, or in the hands of a call.                                      *)
(***************************************************************************)
NoArenaLost ==
  \A a \in 1..made :
    \/ a \in shut \cup Pooled
    \/ \E g \in Goroutines : a \in hold[g] \/ a = loc[g].a

Settled == closed /\ \A g \in Goroutines : pc[g] = "idle"

(***************************************************************************)
(* Once Close has returned and no call is under way, the pool keeps no     *)
(* arena, unless a Release was past its check of closed when Close began.  *)
(***************************************************************************)
CloseEmptiesPool == Settled /\ ~late => Pooled = {}

(***************************************************************************)
(* The pool accounts for every arena, before and after Close.              *)
(***************************************************************************)
ArenasAccounted == NoArenaLost /\ CloseEmptiesPool
============================================================================
