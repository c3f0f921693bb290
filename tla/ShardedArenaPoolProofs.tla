----------------------- MODULE ShardedArenaPoolProofs -----------------------
(***************************************************************************)
(* A ShardedArenaPool lends an arena to one client at a time and never     *)
(* after its memory was released, loses none, and is empty once closed:    *)
(* proved for any number of goroutines, shards and arenas.                 *)
(***************************************************************************)
EXTENDS ShardedArenaPool, SequenceTheorems, TLAPS

(***************************************************************************)
(* A call carries an arena exactly between taking it from a shard or a     *)
(* client and handing it on.                                               *)
(***************************************************************************)
Carrying == {"reset", "repick", "push", "destroy"}

HandInv ==
  \A g \in Goroutines :
    /\ pc[g] \in Carrying => loc[g].a \in 1..made
    /\ pc[g] \notin Carrying => loc[g].a = NoArena

(***************************************************************************)
(* An arena is in one place at most: with one client, in the hands of one  *)
(* call, at one position of one shard, or closed.                          *)
(***************************************************************************)
HeldInv ==
  \A g, h \in Goroutines : \A a \in hold[g] :
    a \notin shut /\ a # loc[h].a /\ (h # g => a \notin hold[h])

CarriedInv ==
  \A g, h \in Goroutines :
    loc[g].a # NoArena => loc[g].a \notin shut /\ (h # g => loc[h].a # loc[g].a)

PooledInv ==
  \A s \in Shard : \A i \in 1..Len(shards[s]) :
    /\ shards[s][i] \in 1..made /\ shards[s][i] \notin shut
    /\ \A g \in Goroutines : shards[s][i] \notin hold[g] /\ shards[s][i] # loc[g].a
    /\ \A t \in Shard : \A j \in 1..Len(shards[t]) :
         shards[t][j] = shards[s][i] => t = s /\ j = i

(***************************************************************************)
(* After Close has begun nobody is on the way to put an arena back, unless *)
(* `late` says so, and what is still pooled is ahead of the loop of Close. *)
(***************************************************************************)
DrainInv ==
  closed /\ ~late =>
    /\ \A g \in Goroutines : pc[g] \notin {"repick", "push"}
    /\ \A s \in Shard :
         shards[s] # <<>> => \E g \in Goroutines : pc[g] = "drain" /\ loc[g].idx <= s

PlaceInv == HandInv /\ HeldInv /\ CarriedInv /\ PooledInv

PoolInv == TypeOK /\ PlaceInv /\ DrainInv /\ NoArenaLost

----------------------------------------------------------------------------
(* Type correctness *)

LEMMA ShardNumbers == 0 \in Shard /\ Shard \subseteq Nat
  BY ShardedAssumption DEF Shard

(***************************************************************************)
(* The next value of the counter is the number of a shard.                 *)
(***************************************************************************)
LEMMA CounterType == ASSUME NEW c \in Shard PROVE (c + 1) % NumShards \in Shard
<1>1. NumShards \in Nat /\ NumShards > 0 /\ c + 1 \in Nat
  BY ShardedAssumption DEF Shard
<1>2. (c + 1) % NumShards \in 0..(NumShards - 1)
  BY <1>1
<1> QED
  BY <1>2 DEF Shard

(***************************************************************************)
(* What Borrow leaves of a shard that is not empty.                        *)
(***************************************************************************)
LEMMA RemainingArenas ==
  ASSUME NEW q \in Seq(ArenaId), q # <<>>
  PROVE  /\ Len(q) \in Nat /\ Len(q) >= 1 /\ q[Len(q)] \in ArenaId
         /\ Remaining(q) \in Seq(ArenaId)
         /\ Len(Remaining(q)) = Len(q) - 1
         /\ \A i \in 1..(Len(q) - 1) : Remaining(q)[i] = q[i]
<1>1. Len(q) \in Nat /\ Len(q) >= 1
  BY EmptySeq, LenProperties
<1>2. \A i \in 1..Len(q) : q[i] \in ArenaId
  BY ElementOfSeq
<1>3. Len(q) - 1 \in Int /\ Len(q) \in 1..Len(q) /\ \A i \in 1..(Len(q) - 1) : q[i] \in ArenaId
  BY <1>1, <1>2
<1> DEFINE r == SubSeq(q, 1, Len(q) - 1)
           k == Len(q) - 1
<1>4. /\ r \in Seq(ArenaId)
      /\ Len(r) = IF 1 <= k THEN k - 1 + 1 ELSE 0
      /\ \A i \in 1..(k - 1 + 1) : r[i] = q[1 + i - 1]
  BY <1>3, SubSeqProperties
<1>5. Remaining(q) = r
  BY DEF Remaining
<1>6. q[Len(q)] \in ArenaId
  BY <1>2, <1>3
<1>7. k \in Nat /\ k = Len(q) - 1
  BY <1>1
<1> HIDE DEF r, k
<1>8. Len(r) = k /\ \A i \in 1..k : r[i] = q[i]
  BY <1>4, <1>7
<1> QED
  BY <1>1, <1>4, <1>5, <1>6, <1>7, <1>8

LEMMA PoolTypeInit == Init => TypeOK
<1> SUFFICES ASSUME Init PROVE TypeOK
  OBVIOUS
<1>1. shards \in [Shard -> Seq(ArenaId)] /\ \A s \in Shard : Len(shards[s]) <= MaxPerShard
  BY ShardedAssumption, EmptySeq DEF Init
<1>2. closed \in BOOLEAN /\ late \in BOOLEAN
  BY DEF Init
<1> QED
  BY <1>1, <1>2, ShardedAssumption, ShardNumbers DEF Init, TypeOK, Labels, NoArena

LEMMA PoolTypeStep == TypeOK /\ PlaceInv /\ [Next]_spvars => TypeOK'
<1> SUFFICES ASSUME TypeOK, PlaceInv, [Next]_spvars PROVE TypeOK'
  OBVIOUS
<1> USE ShardedAssumption, ShardNumbers DEF TypeOK, Goto, Carry, Labels, NoArena
<1>1. ASSUME NEW g \in Goroutines, Borrow(g) PROVE TypeOK'
  BY <1>1 DEF Borrow
<1>2. ASSUME NEW g \in Goroutines, PickShard(g) PROVE TypeOK'
  <2>1. counter' \in Shard
    BY <1>2, CounterType DEF PickShard
  <2> QED
    BY <1>2, <2>1 DEF PickShard
<1>3. ASSUME NEW g \in Goroutines, Pop(g) PROVE TypeOK'
  <2> DEFINE i == loc[g].idx
             q == shards[i]
  <2>1. i \in Shard /\ q \in Seq(ArenaId) /\ Len(q) <= MaxPerShard
    OBVIOUS
  <2>2. CASE q = <<>>
    BY <1>3, <2>2 DEF Pop
  <2>3. CASE q # <<>>
    <3>1. q[Len(q)] \in 1..made
      <4>1. Len(q) \in 1..Len(q)
        <5>1. Len(q) \in Nat /\ Len(q) >= 1
          BY <2>1, <2>3, RemainingArenas
        <5> QED
          BY <5>1
      <4>2. \A j \in 1..Len(q) : q[j] \in 1..made
        BY <2>1 DEF PlaceInv, PooledInv
      <4> HIDE DEF q
      <4> QED
        BY <4>1, <4>2
    <3>2. /\ shards' = [shards EXCEPT ![i] = Remaining(q)]
          /\ loc' = [loc EXCEPT ![g] = [a |-> q[Len(q)], idx |-> i]]
          /\ pc' = [pc EXCEPT ![g] = "reset"]
          /\ UNCHANGED <<counter, closed, made, shut, hold, late>>
      BY <1>3, <2>3 DEF Pop
    <3> HIDE DEF q, i
    <3>3. shards' \in [Shard -> Seq(ArenaId)] /\ \A s \in Shard : Len(shards'[s]) <= MaxPerShard
      BY <2>1, <2>3, <3>2, RemainingArenas
    <3>4. loc' \in [Goroutines -> [a : 0..made', idx : Shard]]
      BY <2>1, <3>1, <3>2
    <3> QED
      BY <3>2, <3>3, <3>4
  <2> QED
    BY <2>2, <2>3
<1>4. ASSUME NEW g \in Goroutines, ResetBorrowed(g) PROVE TypeOK'
  <2>1. loc[g].a \in 1..made
    BY <1>4 DEF ResetBorrowed, PlaceInv, HandInv, Carrying
  <2> QED
    BY <1>4, <2>1 DEF ResetBorrowed, HandOut
<1>5. ASSUME NEW g \in Goroutines, NewArena(g) PROVE TypeOK'
  BY <1>5 DEF NewArena, HandOut
<1>6. ASSUME NEW g \in Goroutines, NEW a \in ArenaId, Release(g, a) PROVE TypeOK'
  BY <1>6 DEF Release
<1>7. ASSUME NEW g \in Goroutines, Push(g) PROVE TypeOK'
  <2>1. loc[g].a \in ArenaId /\ loc[g].idx \in Shard
    BY <1>7 DEF Push, PlaceInv, HandInv, Carrying, ArenaId
  <2> DEFINE q == shards[loc[g].idx]
             p == Append(q, loc[g].a)
  <2>2. CASE Len(q) < MaxPerShard
    <3>0. q \in Seq(ArenaId)
      BY <2>1
    <3>1. p \in Seq(ArenaId) /\ Len(p) = Len(q) + 1 /\ Len(q) \in Nat
      <4> HIDE DEF q
      <4> QED
        BY <2>1, <3>0, AppendProperties, LenProperties
    <3>2. /\ shards' = [shards EXCEPT ![loc[g].idx] = p]
          /\ pc' = [pc EXCEPT ![g] = "idle"]
          /\ loc' = [loc EXCEPT ![g] = [a |-> NoArena, idx |-> 0]]
          /\ UNCHANGED <<counter, closed, made, shut, hold, late>>
      BY <1>7, <2>2 DEF Push
    <3> HIDE DEF q, p
    <3>3. Len(p) <= MaxPerShard
      BY <2>2, <3>1
    <3> QED
      BY <2>1, <3>0, <3>1, <3>2, <3>3
  <2>3. CASE ~(Len(q) < MaxPerShard)
    BY <1>7, <2>3 DEF Push
  <2> QED
    BY <2>2, <2>3
<1>8. ASSUME NEW g \in Goroutines, DestroyArena(g) PROVE TypeOK'
  <2>1. loc[g].a \in 1..made
    BY <1>8 DEF DestroyArena, PlaceInv, HandInv, Carrying
  <2>2. shut' \subseteq 1..made'
    BY <1>8, <2>1 DEF DestroyArena
  <2> QED
    BY <1>8, <2>2 DEF DestroyArena
<1>9. ASSUME NEW g \in Goroutines, Close(g) PROVE TypeOK'
  <2>1. closed' \in BOOLEAN /\ late' \in BOOLEAN
    BY <1>9 DEF Close
  <2>2. pc' \in [Goroutines -> Labels] /\ loc' \in [Goroutines -> [a : 0..made, idx : Shard]]
    <3>1. \/ UNCHANGED <<pc, loc>>
          \/ /\ pc' = [pc EXCEPT ![g] = "drain"]
             /\ loc' = [loc EXCEPT ![g] = [a |-> NoArena, idx |-> 0]]
      BY <1>9, Zenon DEF Close
    <3>2. [a |-> NoArena, idx |-> 0] \in [a : 0..made, idx : Shard]
      OBVIOUS
    <3>3. pc' \in [Goroutines -> Labels]
      BY <3>1
    <3>4. loc' \in [Goroutines -> [a : 0..made, idx : Shard]]
      BY <3>1, <3>2
    <3> QED
      BY <3>3, <3>4
  <2> QED
    BY <1>9, <2>1, <2>2 DEF Close
<1>10. ASSUME NEW g \in Goroutines, Drain(g) PROVE TypeOK'
  <2>1. loc[g].idx \in Shard /\ shards[loc[g].idx] \in Seq(ArenaId)
    OBVIOUS
  <2>2. shut' \subseteq 1..made
    <3>1. \A j \in 1..Len(shards[loc[g].idx]) : shards[loc[g].idx][j] \in 1..made
      BY <2>1 DEF PlaceInv, PooledInv
    <3>2. DOMAIN shards[loc[g].idx] = 1..Len(shards[loc[g].idx])
      BY <2>1, LenProperties
    <3>3. Range(shards[loc[g].idx]) \subseteq 1..made
      BY <3>1, <3>2 DEF Range
    <3> QED
      BY <1>10, <3>3 DEF Drain
  <2>3. shards' \in [Shard -> Seq(ArenaId)] /\ \A s \in Shard : Len(shards'[s]) <= MaxPerShard
    BY <1>10, <2>1 DEF Drain
  <2>4. pc' \in [Goroutines -> Labels] /\ loc' \in [Goroutines -> [a : 0..made, idx : Shard]]
    <3>1. LastShard(loc[g].idx) \/ loc[g].idx + 1 \in Shard
      BY <2>1 DEF LastShard, Shard
    <3>2. \/ /\ LastShard(loc[g].idx)
             /\ pc' = [pc EXCEPT ![g] = "idle"]
             /\ loc' = [loc EXCEPT ![g] = [a |-> NoArena, idx |-> 0]]
          \/ /\ ~LastShard(loc[g].idx)
             /\ pc' = pc
             /\ loc' = [loc EXCEPT ![g] = [a |-> NoArena, idx |-> loc[g].idx + 1]]
      BY <1>10, Zenon DEF Drain
    <3>3. /\ [a |-> NoArena, idx |-> 0] \in [a : 0..made, idx : Shard]
          /\ loc[g].idx + 1 \in Shard =>
               [a |-> NoArena, idx |-> loc[g].idx + 1] \in [a : 0..made, idx : Shard]
      OBVIOUS
    <3>4. pc' \in [Goroutines -> Labels]
      BY <3>2
    <3>5. loc' \in [Goroutines -> [a : 0..made, idx : Shard]]
      BY <3>1, <3>2, <3>3
    <3> QED
      BY <3>4, <3>5
  <2> QED
    BY <1>10, <2>2, <2>3, <2>4 DEF Drain
<1>11. CASE UNCHANGED spvars
  BY <1>11 DEF spvars
<1> QED
  BY <1>1, <1>2, <1>3, <1>4, <1>5, <1>6, <1>7, <1>8, <1>9, <1>10, <1>11 DEF Next, Step

----------------------------------------------------------------------------
(* Every arena is in one place *)

(***************************************************************************)
(* The types of what a goroutine in a call carries, and of a shard.        *)
(***************************************************************************)
LEMMA PoolFields ==
  ASSUME TypeOK
  PROVE  /\ made \in Nat /\ made <= MaxArenas /\ MaxArenas \in Nat
         /\ \A g \in Goroutines : /\ loc[g].a \in Nat /\ loc[g].idx \in Shard
                                  /\ hold[g] \subseteq 1..made /\ pc[g] \in Labels
         /\ \A s \in Shard : /\ shards[s] \in Seq(ArenaId)
                             /\ Len(shards[s]) \in Nat
                             /\ DOMAIN shards[s] = 1..Len(shards[s])
                             /\ shards[s] # <<>> <=> Len(shards[s]) > 0
<1>1. made \in Nat /\ made <= MaxArenas /\ MaxArenas \in Nat
  BY ShardedAssumption DEF TypeOK
<1>2. ASSUME NEW g \in Goroutines
      PROVE  loc[g].a \in Nat /\ loc[g].idx \in Shard /\ hold[g] \subseteq 1..made /\ pc[g] \in Labels
  BY <1>1 DEF TypeOK
<1>3. ASSUME NEW s \in Shard
      PROVE  /\ shards[s] \in Seq(ArenaId)
             /\ Len(shards[s]) \in Nat
             /\ DOMAIN shards[s] = 1..Len(shards[s])
             /\ shards[s] # <<>> <=> Len(shards[s]) > 0
  <2>1. shards[s] \in Seq(ArenaId)
    BY DEF TypeOK
  <2> QED
    BY <2>1, LenProperties, EmptySeq
<1> QED
  BY <1>1, <1>2, <1>3

(***************************************************************************)
(* Steps that move no arena.                                               *)
(***************************************************************************)
LEMMA NothingMoved ==
  ASSUME PlaceInv, UNCHANGED <<shards, made, shut, hold>>,
         \A h \in Goroutines : /\ loc'[h].a = loc[h].a
                               /\ pc'[h] \in Carrying <=> pc[h] \in Carrying
  PROVE  PlaceInv'
  BY DEF PlaceInv, HandInv, HeldInv, CarriedInv, PooledInv

(***************************************************************************)
(* What the steps of one goroutine do to the locals of all.                *)
(***************************************************************************)
LEMMA OthersUntouched ==
  ASSUME TypeOK, NEW g \in Goroutines, NEW label, NEW a, NEW i, Goto(g, label), Carry(g, a, i)
  PROVE  \A h \in Goroutines : /\ pc'[h] = IF h = g THEN label ELSE pc[h]
                               /\ loc'[h] = IF h = g THEN [a |-> a, idx |-> i] ELSE loc[h]
  BY DEF TypeOK, Goto, Carry

LEMMA PlaceInit == Init => PlaceInv
<1> SUFFICES ASSUME Init PROVE PlaceInv
  OBVIOUS
<1>1. \A s \in Shard : Len(shards[s]) = 0
  BY EmptySeq DEF Init
<1> QED
  BY <1>1 DEF Init, PlaceInv, HandInv, HeldInv, CarriedInv, PooledInv, Carrying

(***************************************************************************)
(* Every step moves an arena from one place to another, makes a new one or *)
(* moves none.                                                             *)
(***************************************************************************)
LEMMA PlaceStep == TypeOK /\ PlaceInv /\ [Next]_spvars => PlaceInv'
<1> SUFFICES ASSUME TypeOK, PlaceInv, [Next]_spvars PROVE PlaceInv'
  OBVIOUS
<1>a. TypeOK'
  BY PoolTypeStep
<1>b. HandInv /\ HeldInv /\ CarriedInv /\ PooledInv
  BY DEF PlaceInv
<1>1. ASSUME NEW g \in Goroutines, Borrow(g) PROVE PlaceInv'
  BY <1>1, NothingMoved DEF Borrow, Goto, TypeOK, Carrying
<1>2. ASSUME NEW g \in Goroutines, PickShard(g) PROVE PlaceInv'
  <2>1. \A h \in Goroutines : /\ loc'[h].a = loc[h].a
                              /\ pc'[h] \in Carrying <=> pc[h] \in Carrying
    BY <1>2 DEF PickShard, Goto, Carry, TypeOK, Carrying
  <2> QED
    BY <1>2, <2>1, NothingMoved DEF PickShard
<1>3. ASSUME NEW g \in Goroutines, Pop(g) PROVE PlaceInv'
  <2> DEFINE i == loc[g].idx
             q == shards[i]
             a == q[Len(q)]
  <2>1. CASE q = <<>>
    <3>1. pc' = [pc EXCEPT ![g] = "new"] /\ UNCHANGED <<shards, made, shut, hold, loc>>
      BY <1>3, <2>1 DEF Pop, Goto
    <3> QED
      BY <1>3, <3>1, NothingMoved DEF Pop, TypeOK, Carrying
  <2>2. CASE q # <<>>
    <3>1. /\ shards' = [shards EXCEPT ![i] = Remaining(q)]
          /\ Goto(g, "reset") /\ Carry(g, a, i)
          /\ UNCHANGED <<made, shut, hold>>
      BY <1>3, <2>2 DEF Pop
    <3>2. i \in Shard /\ q \in Seq(ArenaId) /\ Len(q) \in Nat /\ Len(q) >= 1
      BY <2>2, PoolFields
    <3>3. /\ \A s \in Shard : s # i => shards'[s] = shards[s]
          /\ shards'[i] = Remaining(q)
      BY <3>1, <3>2 DEF TypeOK
    <3>4. /\ Len(shards'[i]) = Len(q) - 1
          /\ \A j \in 1..(Len(q) - 1) : shards'[i][j] = q[j]
      BY <2>2, <3>2, <3>3, RemainingArenas, SMTT(30)
    <3>5. Len(q) \in 1..Len(shards[i])
      BY <3>2
    <3>6. /\ a \in 1..made /\ a \notin shut
          /\ \A h \in Goroutines : a \notin hold[h] /\ a # loc[h].a
          /\ \A t \in Shard : \A j \in 1..Len(shards[t]) : shards[t][j] = a => t = i /\ j = Len(q)
      BY <1>b, <3>2, <3>5 DEF PooledInv
    <3>7. \A h \in Goroutines : /\ pc'[h] = IF h = g THEN "reset" ELSE pc[h]
                                /\ loc'[h] = IF h = g THEN [a |-> a, idx |-> i] ELSE loc[h]
      BY <3>1, OthersUntouched
    <3>8. \A h \in Goroutines : loc'[h].a = IF h = g THEN a ELSE loc[h].a
      BY <3>7
    <3>9. \A s \in Shard : \A j \in 1..Len(shards'[s]) :
            j \in 1..Len(shards[s]) /\ shards'[s][j] = shards[s][j] /\ (s = i => j # Len(q))
      BY <3>2, <3>3, <3>4
    <3> HIDE DEF a, q, i
    <3>10. HandInv'
      BY <1>b, <3>1, <3>6, <3>7, <3>8 DEF HandInv, Carrying
    <3>11. HeldInv'
      BY <1>b, <3>1, <3>6, <3>8 DEF HeldInv
    <3>12. CarriedInv'
      BY <1>b, <3>1, <3>6, <3>8 DEF CarriedInv
    <3>13. PooledInv'
      <4> SUFFICES ASSUME NEW s \in Shard, NEW j \in 1..Len(shards'[s])
                   PROVE  /\ shards'[s][j] \in 1..made' /\ shards'[s][j] \notin shut'
                          /\ \A h \in Goroutines : shards'[s][j] \notin hold'[h] /\ shards'[s][j] # loc'[h].a
                          /\ \A t \in Shard : \A k \in 1..Len(shards'[t]) :
                               shards'[t][k] = shards'[s][j] => t = s /\ k = j
        BY DEF PooledInv
      <4>1. j \in 1..Len(shards[s]) /\ shards'[s][j] = shards[s][j] /\ shards[s][j] # a
        BY <3>6, <3>9
      <4> QED
        BY <1>b, <3>1, <3>8, <3>9, <4>1 DEF PooledInv
    <3> QED
      BY <3>10, <3>11, <3>12, <3>13 DEF PlaceInv
  <2> QED
    BY <2>1, <2>2
<1>4. ASSUME NEW g \in Goroutines, ResetBorrowed(g) PROVE PlaceInv'
  <2>1. loc[g].a \in 1..made /\ loc[g].a # NoArena
    BY <1>4, <1>b DEF ResetBorrowed, HandInv, Carrying, NoArena
  <2>2. /\ \A h \in Goroutines : /\ pc'[h] = IF h = g THEN "idle" ELSE pc[h]
                                 /\ loc'[h] = IF h = g THEN [a |-> NoArena, idx |-> 0] ELSE loc[h]
        /\ \A h \in Goroutines : hold'[h] = IF h = g THEN hold[g] \cup {loc[g].a} ELSE hold[h]
        /\ UNCHANGED <<shards, made, shut>>
    BY <1>4, OthersUntouched DEF ResetBorrowed, HandOut, TypeOK
  <2>3. \A h \in Goroutines : loc'[h].a = IF h = g THEN NoArena ELSE loc[h].a
    BY <2>2
  <2>4. \A h \in Goroutines : NoArena \notin hold[h]
    BY PoolFields DEF NoArena
  <2>5. HandInv'
    BY <1>b, <2>2, <2>3 DEF HandInv, Carrying
  <2>6. HeldInv'
    BY <1>b, <2>1, <2>2, <2>3, <2>4 DEF HeldInv, CarriedInv
  <2>7. CarriedInv'
    BY <1>b, <2>2, <2>3 DEF CarriedInv
  <2>8. PooledInv'
    BY <1>b, <2>2, <2>3 DEF PooledInv, NoArena
  <2> QED
    BY <2>5, <2>6, <2>7, <2>8 DEF PlaceInv
<1>5. ASSUME NEW g \in Goroutines, NewArena(g) PROVE PlaceInv'
  <2>1. made \in Nat /\ made' = made + 1 /\ made + 1 \in 1..made'
    BY <1>5, PoolFields DEF NewArena
  <2>2. /\ \A h \in Goroutines : /\ pc'[h] = IF h = g THEN "idle" ELSE pc[h]
                                 /\ loc'[h] = IF h = g THEN [a |-> NoArena, idx |-> 0] ELSE loc[h]
        /\ \A h \in Goroutines : hold'[h] = IF h = g THEN hold[g] \cup {made + 1} ELSE hold[h]
        /\ UNCHANGED <<shards, shut>>
    BY <1>5, OthersUntouched DEF NewArena, HandOut, TypeOK
  <2>3. \A h \in Goroutines : loc'[h].a = loc[h].a
    BY <1>5, <1>b, <2>2 DEF NewArena, HandInv, Carrying
  <2>4. /\ made + 1 \notin shut
        /\ \A h \in Goroutines : made + 1 \notin hold[h] /\ made + 1 # loc[h].a
        /\ \A x \in 1..made : x \in 1..made' /\ x # made + 1
    BY <2>1 DEF TypeOK
  <2>5. HandInv'
    BY <1>5, <1>b, <2>2, <2>3, <2>4 DEF NewArena, HandInv, Carrying
  <2>6. HeldInv'
    BY <1>b, <2>2, <2>3, <2>4 DEF HeldInv
  <2>7. CarriedInv'
    BY <1>b, <2>2, <2>3 DEF CarriedInv
  <2>8. PooledInv'
    BY <1>b, <2>2, <2>3, <2>4 DEF PooledInv
  <2> QED
    BY <2>5, <2>6, <2>7, <2>8 DEF PlaceInv
<1>6. ASSUME NEW g \in Goroutines, NEW a \in ArenaId, Release(g, a) PROVE PlaceInv'
  <2>1. a \in hold[g] /\ a \in 1..made /\ a # NoArena
    BY <1>6, PoolFields DEF Release, NoArena
  <2>2. /\ \A h \in Goroutines : /\ h # g => pc'[h] = pc[h]
                                 /\ loc'[h] = IF h = g THEN [a |-> a, idx |-> 0] ELSE loc[h]
        /\ pc'[g] \in Carrying
        /\ \A h \in Goroutines : hold'[h] = IF h = g THEN hold[g] \ {a} ELSE hold[h]
        /\ UNCHANGED <<shards, made, shut>>
    BY <1>6 DEF Release, Goto, Carry, TypeOK, Carrying
  <2>3. \A h \in Goroutines : loc'[h].a = IF h = g THEN a ELSE loc[h].a
    BY <2>2
  <2>4. HandInv'
    BY <1>b, <2>1, <2>2, <2>3 DEF HandInv
  <2>5. HeldInv'
    BY <1>b, <2>1, <2>2, <2>3 DEF HeldInv
  <2>6. CarriedInv'
    BY <1>b, <2>1, <2>2, <2>3 DEF CarriedInv, HeldInv
  <2>7. PooledInv'
    BY <1>b, <2>1, <2>2, <2>3, SMTT(30) DEF PooledInv
  <2> QED
    BY <2>4, <2>5, <2>6, <2>7 DEF PlaceInv
<1>7. ASSUME NEW g \in Goroutines, Push(g) PROVE PlaceInv'
  <2> DEFINE i == loc[g].idx
             q == shards[i]
             a == loc[g].a
  <2>1. CASE Len(q) < MaxPerShard
    <3>1. /\ shards' = [shards EXCEPT ![i] = Append(q, a)]
          /\ Goto(g, "idle") /\ Carry(g, NoArena, 0)
          /\ UNCHANGED <<made, shut, hold>>
      BY <1>7, <2>1 DEF Push
    <3>2. /\ a \in 1..made /\ a # NoArena /\ a \notin shut
          /\ \A h \in Goroutines : a \notin hold[h] /\ (h # g => a # loc[h].a)
          /\ \A s \in Shard : \A j \in 1..Len(shards[s]) : shards[s][j] # a
      <4>1. a \in 1..made /\ a # NoArena
        BY <1>7, <1>b DEF Push, HandInv, Carrying, NoArena
      <4> QED
        BY <1>b, <4>1 DEF HeldInv, CarriedInv, PooledInv
    <3>3. i \in Shard /\ q \in Seq(ArenaId) /\ Len(q) \in Nat /\ a \in ArenaId
      <4>1. MaxArenas \in Nat /\ made \in Nat /\ made <= MaxArenas
        BY PoolFields
      <4> QED
        BY <3>2, <4>1, PoolFields DEF ArenaId
    <3>4. /\ \A s \in Shard : s # i => shards'[s] = shards[s]
          /\ shards'[i] = Append(q, a)
      BY <3>1, <3>3 DEF TypeOK
    <3>5. \A h \in Goroutines : /\ pc'[h] = IF h = g THEN "idle" ELSE pc[h]
                                /\ loc'[h] = IF h = g THEN [a |-> NoArena, idx |-> 0] ELSE loc[h]
      BY <3>1, OthersUntouched
    <3>6. \A h \in Goroutines : loc'[h].a = IF h = g THEN NoArena ELSE loc[h].a
      BY <3>5
    <3>7. q = shards[i] /\ a = loc[g].a
      OBVIOUS
    <3> HIDE DEF a, q, i
    <3>8. Len(Append(q, a)) = Len(q) + 1 /\ Append(q, a)[Len(q) + 1] = a
          /\ \A j \in 1..Len(q) : Append(q, a)[j] = q[j]
      BY <3>3, AppendProperties
    <3>9. /\ Len(shards'[i]) = Len(q) + 1 /\ shards'[i][Len(q) + 1] = a
          /\ \A j \in 1..Len(q) : shards'[i][j] = shards[i][j]
      BY <3>4, <3>7, <3>8
    <3>10. \A s \in Shard : \A j \in 1..Len(shards'[s]) :
             \/ j \in 1..Len(shards[s]) /\ shards'[s][j] = shards[s][j]
             \/ s = i /\ j = Len(q) + 1 /\ shards'[s][j] = a
      BY <3>3, <3>4, <3>7, <3>9
    <3>11. HandInv'
      BY <1>b, <3>1, <3>5, <3>6 DEF HandInv, Carrying
    <3>12. HeldInv'
      <4>1. \A h \in Goroutines : NoArena \notin hold[h]
        BY PoolFields DEF NoArena
      <4> QED
        BY <1>b, <3>1, <3>6, <4>1 DEF HeldInv
    <3>13. CarriedInv'
      BY <1>b, <3>1, <3>6 DEF CarriedInv
    <3>14. PooledInv'
      <4> SUFFICES ASSUME NEW s \in Shard, NEW j \in 1..Len(shards'[s])
                   PROVE  /\ shards'[s][j] \in 1..made' /\ shards'[s][j] \notin shut'
                          /\ \A h \in Goroutines : shards'[s][j] \notin hold'[h] /\ shards'[s][j] # loc'[h].a
                          /\ \A t \in Shard : \A k \in 1..Len(shards'[t]) :
                               shards'[t][k] = shards'[s][j] => t = s /\ k = j
        BY DEF PooledInv
      <4>1. CASE j \in 1..Len(shards[s]) /\ shards'[s][j] = shards[s][j]
        <5>1. shards[s][j] # a /\ shards[s][j] # NoArena
          BY <1>b, <3>2, <4>1 DEF PooledInv, NoArena
        <5> QED
          BY <1>b, <3>1, <3>6, <3>10, <4>1, <5>1, SMTT(30) DEF PooledInv
      <4>2. CASE s = i /\ j = Len(q) + 1 /\ shards'[s][j] = a
        BY <3>1, <3>2, <3>6, <3>10, <4>2
      <4> QED
        BY <3>10, <4>1, <4>2
    <3> QED
      BY <3>11, <3>12, <3>13, <3>14 DEF PlaceInv
  <2>2. CASE ~(Len(q) < MaxPerShard)
    <3>1. pc' = [pc EXCEPT ![g] = "destroy"] /\ UNCHANGED <<shards, made, shut, hold, loc>>
      BY <1>7, <2>2 DEF Push, Goto
    <3> QED
      BY <1>7, <3>1, NothingMoved DEF Push, TypeOK, Carrying
  <2> QED
    BY <2>1, <2>2
<1>8. ASSUME NEW g \in Goroutines, DestroyArena(g) PROVE PlaceInv'
  <2>1. loc[g].a \in 1..made /\ loc[g].a # NoArena
    BY <1>8, <1>b DEF DestroyArena, HandInv, Carrying, NoArena
  <2>2. /\ \A h \in Goroutines : /\ pc'[h] = IF h = g THEN "idle" ELSE pc[h]
                                 /\ loc'[h] = IF h = g THEN [a |-> NoArena, idx |-> 0] ELSE loc[h]
        /\ shut' = shut \cup {loc[g].a}
        /\ UNCHANGED <<shards, made, hold>>
    BY <1>8, OthersUntouched DEF DestroyArena
  <2>3. \A h \in Goroutines : loc'[h].a = IF h = g THEN NoArena ELSE loc[h].a
    BY <2>2
  <2>4. \A h \in Goroutines : NoArena \notin hold[h]
    BY PoolFields DEF NoArena
  <2>5. HandInv'
    BY <1>b, <2>2, <2>3 DEF HandInv, Carrying
  <2>6. HeldInv'
    BY <1>b, <2>1, <2>2, <2>3, <2>4 DEF HeldInv
  <2>7. CarriedInv'
    BY <1>b, <2>1, <2>2, <2>3 DEF CarriedInv
  <2>8. PooledInv'
    BY <1>b, <2>2, <2>3 DEF PooledInv, NoArena
  <2> QED
    BY <2>5, <2>6, <2>7, <2>8 DEF PlaceInv
<1>9. ASSUME NEW g \in Goroutines, Close(g) PROVE PlaceInv'
  <2>1. \/ UNCHANGED <<pc, loc>>
        \/ Goto(g, "drain") /\ Carry(g, NoArena, 0)
    BY <1>9, Zenon DEF Close
  <2>2. pc[g] = "idle" /\ loc[g].a = NoArena /\ UNCHANGED <<shards, made, shut, hold>>
    BY <1>9, <1>b DEF Close, HandInv, Carrying
  <2>3. \A h \in Goroutines : /\ loc'[h].a = loc[h].a
                              /\ pc'[h] \in Carrying <=> pc[h] \in Carrying
    <3>1. CASE Goto(g, "drain") /\ Carry(g, NoArena, 0)
      <4>1. \A h \in Goroutines : /\ pc'[h] = IF h = g THEN "drain" ELSE pc[h]
                                  /\ loc'[h] = IF h = g THEN [a |-> NoArena, idx |-> 0] ELSE loc[h]
        BY <3>1, OthersUntouched
      <4> QED
        BY <2>2, <4>1 DEF Carrying
    <3> QED
      BY <2>1, <3>1
  <2> QED
    BY <2>2, <2>3, NothingMoved
<1>10. ASSUME NEW g \in Goroutines, Drain(g) PROVE PlaceInv'
  <2> DEFINE i == loc[g].idx
  <2>1. /\ i \in Shard /\ pc[g] = "drain" /\ loc[g].a = NoArena
        /\ shut' = shut \cup Range(shards[i])
        /\ shards' = [shards EXCEPT ![i] = <<>>]
        /\ UNCHANGED <<made, hold>>
    BY <1>10, <1>b, PoolFields DEF Drain, HandInv, Carrying
  <2>2. \A h \in Goroutines : /\ loc'[h].a = loc[h].a
                              /\ pc'[h] \in Carrying <=> pc[h] \in Carrying
    <3>1. \/ Goto(g, "idle") /\ Carry(g, NoArena, 0)
          \/ Carry(g, NoArena, i + 1) /\ UNCHANGED pc
      BY <1>10, Zenon DEF Drain
    <3>2. CASE Goto(g, "idle") /\ Carry(g, NoArena, 0)
      <4>1. \A h \in Goroutines : /\ pc'[h] = IF h = g THEN "idle" ELSE pc[h]
                                  /\ loc'[h] = IF h = g THEN [a |-> NoArena, idx |-> 0] ELSE loc[h]
        BY <3>2, OthersUntouched
      <4> QED
        BY <2>1, <4>1 DEF Carrying
    <3>3. CASE Carry(g, NoArena, i + 1) /\ UNCHANGED pc
      BY <2>1, <3>3 DEF Carry, TypeOK
    <3> QED
      BY <3>1, <3>2, <3>3
  <2>3. \A x : x \in Range(shards[i]) <=> \E j \in 1..Len(shards[i]) : x = shards[i][j]
    BY <2>1, PoolFields DEF Range
  <2>4. /\ Len(shards'[i]) = 0
        /\ \A s \in Shard : s # i => shards'[s] = shards[s]
    BY <2>1, EmptySeq DEF TypeOK
  <2>5. \A s \in Shard : \A j \in 1..Len(shards'[s]) :
          s # i /\ j \in 1..Len(shards[s]) /\ shards'[s][j] = shards[s][j]
    BY <2>4
  <2> HIDE DEF i
  <2>6. HandInv'
    BY <1>b, <2>1, <2>2 DEF HandInv
  <2>7. HeldInv'
    BY <1>b, <2>1, <2>2, <2>3 DEF HeldInv, PooledInv
  <2>8. CarriedInv'
    BY <1>b, <2>1, <2>2, <2>3 DEF CarriedInv, PooledInv
  <2>9. PooledInv'
    <3> SUFFICES ASSUME NEW s \in Shard, NEW j \in 1..Len(shards'[s])
                 PROVE  /\ shards'[s][j] \in 1..made' /\ shards'[s][j] \notin shut'
                        /\ \A h \in Goroutines : shards'[s][j] \notin hold'[h] /\ shards'[s][j] # loc'[h].a
                        /\ \A t \in Shard : \A k \in 1..Len(shards'[t]) :
                             shards'[t][k] = shards'[s][j] => t = s /\ k = j
      BY DEF PooledInv
    <3>1. s # i /\ j \in 1..Len(shards[s]) /\ shards'[s][j] = shards[s][j]
      BY <2>5
    <3>2. shards[s][j] \notin Range(shards[i])
      BY <1>b, <2>1, <2>3, <3>1 DEF PooledInv
    <3> QED
      BY <1>b, <2>1, <2>2, <2>5, <3>1, <3>2 DEF PooledInv
  <2> QED
    BY <2>6, <2>7, <2>8, <2>9 DEF PlaceInv
<1>11. CASE UNCHANGED spvars
  BY <1>11, NothingMoved DEF spvars
<1> QED
  BY <1>1, <1>2, <1>3, <1>4, <1>5, <1>6, <1>7, <1>8, <1>9, <1>10, <1>11 DEF Next, Step

----------------------------------------------------------------------------
(* The pool accounts for every arena *)

(***************************************************************************)
(* The arena is closed, pooled, with a client or in the hands of a call.   *)
(***************************************************************************)
Kept(a) ==
  \/ a \in shut
  \/ \E s \in Shard : \E j \in 1..Len(shards[s]) : shards[s][j] = a
  \/ \E g \in Goroutines : a \in hold[g] \/ a = loc[g].a

AllKept == \A a \in 1..made : Kept(a)

LEMMA KeptIsNotLost == TypeOK => (NoArenaLost <=> AllKept)
<1> SUFFICES ASSUME TypeOK PROVE NoArenaLost <=> \A a \in 1..made : Kept(a)
  BY DEF AllKept
<1>1. \A s \in Shard : DOMAIN shards[s] = 1..Len(shards[s])
  BY PoolFields
<1>2. \A a : a \in Pooled <=> \E s \in Shard : \E j \in 1..Len(shards[s]) : shards[s][j] = a
  BY <1>1 DEF Pooled, Range
<1> QED
  BY <1>2 DEF NoArenaLost, Kept

LEMMA KeptStep ==
  ASSUME TypeOK, PlaceInv, [Next]_spvars, NEW x \in 1..made, Kept(x)
  PROVE  Kept(x)'
<1>b. HandInv
  BY DEF PlaceInv
<1>c. x # NoArena
  BY DEF NoArena
<1>1. ASSUME UNCHANGED <<shards, shut, hold>>, \A h \in Goroutines : loc'[h].a = loc[h].a
      PROVE  Kept(x)'
  BY <1>1 DEF Kept
<1>2. ASSUME NEW g \in Goroutines, Borrow(g) \/ PickShard(g) PROVE Kept(x)'
  <2>1. UNCHANGED loc \/ Carry(g, loc[g].a, counter')
    BY <1>2 DEF Borrow, PickShard
  <2>2. \A h \in Goroutines : loc'[h].a = loc[h].a
    <3>1. ASSUME NEW k, Carry(g, loc[g].a, k) PROVE \A h \in Goroutines : loc'[h].a = loc[h].a
      BY <3>1 DEF Carry, TypeOK
    <3> QED
      BY <2>1, <3>1
  <2> QED
    BY <1>1, <1>2, <2>2 DEF Borrow, PickShard
<1>3. ASSUME NEW g \in Goroutines, Pop(g) PROVE Kept(x)'
  <2> DEFINE i == loc[g].idx
             q == shards[i]
  <2>1. CASE q = <<>>
    BY <1>1, <1>3, <2>1 DEF Pop
  <2>2. CASE q # <<>>
    <3>1. /\ shards' = [shards EXCEPT ![i] = Remaining(q)]
          /\ Goto(g, "reset") /\ Carry(g, q[Len(q)], i)
          /\ UNCHANGED <<made, shut, hold>>
      BY <1>3, <2>2 DEF Pop
    <3>2. i \in Shard /\ q \in Seq(ArenaId) /\ Len(q) \in Nat /\ Len(q) >= 1
      BY <2>2, PoolFields
    <3>3. /\ \A s \in Shard : s # i => shards'[s] = shards[s]
          /\ shards'[i] = Remaining(q)
      BY <3>1, <3>2 DEF TypeOK
    <3>4. /\ Len(shards'[i]) = Len(q) - 1
          /\ \A j \in 1..(Len(q) - 1) : shards'[i][j] = q[j]
      BY <2>2, <3>2, <3>3, RemainingArenas
    <3>5. \A h \in Goroutines : loc'[h].a = IF h = g THEN q[Len(q)] ELSE loc[h].a
      BY <3>1 DEF Carry, TypeOK
    <3>6. loc[g].a # x
      BY <1>3, <1>b, <1>c DEF Pop, HandInv, Carrying
    <3>7. ASSUME NEW s \in Shard, NEW j \in 1..Len(shards[s]), shards[s][j] = x PROVE Kept(x)'
      <4>1. CASE s = i /\ j = Len(q)
        BY <3>5, <3>7, <4>1 DEF Kept
      <4>2. CASE s = i /\ j # Len(q)
        <5>1. j \in 1..Len(shards'[i]) /\ shards'[i][j] = x
          BY <3>2, <3>4, <3>7, <4>2
        <5> QED
          BY <3>2, <5>1 DEF Kept
      <4>3. CASE s # i
        BY <3>3, <3>7, <4>3 DEF Kept
      <4> QED
        BY <4>1, <4>2, <4>3
    <3> QED
      BY <3>1, <3>5, <3>6, <3>7 DEF Kept
  <2> QED
    BY <2>1, <2>2
<1>4. ASSUME NEW g \in Goroutines, ResetBorrowed(g) PROVE Kept(x)'
  <2>1. /\ \A h \in Goroutines : loc'[h].a = IF h = g THEN NoArena ELSE loc[h].a
        /\ \A h \in Goroutines : hold'[h] = IF h = g THEN hold[g] \cup {loc[g].a} ELSE hold[h]
        /\ UNCHANGED <<shards, shut>>
    BY <1>4 DEF ResetBorrowed, HandOut, Carry, TypeOK
  <2> QED
    BY <2>1 DEF Kept
<1>5. ASSUME NEW g \in Goroutines, NewArena(g) PROVE Kept(x)'
  <2>1. /\ \A h \in Goroutines : loc'[h].a = IF h = g THEN NoArena ELSE loc[h].a
        /\ \A h \in Goroutines : hold[h] \subseteq hold'[h]
        /\ UNCHANGED <<shards, shut>>
        /\ loc[g].a # x
    BY <1>5, <1>b, <1>c DEF NewArena, HandOut, Carry, TypeOK, HandInv, Carrying
  <2> QED
    BY <2>1 DEF Kept
<1>6. ASSUME NEW g \in Goroutines, NEW a \in ArenaId, Release(g, a) PROVE Kept(x)'
  <2>1. /\ \A h \in Goroutines : loc'[h].a = IF h = g THEN a ELSE loc[h].a
        /\ \A h \in Goroutines : hold'[h] = IF h = g THEN hold[g] \ {a} ELSE hold[h]
        /\ UNCHANGED <<shards, shut>>
        /\ loc[g].a # x
    BY <1>6, <1>b, <1>c DEF Release, Carry, TypeOK, HandInv, Carrying
  <2> QED
    BY <2>1 DEF Kept
<1>7. ASSUME NEW g \in Goroutines, Push(g) PROVE Kept(x)'
  <2> DEFINE i == loc[g].idx
             q == shards[i]
             a == loc[g].a
  <2>1. CASE Len(q) < MaxPerShard
    <3>1. /\ shards' = [shards EXCEPT ![i] = Append(q, a)]
          /\ Carry(g, NoArena, 0)
          /\ UNCHANGED <<shut, hold>>
      BY <1>7, <2>1 DEF Push
    <3>2. a \in ArenaId
      <4>1. a \in 1..made /\ made \in Nat /\ made <= MaxArenas /\ MaxArenas \in Nat
        BY <1>7, <1>b, PoolFields DEF Push, HandInv, Carrying
      <4> QED
        BY <4>1 DEF ArenaId
    <3>3. i \in Shard /\ q \in Seq(ArenaId) /\ Len(q) \in Nat
      BY PoolFields
    <3>4. /\ \A s \in Shard : s # i => shards'[s] = shards[s]
          /\ shards'[i] = Append(q, a)
      BY <3>1, <3>3 DEF TypeOK
    <3>5. \A h \in Goroutines : loc'[h].a = IF h = g THEN NoArena ELSE loc[h].a
      BY <3>1 DEF Carry, TypeOK
    <3>6. q = shards[i] /\ a = loc[g].a
      OBVIOUS
    <3> HIDE DEF q, a, i
    <3>7. Len(Append(q, a)) = Len(q) + 1 /\ Append(q, a)[Len(q) + 1] = a
          /\ \A j \in 1..Len(q) : Append(q, a)[j] = q[j]
      BY <3>2, <3>3, AppendProperties
    <3>8. /\ Len(q) + 1 \in 1..Len(shards'[i]) /\ shards'[i][Len(q) + 1] = a
          /\ \A j \in 1..Len(q) : j \in 1..Len(shards'[i]) /\ shards'[i][j] = shards[i][j]
      BY <3>3, <3>4, <3>6, <3>7
    <3>9. ASSUME NEW s \in Shard, NEW j \in 1..Len(shards[s]), shards[s][j] = x PROVE Kept(x)'
      <4>1. j \in 1..Len(shards'[s]) /\ shards'[s][j] = x
        BY <3>4, <3>6, <3>8, <3>9
      <4> QED
        BY <4>1 DEF Kept
    <3>10. a = x => Kept(x)'
      BY <3>3, <3>8 DEF Kept
    <3> QED
      BY <3>1, <3>5, <3>6, <3>9, <3>10 DEF Kept
  <2>2. CASE ~(Len(q) < MaxPerShard)
    BY <1>1, <1>7, <2>2 DEF Push
  <2> QED
    BY <2>1, <2>2
<1>8. ASSUME NEW g \in Goroutines, DestroyArena(g) PROVE Kept(x)'
  <2>1. /\ \A h \in Goroutines : loc'[h].a = IF h = g THEN NoArena ELSE loc[h].a
        /\ shut' = shut \cup {loc[g].a}
        /\ UNCHANGED <<shards, hold>>
    BY <1>8 DEF DestroyArena, Carry, TypeOK
  <2> QED
    BY <2>1 DEF Kept
<1>9. ASSUME NEW g \in Goroutines, Close(g) PROVE Kept(x)'
  <2>1. UNCHANGED <<pc, loc>> \/ Carry(g, NoArena, 0)
    BY <1>9, Zenon DEF Close
  <2>2. loc[g].a = NoArena /\ UNCHANGED <<shards, shut, hold>>
    BY <1>9, <1>b DEF Close, HandInv, Carrying
  <2>3. \A h \in Goroutines : loc'[h].a = loc[h].a
    <3>1. ASSUME NEW k, Carry(g, NoArena, k) PROVE \A h \in Goroutines : loc'[h].a = loc[h].a
      BY <2>2, <3>1 DEF Carry, TypeOK
    <3> QED
      BY <2>1, <3>1
  <2> QED
    BY <1>1, <2>2, <2>3
<1>10. ASSUME NEW g \in Goroutines, Drain(g) PROVE Kept(x)'
  <2> DEFINE i == loc[g].idx
  <2>1. Carry(g, NoArena, 0) \/ Carry(g, NoArena, i + 1)
    BY <1>10, Zenon DEF Drain
  <2>2. /\ i \in Shard /\ loc[g].a = NoArena
        /\ shut' = shut \cup Range(shards[i])
        /\ shards' = [shards EXCEPT ![i] = <<>>]
        /\ UNCHANGED hold
    BY <1>10, <1>b, PoolFields DEF Drain, HandInv, Carrying
  <2>3. \A h \in Goroutines : loc'[h].a = loc[h].a
    <3>1. ASSUME NEW k, Carry(g, NoArena, k) PROVE \A h \in Goroutines : loc'[h].a = loc[h].a
      BY <2>2, <3>1 DEF Carry, TypeOK
    <3> QED
      BY <2>1, <3>1
  <2>4. \A j \in 1..Len(shards[i]) : shards[i][j] \in Range(shards[i])
    BY <2>2, PoolFields DEF Range
  <2>5. \A s \in Shard : s # i => shards'[s] = shards[s]
    BY <2>2 DEF TypeOK
  <2> HIDE DEF i
  <2> QED
    BY <2>2, <2>3, <2>4, <2>5 DEF Kept
<1>11. CASE UNCHANGED spvars
  BY <1>1, <1>11 DEF spvars
<1> QED
  BY <1>2, <1>3, <1>4, <1>5, <1>6, <1>7, <1>8, <1>9, <1>10, <1>11 DEF Next, Step

LEMMA NotLostStep == TypeOK /\ PlaceInv /\ NoArenaLost /\ [Next]_spvars => NoArenaLost'
<1> SUFFICES ASSUME TypeOK, PlaceInv, NoArenaLost, [Next]_spvars PROVE NoArenaLost'
  OBVIOUS
<1>1. TypeOK'
  BY PoolTypeStep
<1>2. \A a \in 1..made : Kept(a)'
  BY KeptIsNotLost, KeptStep DEF AllKept
<1>3. \/ made' = made
      \/ \E g \in Goroutines : NewArena(g)
  BY DEF Next, Step, Borrow, PickShard, Pop, ResetBorrowed, Release, Push, DestroyArena, Close,
     Drain, spvars
<1>4. ASSUME NEW g \in Goroutines, NewArena(g)
      PROVE  made' = made + 1 /\ \A x : x = made + 1 => Kept(x)'
  <2>1. made + 1 \in hold'[g] /\ made' = made + 1
    BY <1>4 DEF NewArena, HandOut, TypeOK
  <2> QED
    BY <2>1 DEF Kept
<1>5. \A a \in 1..made' : Kept(a)'
  <2> SUFFICES ASSUME NEW a \in 1..made' PROVE Kept(a)'
    OBVIOUS
  <2>1. made \in Nat
    BY PoolFields
  <2>2. CASE made' = made
    BY <1>2, <2>2
  <2>3. CASE \E g \in Goroutines : NewArena(g)
    <3>1. made' = made + 1 /\ (a = made + 1 => Kept(a)')
      BY <1>4, <2>3
    <3>2. a = made + 1 \/ a \in 1..made
      BY <2>1, <3>1
    <3> QED
      BY <1>2, <3>1, <3>2
  <2> QED
    BY <1>3, <2>2, <2>3
<1>6. AllKept'
  BY <1>5 DEF AllKept
<1> QED
  BY <1>1, <1>6, KeptIsNotLost, PTL

(***************************************************************************)
(* The loop of Close reaches every shard, and nobody fills one behind it.  *)
(***************************************************************************)
LEMMA DrainStep == TypeOK /\ PlaceInv /\ DrainInv /\ [Next]_spvars => DrainInv'
<1> SUFFICES ASSUME TypeOK, PlaceInv, DrainInv, [Next]_spvars, closed', ~late'
             PROVE  /\ \A h \in Goroutines : pc'[h] \notin {"repick", "push"}
                    /\ \A s \in Shard : shards'[s] # <<>> =>
                         \E h \in Goroutines : pc'[h] = "drain" /\ loc'[h].idx <= s
  BY DEF DrainInv
<1>1. CASE ~closed
  <2>1. PICK g \in Goroutines : Close(g)
    BY <1>1 DEF Next, Step, Borrow, PickShard, Pop, ResetBorrowed, NewArena, Release, Push,
       DestroyArena, Drain, spvars
  <2>2. \A h \in Goroutines : pc[h] \notin {"repick", "push"}
    BY <1>1, <2>1 DEF Close
  <2>3. pc' = [pc EXCEPT ![g] = "drain"] /\ loc' = [loc EXCEPT ![g] = [a |-> NoArena, idx |-> 0]]
    BY <1>1, <2>1 DEF Close, Goto, Carry
  <2>4. pc'[g] = "drain" /\ loc'[g].idx = 0
    BY <2>3 DEF TypeOK
  <2>5. \A s \in Shard : 0 <= s
    BY ShardNumbers
  <2> QED
    BY <2>2, <2>3, <2>4, <2>5 DEF TypeOK
<1>2. CASE closed
  <2>1. ~late
    BY <1>2 DEF Next, Step, Borrow, PickShard, Pop, ResetBorrowed, NewArena, Release, Push,
       DestroyArena, Close, Drain, spvars
  <2>2. /\ \A h \in Goroutines : pc[h] \notin {"repick", "push"}
        /\ \A s \in Shard : shards[s] # <<>> =>
             \E h \in Goroutines : pc[h] = "drain" /\ loc[h].idx <= s
    BY <1>2, <2>1 DEF DrainInv
  <2>3. ASSUME NEW g \in Goroutines, pc[g] # "drain", pc'[g] \notin {"repick", "push"},
               \A h \in Goroutines : h # g => pc'[h] = pc[h] /\ loc'[h] = loc[h],
               \A s \in Shard : shards'[s] # <<>> => shards[s] # <<>>
        PROVE  /\ \A h \in Goroutines : pc'[h] \notin {"repick", "push"}
               /\ \A s \in Shard : shards'[s] # <<>> =>
                    \E h \in Goroutines : pc'[h] = "drain" /\ loc'[h].idx <= s
    BY <2>2, <2>3
  <2>4. ASSUME NEW g \in Goroutines, Borrow(g) \/ PickShard(g) \/ ResetBorrowed(g) \/ NewArena(g) \/ DestroyArena(g)
        PROVE  /\ pc[g] # "drain" /\ pc'[g] \notin {"repick", "push"}
               /\ \A h \in Goroutines : h # g => pc'[h] = pc[h] /\ loc'[h] = loc[h]
               /\ UNCHANGED shards
    BY <2>2, <2>4 DEF Borrow, PickShard, ResetBorrowed, NewArena, HandOut, DestroyArena, Goto,
       Carry, TypeOK
  <2>5. ASSUME NEW g \in Goroutines, NEW a \in ArenaId, Release(g, a)
        PROVE  /\ pc[g] # "drain" /\ pc'[g] \notin {"repick", "push"}
               /\ \A h \in Goroutines : h # g => pc'[h] = pc[h] /\ loc'[h] = loc[h]
               /\ UNCHANGED shards
    BY <1>2, <2>5 DEF Release, Goto, Carry, TypeOK
  <2>6. ASSUME NEW g \in Goroutines, Pop(g)
        PROVE  /\ pc[g] # "drain" /\ pc'[g] \notin {"repick", "push"}
               /\ \A h \in Goroutines : h # g => pc'[h] = pc[h] /\ loc'[h] = loc[h]
               /\ \A s \in Shard : shards'[s] # <<>> => shards[s] # <<>>
    BY <2>6 DEF Pop, Goto, Carry, TypeOK
  <2>7. \A g \in Goroutines : ~Push(g)
    BY <2>2 DEF Push
  <2>8. ASSUME NEW g \in Goroutines, Close(g) PROVE UNCHANGED <<shards, pc, loc>>
    BY <1>2, <2>8 DEF Close
  <2>9. ASSUME NEW g \in Goroutines, Drain(g)
        PROVE  /\ \A h \in Goroutines : pc'[h] \notin {"repick", "push"}
               /\ \A s \in Shard : shards'[s] # <<>> =>
                    \E h \in Goroutines : pc'[h] = "drain" /\ loc'[h].idx <= s
    <3> DEFINE i == loc[g].idx
    <3>1. /\ i \in Shard /\ pc[g] = "drain"
          /\ shards'[i] = <<>> /\ \A s \in Shard : s # i => shards'[s] = shards[s]
      BY <2>9, PoolFields DEF Drain, TypeOK
    <3>2. \/ /\ LastShard(i)
             /\ pc' = [pc EXCEPT ![g] = "idle"]
             /\ loc' = [loc EXCEPT ![g] = [a |-> NoArena, idx |-> 0]]
          \/ /\ ~LastShard(i)
             /\ pc' = pc
             /\ loc' = [loc EXCEPT ![g] = [a |-> NoArena, idx |-> i + 1]]
      BY <2>9, Zenon DEF Drain, Goto, Carry
    <3>3. \A h \in Goroutines : h # g => pc'[h] = pc[h] /\ loc'[h] = loc[h]
      BY <3>2 DEF TypeOK
    <3>4. pc'[g] \in {"idle", "drain"}
      BY <3>1, <3>2 DEF TypeOK
    <3>5. ASSUME NEW s \in Shard, shards'[s] # <<>>
          PROVE  \E h \in Goroutines : pc'[h] = "drain" /\ loc'[h].idx <= s
      <4>1. s # i /\ shards[s] # <<>>
        BY <3>1, <3>5
      <4>2. PICK h \in Goroutines : pc[h] = "drain" /\ loc[h].idx <= s
        BY <2>2, <4>1
      <4>3. CASE h # g
        BY <3>3, <4>2, <4>3
      <4>4. CASE h = g
        <5>1. i < s /\ i + 1 <= s /\ s + 1 <= NumShards
          BY <3>1, <4>1, <4>2, <4>4, ShardedAssumption DEF Shard
        <5>2. ~LastShard(i)
          BY <3>1, <5>1, ShardedAssumption DEF LastShard, Shard
        <5>3. pc'[g] = "drain" /\ loc'[g].idx = i + 1
          BY <3>1, <3>2, <5>2 DEF TypeOK
        <5> QED
          BY <5>1, <5>3
      <4> QED
        BY <4>3, <4>4
    <3> QED
      BY <2>2, <3>3, <3>4, <3>5
  <2>10. CASE UNCHANGED spvars
    BY <2>2, <2>10 DEF spvars
  <2> QED
    BY <2>2, <2>3, <2>4, <2>5, <2>6, <2>7, <2>8, <2>9, <2>10 DEF Next, Step
<1> QED
  BY <1>1, <1>2 DEF TypeOK

----------------------------------------------------------------------------
(* The theorems *)

LEMMA PoolInit == Init => PoolInv
<1> SUFFICES ASSUME Init PROVE PoolInv
  OBVIOUS
<1>1. TypeOK /\ PlaceInv
  BY PoolTypeInit, PlaceInit
<1>2. DrainInv
  BY Zenon DEF Init, DrainInv
<1>3. NoArenaLost
  BY DEF Init, NoArenaLost
<1> QED
  BY <1>1, <1>2, <1>3 DEF PoolInv

LEMMA PoolStep == PoolInv /\ [Next]_spvars => PoolInv'
  BY PoolTypeStep, PlaceStep, DrainStep, NotLostStep DEF PoolInv

LEMMA PoolInvariant == Spec => []PoolInv
  BY PoolInit, PoolStep, PTL DEF Spec

(***************************************************************************)
(* Borrow, Release and Close account for every arena: one that was made    *)
(* and not closed is held, pooled or in the hands of a call, and after     *)
(* Close the pool is empty, unless a Release was past its check of closed. *)
(***************************************************************************)
THEOREM PoolAccountsForArenas == Spec => []ArenasAccounted
<1>1. PoolInv => ArenasAccounted
  <2> SUFFICES ASSUME PoolInv, Settled, ~late PROVE Pooled = {}
    BY DEF PoolInv, ArenasAccounted, CloseEmptiesPool
  <2>1. \A s \in Shard : shards[s] = <<>>
    BY DEF PoolInv, DrainInv, Settled
  <2>2. \A s \in Shard : Range(shards[s]) = {}
    BY <2>1 DEF Range
  <2> QED
    BY <2>2 DEF Pooled
<1> QED
  BY <1>1, PoolInvariant, PTL

(***************************************************************************)
(* A loan begins for an arena that nobody holds and that is not closed.    *)
(***************************************************************************)
LEMMA HandOutLends ==
  ASSUME TypeOK, NEW g \in Goroutines, NEW a \in ArenaId, HandOut(g, a), UNCHANGED shut,
         a \notin shut, \A h \in Goroutines : a \notin hold[h]
  PROVE  Lend!LendNext
<1>1. Lend!Lend(g, a)
  <2>1. /\ hold \in [Goroutines -> SUBSET (1..made)]
        /\ hold' = [hold EXCEPT ![g] = @ \cup {a}]
    BY DEF HandOut, TypeOK
  <2>2. \A h \in Goroutines : hold'[h] = IF h = g THEN hold[h] \cup {a} ELSE hold[h]
    BY <2>1
  <2>3. {p \in Goroutines \X ArenaId : p[2] \in hold'[p[1]]}
          = {p \in Goroutines \X ArenaId : p[2] \in hold[p[1]]} \cup {<<g, a>>}
    <3>1. ASSUME NEW h \in Goroutines, NEW b \in ArenaId
          PROVE  b \in hold'[h] <=> b \in hold[h] \/ <<h, b>> = <<g, a>>
      BY <2>2
    <3> QED
      BY <3>1
  <2> QED
    BY <2>3 DEF Lend!Lend
<1> QED
  BY <1>1 DEF Lend!LendNext

LEMMA LendingStep == PoolInv /\ [Next]_spvars => [Lend!LendNext]_(Lend!lvars)
<1> SUFFICES ASSUME PoolInv, [Next]_spvars PROVE [Lend!LendNext]_(Lend!lvars)
  OBVIOUS
<1>1. TypeOK /\ HandInv /\ HeldInv /\ CarriedInv /\ PooledInv
  BY DEF PoolInv, PlaceInv
<1>2. ASSUME UNCHANGED <<hold, shut>> PROVE UNCHANGED Lend!lvars
  BY <1>2 DEF Lend!lvars
<1>3. ASSUME NEW g \in Goroutines, ResetBorrowed(g) PROVE Lend!LendNext
  <2>1. loc[g].a \in ArenaId /\ loc[g].a # NoArena
    BY <1>1, <1>3, ShardedAssumption DEF ResetBorrowed, HandInv, Carrying, TypeOK, ArenaId, NoArena
  <2>2. loc[g].a \notin shut /\ \A h \in Goroutines : loc[g].a \notin hold[h]
    BY <1>1, <2>1 DEF CarriedInv, HeldInv
  <2> QED
    BY <1>1, <1>3, <2>1, <2>2, HandOutLends DEF ResetBorrowed
<1>4. ASSUME NEW g \in Goroutines, NewArena(g) PROVE Lend!LendNext
  <2>1. made + 1 \in ArenaId /\ made + 1 \notin 1..made
    BY <1>1, <1>4, ShardedAssumption DEF NewArena, TypeOK, ArenaId
  <2>2. made + 1 \notin shut /\ \A h \in Goroutines : made + 1 \notin hold[h]
    BY <1>1, <2>1 DEF TypeOK
  <2> QED
    BY <1>1, <1>4, <2>1, <2>2, HandOutLends DEF NewArena
<1>5. ASSUME NEW g \in Goroutines, NEW a \in ArenaId, Release(g, a) PROVE Lend!LendNext
  <2>1. \A h \in Goroutines : hold'[h] = IF h = g THEN hold[h] \ {a} ELSE hold[h]
    BY <1>1, <1>5 DEF Release, TypeOK
  <2>2. {p \in Goroutines \X ArenaId : p[2] \in hold'[p[1]]}
          = {p \in Goroutines \X ArenaId : p[2] \in hold[p[1]]} \ {<<g, a>>}
    <3>1. ASSUME NEW h \in Goroutines, NEW b \in ArenaId
          PROVE  b \in hold'[h] <=> b \in hold[h] /\ <<h, b>> # <<g, a>>
      BY <2>1
    <3> QED
      BY <3>1
  <2>3. Lend!GiveBack(g, a)
    BY <1>5, <2>2 DEF Release, Lend!GiveBack
  <2> QED
    BY <2>3 DEF Lend!LendNext
<1>6. ASSUME NEW S \in SUBSET ArenaId, shut' = shut \cup S, UNCHANGED hold,
             \A h \in Goroutines : \A a \in S : a \notin hold[h]
      PROVE  Lend!LendNext
  <2>1. Lend!Destroy(S)
    BY <1>6 DEF Lend!Destroy
  <2> QED
    BY <2>1 DEF Lend!LendNext
<1>7. ASSUME NEW g \in Goroutines, DestroyArena(g) PROVE Lend!LendNext
  <2>1. loc[g].a \in ArenaId /\ loc[g].a # NoArena
    BY <1>1, <1>7, ShardedAssumption DEF DestroyArena, HandInv, Carrying, TypeOK, ArenaId, NoArena
  <2>2. \A h \in Goroutines : loc[g].a \notin hold[h]
    BY <1>1 DEF HeldInv
  <2>3. {loc[g].a} \in SUBSET ArenaId /\ shut' = shut \cup {loc[g].a} /\ UNCHANGED hold
    BY <1>7, <2>1 DEF DestroyArena
  <2>4. \A h \in Goroutines : \A a \in {loc[g].a} : a \notin hold[h]
    BY <2>2
  <2> QED
    BY <1>6, <2>3, <2>4
<1>8. ASSUME NEW g \in Goroutines, Drain(g) PROVE Lend!LendNext
  <2> DEFINE i == loc[g].idx
  <2>1. i \in Shard /\ DOMAIN shards[i] = 1..Len(shards[i]) /\ shards[i] \in Seq(ArenaId)
    BY <1>1, PoolFields
  <2>2. \A a \in Range(shards[i]) : a \in ArenaId /\ \A h \in Goroutines : a \notin hold[h]
    BY <1>1, <2>1, ElementOfSeq DEF Range, PooledInv
  <2>3. shut' = shut \cup Range(shards[i]) /\ UNCHANGED hold
    BY <1>8 DEF Drain
  <2> QED
    BY <1>6, <2>2, <2>3
<1>9. ASSUME NEW g \in Goroutines, Borrow(g) \/ PickShard(g) \/ Pop(g) \/ Push(g) \/ Close(g)
      PROVE  UNCHANGED <<hold, shut>>
  BY <1>9 DEF Borrow, PickShard, Pop, Push, Close
<1>10. CASE UNCHANGED spvars
  BY <1>2, <1>10 DEF spvars
<1> QED
  BY <1>2, <1>3, <1>4, <1>5, <1>7, <1>8, <1>9, <1>10 DEF Next, Step

(***************************************************************************)
(* The pool implements lending: under every interleaving of Borrow,        *)
(* Release and Close an arena is lent to one client at a time, never after *)
(* it was closed, and is not closed while a client holds it.               *)
(***************************************************************************)
THEOREM PoolImplementsLending == Spec => ImplementsLending
<1>1. Init => Lend!LendInit
  BY DEF Init, Lend!LendInit
<1> QED
  BY <1>1, PoolInvariant, LendingStep, PTL DEF Spec, ImplementsLending, Lend!LendSpec
=============================================================================
