---------------------------- MODULE ScopeProofs ----------------------------
(***************************************************************************)
(* What Scope promises whatever calls of its methods race: cleanups run    *)
(* once and, where clients do not race on one scope, all of them in        *)
(* reverse; maps and channels are lent to one scope at a time and come     *)
(* back clean; the metrics add up.  For any number of goroutines, scopes,  *)
(* functions, maps and channels.                                           *)
(***************************************************************************)
EXTENDS Scope, FiniteSetTheorems, SequenceTheorems, TLAPS

Exiting == {"exit", "cleanup", "poison"}

(***************************************************************************)
(* The types that the proofs need.                                         *)
(***************************************************************************)
LocTypes == [s : Scopes \cup {NoOne}, item : Items \cup {NoOne}, seen : Seq(Items),
             buf : Nat, i : Nat]

ScopeTypes ==
  /\ active \subseteq entered /\ entered \subseteq Scopes
  /\ cleanups \in [Scopes -> Seq(Items)]
  /\ ran \in [Scopes -> Seq(Items)]
  /\ registered \in [Scopes -> Seq(Items)]
  /\ pooled \subseteq Objects /\ fresh \subseteq Objects
  /\ lent \in [Scopes -> SUBSET Objects] /\ held \in [Scopes -> SUBSET Objects]
  /\ pc \in [Goroutines -> Labels]
  /\ loc \in [Goroutines -> LocTypes]

BlockTypes ==
  /\ made \in Nat
  /\ used \in [Scopes -> Nat]
  /\ owned \in [Scopes -> SUBSET (1..made)]
  /\ allocs \in [Scopes -> SUBSET Nat]
  /\ metrics \in [scopes : Int, bypassed : Nat]

(***************************************************************************)
(* Where a goroutine is in a call, and on which scope.  Only one goroutine *)
(* gets past the CompareAndSwap of Exit.                                   *)
(***************************************************************************)
CallAt(g) ==
  /\ pc[g] # "idle" => loc[g].s \in entered
  /\ pc[g] = "idle" => loc[g] = Idle
  /\ pc[g] \in {"register", "append", "return"} <=> loc[g].item \in Items
  /\ pc[g] \in {"register", "return"} => loc[g].item \in Objects
  /\ pc[g] \in Exiting => loc[g].s \notin active

CallInv ==
  /\ \A g \in Goroutines : CallAt(g)
  /\ \A g, h \in Goroutines :
       pc[g] \in Exiting /\ pc[h] \in Exiting /\ loc[g].s = loc[h].s => g = h

(***************************************************************************)
(* A cleanup x is at position j of s.cleanups, or of the slice that a call *)
(* of OnExit has read and will append to.                                  *)
(***************************************************************************)
ListedIn(q, j, x) == j \in 1..Len(q) /\ q[j] = x

At(s, j, x) ==
  \/ ListedIn(cleanups[s], j, x)
  \/ \E h \in Goroutines : pc[h] = "append" /\ loc[h].s = s /\ ListedIn(loc[h].seen, j, x)

(***************************************************************************)
(* However appends race, a function keeps its position; the loop of Exit,  *)
(* which goes down, has left behind what it has run.  (A map or channel    *)
(* can be listed twice, when it is given back and taken again.)            *)
(***************************************************************************)
Positions ==
  \A s \in Scopes : \A x \in Functions : \A j, k \in Nat : At(s, j, x) /\ At(s, k, x) => j = k

NotYetListed ==
  \A h \in Goroutines : pc[h] = "append" /\ loc[h].item \in Functions =>
    /\ \A j \in Nat : ~At(loc[h].s, j, loc[h].item)
    /\ loc[h].item \notin Range(ran[loc[h].s])

LeftBehind ==
  /\ \A g \in Goroutines : pc[g] = "cleanup" =>
       \A x \in Range(ran[loc[g].s]) \cap Functions : \A j \in Nat :
         At(loc[g].s, j, x) => j > loc[g].i
  /\ \A g \in Goroutines : pc[g] = "exit" => ran[loc[g].s] = <<>>
  /\ \A s \in Scopes : s \in active \/ s \notin entered => ran[s] = <<>>

RanOnce ==
  \A s \in Scopes : \A i, j \in 1..Len(ran[s]) :
    ran[s][i] = ran[s][j] /\ ran[s][i] \in Functions => i = j

(***************************************************************************)
(* A function belongs to the scope it was registered with.                 *)
(***************************************************************************)
Belongs ==
  /\ \A s \in Scopes : \A f \in Functions : \A j \in Nat : At(s, j, f) => f \in Range(registered[s])
  /\ \A s \in Scopes : \A f \in Functions : f \in Range(ran[s]) => f \in Range(registered[s])
  /\ \A s, t \in Scopes : \A f \in Functions :
       f \in Range(registered[s]) /\ f \in Range(registered[t]) => s = t
  /\ \A h \in Goroutines : loc[h].item \in Functions =>
       /\ \A s \in Scopes : loc[h].item \notin Range(registered[s])
       /\ \A g \in Goroutines : loc[g].item = loc[h].item => g = h

OnceInv == Positions /\ NotYetListed /\ LeftBehind /\ RanOnce /\ Belongs

(***************************************************************************)
(* The loop of an Exit, under way or to come, will reach position j.       *)
(***************************************************************************)
ToRun(s, j) ==
  \/ s \in active
  \/ \E g \in Goroutines : /\ loc[g].s = s
                           /\ pc[g] = "exit" \/ (pc[g] = "cleanup" /\ j <= loc[g].i)

Runnable(s, x) == \E j \in Nat : At(s, j, x) /\ ToRun(s, j)

(***************************************************************************)
(* A map or channel is in one pool, or in one call of AllocMap that has    *)
(* not registered it yet, or at one place of the cleanups that an Exit     *)
(* will reach, or will never be given back.                                *)
(***************************************************************************)
Carries(h, o) == pc[h] \in {"register", "append"} /\ loc[h].item = o

PoolOnly ==
  \A o \in pooled \cup fresh :
    /\ \A s \in Scopes : o \notin lent[s]
    /\ \A h \in Goroutines : ~Carries(h, o)

FlyingOnly ==
  \A h \in Goroutines : \A o \in Objects : Carries(h, o) =>
    /\ o \in lent[loc[h].s]
    /\ \A s \in Scopes : ~Runnable(s, o)
    /\ \A g \in Goroutines : Carries(g, o) => g = h

ScopeOnly ==
  \A o \in Objects : \A s \in Scopes :
    /\ Runnable(s, o) => o \in lent[s]
    /\ \A t \in Scopes : o \in lent[s] /\ o \in lent[t] => s = t
    /\ \A j, k \in Nat : At(s, j, o) /\ ToRun(s, j) /\ At(s, k, o) /\ ToRun(s, k) => j = k

(***************************************************************************)
(* What clients got through a scope is not yet given back, unless the      *)
(* scope has exited and calls raced on it.                                 *)
(***************************************************************************)
HeldAt(s) ==
  /\ held[s] \subseteq lent[s]
  /\ \A h \in Goroutines : loc[h].s = s /\ pc[h] = "return" => loc[h].item \in lent[s]

HeldInv == \A s \in Scopes \ (messy \cap (entered \ active)) : HeldAt(s)

OwnInv == PoolOnly /\ FlyingOnly /\ ScopeOnly /\ PooledClean

(***************************************************************************)
(* On a scope that nobody raced on.                                        *)
(***************************************************************************)
RanDown(s, i) ==
  /\ i \in Nat /\ Len(ran[s]) = Len(registered[s]) - i
  /\ \A k \in 1..Len(ran[s]) : ran[s][k] = registered[s][Len(registered[s]) + 1 - k]

NotEntered == \A s \in Scopes \ entered : cleanups[s] = <<>> /\ registered[s] = <<>>

\* Where a goroutine can be in a call that allocates, but for its write of s.cleanups.
Calling == {"alloc", "count", "track", "get", "register", "return"}

OnScope(g, s, labels) == loc[g].s = s /\ pc[g] \in labels

OrderlyAt(s) ==
  /\ s \in active => cleanups[s] = registered[s]
  /\ \A g \in Goroutines :
       /\ OnScope(g, s, {"exit"}) => cleanups[s] = registered[s]
       /\ OnScope(g, s, {"cleanup"}) => cleanups[s] = registered[s] /\ RanDown(s, loc[g].i)
       /\ OnScope(g, s, {"append"}) =>
            /\ s \in active /\ loc[g].seen = cleanups[s]
            /\ \A h \in Goroutines : OnScope(h, s, {"append"}) => h = g
       /\ OnScope(g, s, Calling) => s \in active
  /\ s \in entered \ active /\ (\A g \in Goroutines : ~OnScope(g, s, {"exit", "cleanup"})) =>
       RanDown(s, 0)

PoisonAt(s) ==
  \A b \in owned[s] :
    \/ b \in poisoned
    \/ b \in allocs[s] /\ (s \in active \/ \E g \in Goroutines : OnScope(g, s, Exiting))
    \/ \E g \in Goroutines : OnScope(g, s, {"count", "track"}) /\ loc[g].buf = b

OrderlyInv == \A s \in Scopes \ messy : OrderlyAt(s)

PoisonInv == \A s \in Scopes \ messy : PoisonAt(s)

(***************************************************************************)
(* What the counters of GlobalMetrics count.                               *)
(***************************************************************************)
Leaving == {s \in Scopes : \E g \in Goroutines : OnScope(g, s, {"exit"})}

Uncounted(s) == {b \in owned[s] : \E g \in Goroutines : OnScope(g, s, {"count"}) /\ loc[g].buf = b}

Bypassed == UNION {owned[s] : s \in (entered \ active) \ Leaving}

CountInv ==
  /\ IsFiniteSet(active) /\ IsFiniteSet(Leaving)
  /\ metrics.scopes = Cardinality(active) + Cardinality(Leaving)

BytesInv ==
  /\ \A s, t \in Scopes : s # t => owned[s] \cap owned[t] = {}
  /\ \A g, h \in Goroutines :
       pc[g] = "count" => /\ loc[g].buf \in owned[loc[g].s]
                          /\ pc[h] = "count" /\ loc[h].buf = loc[g].buf => g = h
  /\ \A s \in Scopes : used[s] = Cardinality(owned[s] \ Uncounted(s))
  /\ messy = {} => metrics.bypassed = Cardinality(Bypassed)

----------------------------------------------------------------------------
(* What a step does to the goroutine that takes it *)

Elsewhere(g) == \A h \in Goroutines : h # g => pc'[h] = pc[h] /\ loc'[h] = loc[h]

LEMMA IdleFields ==
  /\ Idle \in LocTypes
  /\ Idle.s = NoOne /\ Idle.item = NoOne /\ Idle.i = 0 /\ Idle.buf = 0
  /\ NoOne \notin Scopes /\ NoOne \notin Items
  BY ScopeAssumption DEF Idle, LocTypes, Items

LEMMA LocFields ==
  ASSUME ScopeTypes, NEW g \in Goroutines
  PROVE  /\ loc[g] \in LocTypes /\ loc[g].s \in Scopes \cup {NoOne}
         /\ loc[g].item \in Items \cup {NoOne} /\ loc[g].seen \in Seq(Items)
         /\ loc[g].buf \in Nat /\ loc[g].i \in Nat /\ pc[g] \in Labels
  BY DEF ScopeTypes, LocTypes

LEMMA FinishEffect ==
  ASSUME ScopeTypes, NEW g \in Goroutines, Finish(g)
  PROVE  pc'[g] = "idle" /\ loc'[g] = Idle /\ Elsewhere(g)
  BY DEF ScopeTypes, Finish, Goto, Elsewhere

(***************************************************************************)
(* The calls that allocate begin with the check of Active.                 *)
(***************************************************************************)
Starts(g, s) == TryAlloc(g, s) \/ AllocPooled(g, s)

LEMMA StartsEffect ==
  ASSUME ScopeTypes, NEW g \in Goroutines, NEW s \in Scopes, Starts(g, s)
  PROVE  /\ pc[g] = "idle" /\ pc'[g] \in {"alloc", "get"} /\ s \in active
         /\ loc'[g] \in LocTypes /\ loc'[g].s = s /\ loc'[g].item = NoOne /\ Elsewhere(g)
         /\ UNCHANGED <<entered, active, used, cleanups, allocs, made, poisoned, pools,
                        metrics, hist, messy>>
<1>1. /\ loc' = [loc EXCEPT ![g] = [Idle EXCEPT !.s = s]]
      /\ pc' = [pc EXCEPT ![g] = "alloc"] \/ pc' = [pc EXCEPT ![g] = "get"]
      /\ UNCHANGED <<entered, active, used, cleanups, allocs, made, poisoned, pools,
                     metrics, hist, messy>>
      /\ pc[g] = "idle" /\ s \in active
  BY DEF Starts, TryAlloc, AllocPooled, Goto
<1>2. loc'[g] = [Idle EXCEPT !.s = s] /\ pc'[g] \in {"alloc", "get"} /\ Elsewhere(g)
  BY <1>1 DEF ScopeTypes, Elsewhere
<1>3. [Idle EXCEPT !.s = s] \in LocTypes /\ [Idle EXCEPT !.s = s].s = s
      /\ [Idle EXCEPT !.s = s].item = NoOne
  BY IdleFields DEF LocTypes
<1> QED
  BY <1>1, <1>2, <1>3

LEMMA ExitEffect ==
  ASSUME ScopeTypes, NEW g \in Goroutines, NEW s \in Scopes, Exit(g, s)
  PROVE  /\ pc[g] = "idle" /\ pc'[g] = "exit" /\ s \in active /\ active' = active \ {s}
         /\ loc'[g] \in LocTypes /\ loc'[g].s = s /\ loc'[g].item = NoOne /\ Elsewhere(g)
         /\ messy' = IF Busy(g, s, Allocating) THEN messy \cup {s}
                     ELSE messy
         /\ UNCHANGED <<entered, used, cleanups, allocs, made, poisoned, pools, metrics, hist>>
<1>1. loc'[g] = [Idle EXCEPT !.s = s] /\ pc'[g] = "exit" /\ Elsewhere(g)
  BY DEF ScopeTypes, Exit, Goto, Elsewhere
<1>2. [Idle EXCEPT !.s = s] \in LocTypes /\ [Idle EXCEPT !.s = s].s = s
      /\ [Idle EXCEPT !.s = s].item = NoOne
  BY IdleFields DEF LocTypes
<1> QED
  BY <1>1, <1>2 DEF Exit, Mess

LEMMA BeginOnExitEffect ==
  ASSUME ScopeTypes, NEW g \in Goroutines, NEW s \in Scopes, NEW x \in Items, BeginOnExit(g, s, x)
  PROVE  /\ pc'[g] = "append" /\ loc'[g].s = s /\ loc'[g].item = x /\ loc'[g].seen = cleanups[s]
         /\ loc'[g] \in LocTypes /\ Elsewhere(g)
         /\ messy' = IF s \notin active \/ Busy(g, s, {"append"}) THEN messy \cup {s} ELSE messy
<1> DEFINE m == [Idle EXCEPT !.s = s, !.item = x, !.seen = cleanups[s]]
<1>1. loc'[g] = m /\ pc'[g] = "append" /\ Elsewhere(g)
  BY DEF ScopeTypes, BeginOnExit, Goto, Elsewhere
<1>2. cleanups[s] \in Seq(Items)
  BY DEF ScopeTypes
<1>3. m \in LocTypes /\ m.s = s /\ m.item = x /\ m.seen = cleanups[s]
  BY <1>2, IdleFields DEF LocTypes
<1> QED
  BY <1>1, <1>3 DEF BeginOnExit, Mess

LEMMA ArenaAllocEffect ==
  ASSUME ScopeTypes, BlockTypes, NEW g \in Goroutines, ArenaAlloc(g)
  PROVE  /\ pc[g] = "alloc" /\ pc'[g] = "count" /\ made' = made + 1
         /\ owned' = [owned EXCEPT ![loc[g].s] = @ \cup {made + 1}]
         /\ loc'[g] \in LocTypes /\ loc'[g].s = loc[g].s /\ loc'[g].item = loc[g].item
         /\ loc'[g].buf = made + 1 /\ Elsewhere(g)
         /\ UNCHANGED <<entered, active, used, cleanups, allocs, poisoned, pools, metrics,
                        ran, registered, messy>>
<1>1. loc'[g] = [loc[g] EXCEPT !.buf = made'] /\ pc'[g] = "count" /\ Elsewhere(g)
  BY DEF ScopeTypes, ArenaAlloc, Goto, Elsewhere
<1>2. made' = made + 1 /\ made' \in Nat
  BY DEF ArenaAlloc, BlockTypes
<1>3. \A b \in Nat : LET m == [loc[g] EXCEPT !.buf = b]
                     IN m \in LocTypes /\ m.s = loc[g].s /\ m.item = loc[g].item /\ m.buf = b
  BY LocFields DEF LocTypes
<1> QED
  BY <1>1, <1>2, <1>3 DEF ArenaAlloc

LEMMA TrackUsedEffect ==
  ASSUME ScopeTypes, NEW g \in Goroutines, TrackUsed(g)
  PROVE  /\ pc[g] = "count" /\ pc'[g] = "track" /\ loc' = loc /\ Elsewhere(g)
         /\ used' = [used EXCEPT ![loc[g].s] = @ + 1]
         /\ UNCHANGED <<entered, active, cleanups, allocs, made, poisoned, pools, metrics,
                        loc, hist, messy>>
  BY DEF ScopeTypes, TrackUsed, Goto, Elsewhere

LEMMA GetEffect ==
  ASSUME ScopeTypes, NEW g \in Goroutines, NEW o \in Objects, GetPooled(g, o), loc[g].s \in Scopes
  PROVE  LET s == loc[g].s
         IN /\ pc[g] = "get" /\ pc'[g] = "register" /\ o \in pooled \cup fresh
            /\ loc'[g] \in LocTypes /\ loc'[g].s = s /\ loc'[g].item = o /\ Elsewhere(g)
            /\ pooled' = pooled \ {o} /\ fresh' = fresh \ {o}
            /\ lent'[s] = lent[s] \cup {o} /\ \A t \in Scopes : t # s => lent'[t] = lent[t]
            /\ lent' \in [Scopes -> SUBSET Objects]
            /\ UNCHANGED <<entered, active, used, cleanups, allocs, made, poisoned, filled, shut,
                           held, metrics, hist, messy>>
<1>1. loc'[g] = [loc[g] EXCEPT !.item = o] /\ pc'[g] = "register" /\ Elsewhere(g)
  BY DEF ScopeTypes, GetPooled, Goto, Elsewhere
<1>2. LET m == [loc[g] EXCEPT !.item = o]
      IN m \in LocTypes /\ m.s = loc[g].s /\ m.item = o
  BY LocFields DEF LocTypes, Items
<1>3. /\ lent' = [lent EXCEPT ![loc[g].s] = @ \cup {o}] /\ lent \in [Scopes -> SUBSET Objects]
  BY DEF GetPooled, ScopeTypes
<1>4. /\ lent'[loc[g].s] = lent[loc[g].s] \cup {o} /\ lent' \in [Scopes -> SUBSET Objects]
      /\ \A t \in Scopes : t # loc[g].s => lent'[t] = lent[t]
  BY <1>3
<1> QED
  BY <1>1, <1>2, <1>4 DEF GetPooled

LEMMA AppendedEffect ==
  ASSUME ScopeTypes, NEW g \in Goroutines, Appended(g), loc[g].s \in Scopes
  PROVE  LET s == loc[g].s
             x == loc[g].item
         IN /\ pc[g] = "append" /\ Elsewhere(g)
            /\ \/ x \in Functions /\ pc'[g] = "idle" /\ loc'[g] = Idle
               \/ x \in Objects /\ pc'[g] = "return" /\ loc'[g] = loc[g]
            /\ cleanups'[s] = Append(loc[g].seen, x) /\ registered'[s] = Append(registered[s], x)
            /\ \A t \in Scopes : t # s => /\ cleanups'[t] = cleanups[t]
                                          /\ registered'[t] = registered[t]
            /\ cleanups' \in [Scopes -> Seq(Items \cup {x})]
            /\ registered' \in [Scopes -> Seq(Items \cup {x})]
            /\ UNCHANGED <<entered, active, used, allocs, made, poisoned, pools, metrics, owned,
                           ran, messy>>
<1> DEFINE s == loc[g].s
           x == loc[g].item
<1>1. /\ pc[g] = "append" /\ Elsewhere(g)
      /\ \/ x \in Functions /\ pc'[g] = "idle" /\ loc'[g] = Idle
         \/ x \in Objects /\ pc'[g] = "return" /\ loc'[g] = loc[g]
  <2>1. CASE x \in Functions /\ Finish(g)
    BY <2>1, FinishEffect DEF Appended
  <2>2. CASE x \in Objects /\ Goto(g, "return") /\ UNCHANGED loc
    BY <2>2 DEF Appended, Goto, ScopeTypes, Elsewhere
  <2> QED
    BY <2>1, <2>2 DEF Appended
<1>2. /\ cleanups' = [cleanups EXCEPT ![s] = Append(loc[g].seen, x)]
      /\ registered' = [registered EXCEPT ![s] = Append(@, x)]
      /\ UNCHANGED <<entered, active, used, allocs, made, poisoned, pools, metrics, owned,
                     ran, messy>>
  BY DEF Appended
<1>3. /\ cleanups \in [Scopes -> Seq(Items)] /\ registered \in [Scopes -> Seq(Items)]
      /\ loc[g].seen \in Seq(Items)
  BY LocFields DEF ScopeTypes
<1> HIDE DEF s, x
<1>4. s \in Scopes
  BY DEF s
<1>5. Seq(Items) \subseteq Seq(Items \cup {x})
  OBVIOUS
<1>6. Append(loc[g].seen, x) \in Seq(Items \cup {x}) /\ Append(registered[s], x) \in Seq(Items \cup {x})
  BY <1>3, <1>4
<1>7. /\ cleanups' \in [Scopes -> Seq(Items \cup {x})]
      /\ registered' \in [Scopes -> Seq(Items \cup {x})]
  BY <1>2, <1>3, <1>5, <1>6
<1>8. /\ cleanups'[s] = Append(loc[g].seen, x) /\ registered'[s] = Append(registered[s], x)
      /\ \A t \in Scopes : t # s => /\ cleanups'[t] = cleanups[t]
                                    /\ registered'[t] = registered[t]
  BY <1>2, <1>3, <1>4
<1> QED
  BY <1>1, <1>2, <1>7, <1>8 DEF s, x

LEMMA RecordScopeExitEffect ==
  ASSUME ScopeTypes, NEW g \in Goroutines, RecordScopeExit(g), loc[g].s \in Scopes
  PROVE  /\ pc[g] = "exit" /\ pc'[g] = "cleanup" /\ Elsewhere(g)
         /\ metrics' = [scopes |-> metrics.scopes - 1,
                        bypassed |-> metrics.bypassed + used[loc[g].s]]
         /\ loc'[g] \in LocTypes /\ loc'[g].s = loc[g].s /\ loc'[g].item = loc[g].item
         /\ loc'[g].i = Len(cleanups[loc[g].s])
         /\ UNCHANGED <<entered, active, used, cleanups, allocs, made, poisoned, pools, hist, messy>>
<1> DEFINE n == Len(cleanups[loc[g].s])
<1>1. loc'[g] = [loc[g] EXCEPT !.i = n] /\ pc'[g] = "cleanup" /\ Elsewhere(g)
  BY DEF ScopeTypes, RecordScopeExit, Goto, Elsewhere
<1>2. n \in Nat
  BY DEF ScopeTypes
<1> HIDE DEF n
<1>3. LET m == [loc[g] EXCEPT !.i = n]
      IN m \in LocTypes /\ m.s = loc[g].s /\ m.item = loc[g].item /\ m.i = n
  BY <1>2, LocFields DEF LocTypes
<1> QED
  BY <1>1, <1>3 DEF RecordScopeExit, n

LEMMA RunCleanupEffect ==
  ASSUME ScopeTypes, NEW g \in Goroutines, RunCleanup(g), loc[g].s \in Scopes
  PROVE  LET s == loc[g].s
             x == NextCleanup(g)
         IN /\ pc[g] = "cleanup" /\ pc' = pc /\ Elsewhere(g)
            /\ loc[g].i \in 1..Len(cleanups[s]) /\ x = cleanups[s][loc[g].i] /\ x \in Items
            /\ ran' = [ran EXCEPT ![s] = Append(@, x)]
            /\ lent' = [lent EXCEPT ![s] = @ \ {x}] /\ held' = [held EXCEPT ![s] = @ \ {x}]
            /\ filled' \subseteq filled /\ pooled' \subseteq pooled \cup {x}
            /\ x \in Objects => x \notin filled' /\ (x \in pooled' => x \in pooled \/ x \notin shut)
            /\ x \notin Objects => pooled' = pooled
            /\ pooled \subseteq pooled' /\ filled \subseteq filled' \cup {x}
            /\ loc'[g] \in LocTypes /\ loc'[g].s = s /\ loc'[g].item = loc[g].item
            /\ loc'[g].i = loc[g].i - 1
            /\ UNCHANGED <<entered, active, used, cleanups, allocs, made, poisoned, fresh, shut,
                           metrics, pc, owned, registered, messy>>
<1> DEFINE s == loc[g].s
           x == NextCleanup(g)
<1>1. /\ pc[g] = "cleanup" /\ pc' = pc /\ loc[g].i \in 1..Len(cleanups[s])
      /\ ran' = [ran EXCEPT ![s] = Append(@, x)]
      /\ lent' = [lent EXCEPT ![s] = @ \ {x}] /\ held' = [held EXCEPT ![s] = @ \ {x}]
      /\ UNCHANGED <<entered, active, used, cleanups, allocs, made, poisoned, fresh, shut,
                     metrics, pc, owned, registered, messy>>
      /\ IF x \in Objects
           THEN /\ filled' = filled \ {x}
                /\ pooled' = IF x \notin shut THEN pooled \cup {x} ELSE pooled
           ELSE filled' = filled /\ pooled' = pooled
  BY DEF RunCleanup, Emptied, Reusable
<1>2. loc'[g] = [loc[g] EXCEPT !.i = loc[g].i - 1] /\ Elsewhere(g)
  BY <1>1 DEF ScopeTypes, RunCleanup, Elsewhere
<1>3. x = cleanups[s][loc[g].i] /\ cleanups[s] \in Seq(Items) /\ loc[g].i - 1 \in Nat
  BY <1>1, LocFields DEF ScopeTypes, NextCleanup
<1>4. x \in Items
  BY <1>1, <1>3
<1> HIDE DEF x
<1>5. \A k \in Nat : LET m == [loc[g] EXCEPT !.i = k]
                     IN m \in LocTypes /\ m.s = loc[g].s /\ m.item = loc[g].item /\ m.i = k
  BY LocFields DEF LocTypes
<1>6. /\ loc'[g] \in LocTypes /\ loc'[g].s = s /\ loc'[g].item = loc[g].item
      /\ loc'[g].i = loc[g].i - 1
  BY <1>2, <1>3, <1>5
<1>7. /\ filled' \subseteq filled /\ pooled' \subseteq pooled \cup {x}
      /\ x \in Objects => x \notin filled' /\ (x \in pooled' => x \in pooled \/ x \notin shut)
      /\ x \notin Objects => pooled' = pooled
      /\ pooled \subseteq pooled' /\ filled \subseteq filled' \cup {x}
  BY <1>1
<1> QED
  BY <1>1, <1>2, <1>3, <1>4, <1>6, <1>7 DEF x

LEMMA CleanupsDoneEffect ==
  ASSUME ScopeTypes, NEW g \in Goroutines, CleanupsDone(g)
  PROVE  /\ pc[g] = "cleanup" /\ pc'[g] = "poison" /\ loc' = loc /\ loc[g].i = 0 /\ Elsewhere(g)
         /\ cleanups' = [cleanups EXCEPT ![loc[g].s] = <<>>]
         /\ UNCHANGED <<entered, active, used, allocs, made, poisoned, pools, metrics, loc,
                        hist, messy>>
  BY DEF ScopeTypes, CleanupsDone, Goto, Elsewhere

(***************************************************************************)
(* The steps that end a call and leave its scope's cleanups alone.         *)
(***************************************************************************)
Ends(g) == ArenaFull(g) \/ TrackBlock(g) \/ ReturnPooled(g) \/ CleanupPanics(g) \/ Poison(g)

LEMMA EndsEffect ==
  ASSUME ScopeTypes, NEW g \in Goroutines, Ends(g)
  PROVE  /\ pc[g] \in {"alloc", "track", "return", "cleanup", "poison"} /\ pc'[g] = "idle"
         /\ loc'[g] = Idle /\ Elsewhere(g)
         /\ UNCHANGED <<entered, active, used, cleanups, made, pooled, fresh, lent, metrics, hist,
                        messy>>
<1>1. Finish(g) /\ pc[g] \in {"alloc", "track", "return", "cleanup", "poison"}
      /\ UNCHANGED <<entered, active, used, cleanups, made, pooled, fresh, lent, metrics, hist, messy>>
  BY DEF Ends, ArenaFull, TrackBlock, ReturnPooled, CleanupPanics, Poison, pools
<1> QED
  BY <1>1, FinishEffect

(***************************************************************************)
(* The steps of clients on maps and channels, and none.                    *)
(***************************************************************************)
Outside ==
  UNCHANGED <<entered, active, used, cleanups, allocs, made, poisoned, pooled, fresh, lent,
              held, metrics, pc, loc, hist, messy>>

LEMMA NextCases ==
  ASSUME [Next]_svars
  PROVE  \/ \E g \in Goroutines :
              \/ \E s \in Scopes :
                   \/ EnterScope(g, s) \/ Starts(g, s) \/ Exit(g, s)
                   \/ \E f \in Functions : OnExit(g, s, f)
              \/ (\E o \in Objects : GetPooled(g, o)) \/ RegisterPooled(g)
              \/ ArenaAlloc(g) \/ Ends(g) \/ TrackUsed(g) \/ Appended(g)
              \/ RecordScopeExit(g) \/ RunCleanup(g) \/ CleanupsDone(g)
         \/ Outside
<1>1. CASE \E g \in Goroutines : Step(g)
  BY <1>1 DEF Step, Starts, Ends
<1>2. CASE \E s \in Scopes, o \in Objects : Fill(s, o) \/ CloseChannel(s, o)
  BY <1>2 DEF Fill, CloseChannel, Outside, hist
<1>3. CASE UNCHANGED svars
  BY <1>3 DEF svars, Outside, pools
<1> QED
  BY <1>1, <1>2, <1>3 DEF Next

(***************************************************************************)
(* Steps of EnterScope.                                                    *)
(***************************************************************************)
LEMMA EnterEffect ==
  ASSUME NEW g \in Goroutines, NEW s \in Scopes, EnterScope(g, s)
  PROVE  /\ s \notin entered /\ entered' = entered \cup {s} /\ active' = active \cup {s}
         /\ metrics' = [metrics EXCEPT !.scopes = @ + 1] /\ Elsewhere(g)
         /\ pc' = pc /\ loc' = loc /\ cleanups' = cleanups
         /\ UNCHANGED <<used, allocs, made, poisoned, pools, hist, messy>>
  BY DEF EnterScope, Elsewhere

LEMMA LocTyped ==
  ASSUME ScopeTypes, NEW g \in Goroutines, Elsewhere(g),
         pc'[g] \in Labels, loc'[g] \in LocTypes,
         \/ pc' = [pc EXCEPT ![g] = pc'[g]]
         \/ pc' = pc,
         \/ loc' = [loc EXCEPT ![g] = loc'[g]]
         \/ loc' = loc
  PROVE  pc' \in [Goroutines -> Labels] /\ loc' \in [Goroutines -> LocTypes]
  BY DEF ScopeTypes

LEMMA RegisterCall ==
  ASSUME ScopeTypes, CallInv, NEW g \in Goroutines, RegisterPooled(g)
  PROVE  /\ pc[g] = "register" /\ loc[g].s \in Scopes /\ loc[g].s \in entered
         /\ loc[g].item \in Objects /\ loc[g].item \in Items /\ loc[g].item \notin Functions
         /\ BeginOnExit(g, loc[g].s, loc[g].item)
         /\ UNCHANGED <<entered, active, used, cleanups, allocs, made, poisoned, pools,
                        metrics, hist>>
  BY ScopeAssumption DEF RegisterPooled, CallInv, CallAt, ScopeTypes, Items

LEMMA TypesInit ==
  ASSUME Init
  PROVE  ScopeTypes /\ BlockTypes
<1>1. pc \in [Goroutines -> Labels] /\ loc \in [Goroutines -> LocTypes]
  BY IdleFields DEF Init, Labels, Allocating
<1>2. <<>> \in Seq(Items)
  OBVIOUS
<1>3. ScopeTypes
  BY <1>1, <1>2 DEF Init, ScopeTypes
<1> QED
  BY <1>3 DEF Init, BlockTypes

LEMMA TypesStep ==
  ASSUME ScopeTypes, BlockTypes, CallInv, [Next]_svars
  PROVE  ScopeTypes'
<1> DEFINE Lists == /\ cleanups' \in [Scopes -> Seq(Items)] /\ ran' \in [Scopes -> Seq(Items)]
                    /\ registered' \in [Scopes -> Seq(Items)]
           Places == pc' \in [Goroutines -> Labels] /\ loc' \in [Goroutines -> LocTypes]
           Pools == /\ pooled' \subseteq Objects /\ fresh' \subseteq Objects
                    /\ lent' \in [Scopes -> SUBSET Objects] /\ held' \in [Scopes -> SUBSET Objects]
           Sets == active' \subseteq entered' /\ entered' \subseteq Scopes
<1>0. ASSUME Lists, Places, Pools, Sets PROVE ScopeTypes'
  BY <1>0 DEF ScopeTypes
<1>1. ASSUME NEW g \in Goroutines, NEW s \in Scopes, EnterScope(g, s) PROVE ScopeTypes'
  BY <1>1 DEF EnterScope, ScopeTypes, pools, hist
<1>2. ASSUME NEW g \in Goroutines, NEW s \in Scopes, Starts(g, s) PROVE ScopeTypes'
  <2>1. Places
    <3>1. pc' = [pc EXCEPT ![g] = pc'[g]] /\ loc' = [loc EXCEPT ![g] = loc'[g]] /\ pc'[g] \in Labels
      BY <1>2 DEF Starts, TryAlloc, AllocPooled, Goto, Labels, Allocating, ScopeTypes
    <3> QED
      BY <1>2, <3>1, StartsEffect, LocTyped
  <2> QED
    BY <1>2, <2>1 DEF Starts, TryAlloc, AllocPooled, ScopeTypes, pools, hist
<1>3. ASSUME NEW g \in Goroutines, NEW s \in Scopes, Exit(g, s) PROVE ScopeTypes'
  <2>1. Places
    <3>1. pc' = [pc EXCEPT ![g] = pc'[g]] /\ loc' = [loc EXCEPT ![g] = loc'[g]] /\ pc'[g] \in Labels
      BY <1>3 DEF Exit, Goto, Labels, Allocating, ScopeTypes
    <3> QED
      BY <1>3, <3>1, ExitEffect, LocTyped
  <2> QED
    BY <1>3, <2>1 DEF Exit, ScopeTypes, pools, hist
<1>4. ASSUME NEW g \in Goroutines, NEW s \in Scopes, NEW x \in Items, BeginOnExit(g, s, x)
      PROVE Places
  <2>1. pc' = [pc EXCEPT ![g] = pc'[g]] /\ loc' = [loc EXCEPT ![g] = loc'[g]] /\ pc'[g] \in Labels
    BY <1>4 DEF BeginOnExit, Goto, Labels, Allocating, ScopeTypes
  <2> QED
    BY <1>4, <2>1, BeginOnExitEffect, LocTyped
<1>5. ASSUME NEW g \in Goroutines, NEW s \in Scopes, NEW f \in Functions, OnExit(g, s, f)
      PROVE ScopeTypes'
  <2>1. Places
    BY <1>5, <1>4 DEF OnExit, Items
  <2> QED
    BY <1>5, <2>1 DEF OnExit, ScopeTypes, pools, hist
<1>6. ASSUME NEW g \in Goroutines, NEW o \in Objects, GetPooled(g, o) PROVE ScopeTypes'
  <2>0. loc[g].s \in Scopes
    BY <1>6 DEF CallInv, CallAt, GetPooled, ScopeTypes
  <2>1. pc' = [pc EXCEPT ![g] = pc'[g]] /\ loc' = [loc EXCEPT ![g] = loc'[g]] /\ pc'[g] \in Labels
    BY <1>6 DEF GetPooled, Goto, Labels, Allocating, ScopeTypes
  <2>2. Places /\ lent' \in [Scopes -> SUBSET Objects]
    BY <1>6, <2>0, <2>1, GetEffect, LocTyped
  <2> QED
    BY <1>6, <2>2 DEF GetPooled, ScopeTypes, hist
<1>15. ASSUME NEW g \in Goroutines, RegisterPooled(g) PROVE ScopeTypes'
  <2>1. Places
    BY <1>15, <1>4, RegisterCall
  <2> QED
    BY <1>15, <2>1, RegisterCall DEF ScopeTypes, pools, hist
<1>7. ASSUME NEW g \in Goroutines, ArenaAlloc(g) PROVE ScopeTypes'
  <2>1. pc' = [pc EXCEPT ![g] = pc'[g]] /\ loc' = [loc EXCEPT ![g] = loc'[g]] /\ pc'[g] \in Labels
    BY <1>7 DEF ArenaAlloc, Goto, ScopeTypes, Labels, Allocating
  <2>2. Places
    BY <1>7, <2>1, ArenaAllocEffect, LocTyped
  <2> QED
    BY <1>7, <2>2 DEF ArenaAlloc, ScopeTypes, pools, hist
<1>8. ASSUME NEW g \in Goroutines, Ends(g) PROVE ScopeTypes'
  <2>1. Finish(g) /\ UNCHANGED <<entered, active, cleanups, pooled, fresh, lent, hist>>
    BY <1>8 DEF Ends, ArenaFull, TrackBlock, ReturnPooled, CleanupPanics, Poison, pools
  <2>2. Places
    BY <2>1, FinishEffect, LocTyped, IdleFields DEF Finish, Goto, Labels, Allocating
  <2>3. held' \in [Scopes -> SUBSET Objects]
    <3>1. CASE ReturnPooled(g)
      <4>1. loc[g].item \in Objects /\ loc[g].s \in Scopes
        BY <3>1 DEF ReturnPooled, CallInv, CallAt, ScopeTypes
      <4> QED
        BY <3>1, <4>1 DEF ReturnPooled, ScopeTypes
    <3>2. CASE ~ReturnPooled(g)
      BY <1>8, <3>2 DEF Ends, ArenaFull, TrackBlock, CleanupPanics, Poison, pools, ScopeTypes
    <3> QED
      BY <3>1, <3>2
  <2> QED
    BY <2>1, <2>2, <2>3 DEF ScopeTypes, hist
<1>9. ASSUME NEW g \in Goroutines, TrackUsed(g) PROVE ScopeTypes'
  <2>1. Places
    BY <1>9 DEF TrackUsed, Goto, Labels, Allocating, ScopeTypes
  <2> QED
    BY <1>9, <2>1 DEF TrackUsed, ScopeTypes, pools, hist
<1>10. ASSUME NEW g \in Goroutines, Appended(g) PROVE ScopeTypes'
  <2>1. loc[g].s \in Scopes /\ loc[g].item \in Items /\ Items \cup {loc[g].item} = Items
    BY <1>10 DEF CallInv, CallAt, Appended, ScopeTypes
  <2>2. Places
    <3>1. \/ pc' = [pc EXCEPT ![g] = pc'[g]] /\ pc'[g] \in Labels /\ loc' = [loc EXCEPT ![g] = loc'[g]]
          \/ pc' = [pc EXCEPT ![g] = pc'[g]] /\ pc'[g] \in Labels /\ loc' = loc
      BY <1>10 DEF Appended, Finish, Goto, Labels, Allocating, ScopeTypes
    <3> QED
      BY <1>10, <2>1, <3>1, AppendedEffect, LocTyped, LocFields, IdleFields
  <2>3. cleanups' \in [Scopes -> Seq(Items)] /\ registered' \in [Scopes -> Seq(Items)]
    BY <1>10, <2>1, AppendedEffect
  <2> QED
    BY <1>10, <2>2, <2>3 DEF Appended, ScopeTypes, pools
<1>11. ASSUME NEW g \in Goroutines, RecordScopeExit(g) PROVE ScopeTypes'
  <2>0. loc[g].s \in Scopes
    BY <1>11 DEF CallInv, CallAt, RecordScopeExit, ScopeTypes
  <2>1. pc' = [pc EXCEPT ![g] = pc'[g]] /\ loc' = [loc EXCEPT ![g] = loc'[g]] /\ pc'[g] \in Labels
    BY <1>11 DEF RecordScopeExit, Goto, ScopeTypes, Labels, Allocating
  <2>2. Places
    BY <1>11, <2>0, <2>1, RecordScopeExitEffect, LocTyped
  <2> QED
    BY <1>11, <2>2 DEF RecordScopeExit, ScopeTypes, pools, hist
<1>12. ASSUME NEW g \in Goroutines, RunCleanup(g) PROVE ScopeTypes'
  <2>0. loc[g].s \in Scopes
    BY <1>12 DEF CallInv, CallAt, RunCleanup, ScopeTypes
  <2>1. loc' = [loc EXCEPT ![g] = loc'[g]]
    BY <1>12 DEF RunCleanup, ScopeTypes
  <2>2. Places
    BY <1>12, <2>0, <2>1, RunCleanupEffect, LocTyped, LocFields
  <2> DEFINE x == NextCleanup(g)
  <2>3. /\ x \in Items /\ ran' = [ran EXCEPT ![loc[g].s] = Append(@, x)]
        /\ lent' = [lent EXCEPT ![loc[g].s] = @ \ {x}] /\ held' = [held EXCEPT ![loc[g].s] = @ \ {x}]
        /\ pooled' \subseteq pooled \cup {x} /\ (x \notin Objects => pooled' = pooled)
    BY <1>12, <2>0, RunCleanupEffect
  <2> HIDE DEF x
  <2>4. /\ ran' \in [Scopes -> Seq(Items)] /\ pooled' \subseteq Objects
        /\ lent' \in [Scopes -> SUBSET Objects] /\ held' \in [Scopes -> SUBSET Objects]
    BY <2>3, <2>0 DEF ScopeTypes
  <2> QED
    BY <1>12, <2>2, <2>4 DEF RunCleanup, ScopeTypes
<1>13. ASSUME NEW g \in Goroutines, CleanupsDone(g) PROVE ScopeTypes'
  <2>1. Places
    BY <1>13 DEF CleanupsDone, Goto, Labels, Allocating, ScopeTypes
  <2>2. <<>> \in Seq(Items)
    OBVIOUS
  <2> QED
    BY <1>13, <2>1, <2>2 DEF CleanupsDone, ScopeTypes, pools, hist
<1>14. CASE Outside
  BY <1>14 DEF Outside, ScopeTypes, hist
<1> QED
  BY <1>1, <1>2, <1>3, <1>5, <1>6, <1>7, <1>8, <1>9, <1>10, <1>11, <1>12, <1>13, <1>14, <1>15, NextCases

LEMMA CallStep ==
  ASSUME ScopeTypes, BlockTypes, CallInv, [Next]_svars
  PROVE  CallInv'
<1> DEFINE Unique == \A g, h \in Goroutines :
             pc[g] \in Exiting /\ pc[h] \in Exiting /\ loc[g].s = loc[h].s => g = h
<1>0. Unique /\ \A g \in Goroutines : CallAt(g)
  BY DEF CallInv
\* g goes from one place to another, and the scopes stay as they are.
<1>a. ASSUME NEW g \in Goroutines, Elsewhere(g), entered \subseteq entered',
             active' \subseteq active \cup (entered' \ entered),
             CallAt(g)', pc'[g] \in Exiting => pc[g] \in Exiting /\ loc'[g].s = loc[g].s
      PROVE CallInv'
  <2>1. \A h \in Goroutines : h # g => CallAt(h)'
    BY <1>0, <1>a DEF CallAt, Elsewhere, Exiting
  <2>2. Unique'
    BY <1>0, <1>a DEF Elsewhere
  <2> QED
    BY <1>a, <2>1, <2>2 DEF CallInv
<1>1. ASSUME NEW g \in Goroutines, NEW s \in Scopes, EnterScope(g, s) PROVE CallInv'
  <2>1. CallAt(g)'
    BY <1>0, <1>1, EnterEffect DEF CallAt, Exiting
  <2> QED
    BY <1>1, <1>a, <2>1, EnterEffect
<1>2. ASSUME NEW g \in Goroutines, NEW s \in Scopes, Starts(g, s) PROVE CallInv'
  <2>1. CallAt(g)'
    BY <1>2, StartsEffect, IdleFields DEF CallAt, Exiting, ScopeTypes
  <2> QED
    BY <1>2, <1>a, <2>1, StartsEffect DEF Exiting
<1>3. ASSUME NEW g \in Goroutines, NEW s \in Scopes, Exit(g, s) PROVE CallInv'
  <2>1. \A h \in Goroutines : CallAt(h)'
    <3>1. CallAt(g)'
      BY <1>3, ExitEffect, IdleFields DEF CallAt, Exiting, ScopeTypes
    <3>2. \A h \in Goroutines : h # g => CallAt(h)'
      BY <1>0, <1>3, ExitEffect DEF CallAt, Elsewhere
    <3> QED
      BY <3>1, <3>2
  <2>2. \A h \in Goroutines : pc[h] \in Exiting => loc[h].s # s
    BY <1>0, <1>3, ExitEffect DEF CallAt
  <2>3. Unique'
    BY <1>0, <1>3, <2>2, ExitEffect DEF Elsewhere
  <2> QED
    BY <2>1, <2>3 DEF CallInv
<1>4. ASSUME NEW g \in Goroutines, NEW s \in Scopes, NEW x \in Items, BeginOnExit(g, s, x),
             s \in entered, entered' = entered, active' = active
      PROVE CallInv'
  <2>1. CallAt(g)'
    BY <1>4, BeginOnExitEffect DEF CallAt, Exiting
  <2> QED
    BY <1>4, <1>a, <2>1, BeginOnExitEffect DEF Exiting
<1>5. ASSUME NEW g \in Goroutines, NEW s \in Scopes, NEW f \in Functions, OnExit(g, s, f)
      PROVE CallInv'
  BY <1>4, <1>5 DEF OnExit, Items
<1>6. ASSUME NEW g \in Goroutines, NEW o \in Objects, GetPooled(g, o) PROVE CallInv'
  <2>0. loc[g].s \in Scopes
    BY <1>6 DEF CallInv, CallAt, GetPooled, ScopeTypes
  <2>1. CallAt(g)'
    BY <1>0, <1>6, <2>0, GetEffect DEF CallAt, Exiting, Items
  <2> QED
    BY <1>6, <1>a, <2>0, <2>1, GetEffect DEF Exiting
<1>15. ASSUME NEW g \in Goroutines, RegisterPooled(g) PROVE CallInv'
  BY <1>4, <1>15, RegisterCall
<1>7. ASSUME NEW g \in Goroutines, ArenaAlloc(g) PROVE CallInv'
  <2>1. CallAt(g)'
    BY <1>0, <1>7, ArenaAllocEffect DEF CallAt, Exiting
  <2> QED
    BY <1>7, <1>a, <2>1, ArenaAllocEffect DEF Exiting
<1>8. ASSUME NEW g \in Goroutines, pc'[g] = "idle", loc'[g] = Idle, Elsewhere(g),
             entered' = entered, active' = active
      PROVE CallInv'
  <2>1. CallAt(g)'
    BY <1>8, IdleFields DEF CallAt, Exiting
  <2> QED
    BY <1>8, <1>a, <2>1 DEF Exiting
<1>9. ASSUME NEW g \in Goroutines, TrackUsed(g) PROVE CallInv'
  <2>1. CallAt(g)'
    BY <1>0, <1>9, TrackUsedEffect DEF CallAt, Exiting
  <2> QED
    BY <1>9, <1>a, <2>1, TrackUsedEffect DEF Exiting
<1>10. ASSUME NEW g \in Goroutines, Appended(g) PROVE CallInv'
  <2>0. loc[g].s \in Scopes /\ loc[g].item \in Items
    BY <1>0, <1>10 DEF CallAt, Appended, ScopeTypes
  <2>1. CASE pc'[g] = "idle" /\ loc'[g] = Idle
    BY <1>8, <1>10, <2>0, <2>1, AppendedEffect
  <2>2. CASE loc[g].item \in Objects /\ pc'[g] = "return" /\ loc'[g] = loc[g]
    <3>1. CallAt(g)'
      BY <1>0, <1>10, <2>0, <2>2, AppendedEffect DEF CallAt, Exiting
    <3> QED
      BY <1>10, <1>a, <2>0, <2>2, <3>1, AppendedEffect DEF Exiting
  <2> QED
    BY <1>10, <2>0, <2>1, <2>2, AppendedEffect
<1>11. ASSUME NEW g \in Goroutines, RecordScopeExit(g) PROVE CallInv'
  <2>0. loc[g].s \in Scopes
    BY <1>11 DEF CallInv, CallAt, RecordScopeExit, ScopeTypes
  <2>1. CallAt(g)'
    BY <1>0, <1>11, <2>0, RecordScopeExitEffect DEF CallAt, Exiting
  <2> QED
    BY <1>11, <1>a, <2>0, <2>1, RecordScopeExitEffect DEF Exiting
<1>12. ASSUME NEW g \in Goroutines, RunCleanup(g) PROVE CallInv'
  <2>0. loc[g].s \in Scopes
    BY <1>12 DEF CallInv, CallAt, RunCleanup, ScopeTypes
  <2>1. CallAt(g)'
    BY <1>0, <1>12, <2>0, RunCleanupEffect DEF CallAt, Exiting
  <2> QED
    BY <1>12, <1>a, <2>0, <2>1, RunCleanupEffect DEF Exiting
<1>13. ASSUME NEW g \in Goroutines, CleanupsDone(g) PROVE CallInv'
  <2>1. CallAt(g)'
    BY <1>0, <1>13, CleanupsDoneEffect DEF CallAt, Exiting
  <2> QED
    BY <1>13, <1>a, <2>1, CleanupsDoneEffect DEF Exiting
<1>14. CASE Outside
  BY <1>0, <1>14 DEF Outside, CallInv, CallAt
<1> QED
  BY <1>1, <1>2, <1>3, <1>5, <1>6, <1>7, <1>8, <1>9, <1>10, <1>11, <1>12, <1>13, <1>14, <1>15,
     NextCases, EndsEffect

LEMMA BlocksStep ==
  ASSUME ScopeTypes, BlockTypes, CallInv, [Next]_svars
  PROVE  BlockTypes'
<1>0. /\ made \in Nat /\ used \in [Scopes -> Nat] /\ owned \in [Scopes -> SUBSET (1..made)]
      /\ allocs \in [Scopes -> SUBSET Nat] /\ metrics \in [scopes : Int, bypassed : Nat]
  BY DEF BlockTypes
<1>a. \A g \in Goroutines : pc[g] # "idle" => loc[g].s \in Scopes
  BY DEF CallInv, CallAt, ScopeTypes
<1>1. ASSUME NEW g \in Goroutines, NEW s \in Scopes, EnterScope(g, s) PROVE BlockTypes'
  <2>1. metrics' \in [scopes : Int, bypassed : Nat]
    BY <1>0, <1>1 DEF EnterScope
  <2> QED
    BY <1>0, <1>1, <2>1 DEF EnterScope, BlockTypes, hist
<1>2. ASSUME NEW g \in Goroutines, NEW s \in Scopes,
             Starts(g, s) \/ Exit(g, s) \/ \E f \in Functions : OnExit(g, s, f)
      PROVE BlockTypes'
  <2>1. UNCHANGED <<made, used, owned, allocs, metrics>>
    BY <1>2 DEF Starts, TryAlloc, AllocPooled, Exit, OnExit, hist
  <2> QED
    BY <2>1, <1>0 DEF BlockTypes
<1>3. ASSUME NEW g \in Goroutines, ArenaAlloc(g) PROVE BlockTypes'
  <2>1. /\ made' = made + 1 /\ loc[g].s \in Scopes
        /\ owned' = [owned EXCEPT ![loc[g].s] = @ \cup {made + 1}]
        /\ UNCHANGED <<used, allocs, metrics>>
    BY <1>3, <1>a, ArenaAllocEffect
  <2>2. 1..made \subseteq 1..made' /\ made + 1 \in 1..made'
    BY <1>0, <2>1
  <2>3. owned' \in [Scopes -> SUBSET (1..made')]
    <3> DEFINE m == 1..made
               n == 1..made'
    <3>1. m \subseteq n /\ made + 1 \in n /\ owned \in [Scopes -> SUBSET m]
      BY <2>2, <1>0
    <3> HIDE DEF m, n
    <3>2. owned' \in [Scopes -> SUBSET n]
      BY <2>1, <3>1
    <3> QED
      BY <3>2 DEF n
  <2> QED
    BY <1>0, <2>1, <2>3 DEF BlockTypes
<1>4. ASSUME NEW g \in Goroutines, Ends(g) PROVE BlockTypes'
  <2>1. allocs' \in [Scopes -> SUBSET Nat]
    <3>1. \/ allocs' = allocs
          \/ allocs' = [allocs EXCEPT ![loc[g].s] = @ \cup {loc[g].buf}]
          \/ allocs' = [allocs EXCEPT ![loc[g].s] = {}]
      BY <1>4 DEF Ends, ArenaFull, TrackBlock, ReturnPooled, CleanupPanics, Poison
    <3> QED
      BY <3>1, <1>0, LocFields
  <2> QED
    BY <1>0, <1>4, <2>1, EndsEffect DEF BlockTypes, hist
<1>5. ASSUME NEW g \in Goroutines, TrackUsed(g) PROVE BlockTypes'
  <2>1. used' = [used EXCEPT ![loc[g].s] = @ + 1] /\ loc[g].s \in Scopes
    BY <1>5, <1>a DEF TrackUsed
  <2>2. used' \in [Scopes -> Nat]
    BY <1>0, <2>1
  <2> QED
    BY <1>0, <1>5, <2>2 DEF TrackUsed, BlockTypes, hist
<1>6. ASSUME NEW g \in Goroutines, RecordScopeExit(g) PROVE BlockTypes'
  <2>1. loc[g].s \in Scopes
    BY <1>6, <1>a DEF RecordScopeExit
  <2>2. metrics' \in [scopes : Int, bypassed : Nat]
    BY <1>0, <1>6, <2>1 DEF RecordScopeExit
  <2> QED
    BY <1>0, <1>6, <2>2 DEF RecordScopeExit, BlockTypes, hist
<1>7. ASSUME NEW g \in Goroutines,
             \/ (\E o \in Objects : GetPooled(g, o)) \/ RegisterPooled(g)
             \/ Appended(g) \/ RunCleanup(g) \/ CleanupsDone(g)
      PROVE BlockTypes'
  <2>1. UNCHANGED <<made, used, owned, allocs, metrics>>
    BY <1>7 DEF GetPooled, RegisterPooled, Appended, RunCleanup, CleanupsDone, hist
  <2> QED
    BY <2>1, <1>0 DEF BlockTypes
<1>8. CASE Outside
  BY <1>0, <1>8 DEF Outside, BlockTypes, hist
<1> QED
  BY <1>1, <1>2, <1>3, <1>4, <1>5, <1>6, <1>7, <1>8, NextCases

----------------------------------------------------------------------------
(* No cleanup runs twice *)

LEMMA RangeAppend ==
  ASSUME NEW S, NEW q \in Seq(S), NEW x
  PROVE  Range(Append(q, x)) = Range(q) \cup {x}
<1>1. /\ DOMAIN q = 1..Len(q) /\ Len(q) \in Nat /\ DOMAIN Append(q, x) = 1..(Len(q) + 1)
      /\ \A i \in 1..Len(q) : Append(q, x)[i] = q[i]
      /\ Append(q, x)[Len(q) + 1] = x
  OBVIOUS
<1>2. ASSUME NEW y \in Range(Append(q, x)) PROVE y \in Range(q) \cup {x}
  <2>1. PICK i \in 1..(Len(q) + 1) : y = Append(q, x)[i]
    BY <1>1 DEF Range
  <2>2. i \in 1..Len(q) \/ i = Len(q) + 1
    BY <1>1
  <2> QED
    BY <1>1, <2>1, <2>2 DEF Range
<1>3. ASSUME NEW y \in Range(q) \cup {x} PROVE y \in Range(Append(q, x))
  <2>1. 1..Len(q) \subseteq 1..(Len(q) + 1) /\ Len(q) + 1 \in 1..(Len(q) + 1)
    BY <1>1
  <2> QED
    BY <1>1, <1>3, <2>1 DEF Range
<1> QED
  BY <1>2, <1>3

LEMMA RangeEmpty == Range(<<>>) = {}
  BY DEF Range

LEMMA AtShrinks ==
  ASSUME NEW g \in Goroutines, Elsewhere(g), pc'[g] # "append",
         \A s \in Scopes : cleanups'[s] = cleanups[s] \/ cleanups'[s] = <<>>
  PROVE  \A s \in Scopes, j \in Nat, x \in Items : At(s, j, x)' => At(s, j, x)
<1> SUFFICES ASSUME NEW s \in Scopes, NEW j \in Nat, NEW x \in Items, At(s, j, x)'
             PROVE  At(s, j, x)
  OBVIOUS
<1>1. CASE ListedIn(cleanups'[s], j, x)
  BY <1>1 DEF At, ListedIn
<1>2. ASSUME NEW h \in Goroutines, pc'[h] = "append", loc'[h].s = s, ListedIn(loc'[h].seen, j, x)
      PROVE At(s, j, x)
  BY <1>2 DEF At, Elsewhere
<1> QED
  BY <1>1, <1>2 DEF At

(***************************************************************************)
(* The steps that neither register a cleanup nor run one.                  *)
(***************************************************************************)
LEMMA OnceQuiet ==
  ASSUME OnceInv, ScopeTypes, CallInv, NEW g \in Goroutines, Elsewhere(g),
         pc'[g] # "append", loc'[g].item \notin Functions,
         \A s \in Scopes : cleanups'[s] = cleanups[s] \/ cleanups'[s] = <<>>,
         ran' = ran, registered' = registered,
         pc'[g] = "cleanup" => pc[g] \in {"exit", "cleanup"} /\ loc'[g].s = loc[g].s
                               /\ loc[g].s \in Scopes
                               /\ (pc[g] = "cleanup" => loc'[g].i = loc[g].i),
         pc'[g] = "exit" => loc'[g].s \in Scopes /\ ran[loc'[g].s] = <<>>,
         \A s \in Scopes : s \in active' \/ s \notin entered' => s \in active \/ s \notin entered
  PROVE  OnceInv'
<1>0. \A s \in Scopes, j \in Nat, x \in Items : At(s, j, x)' => At(s, j, x)
  BY AtShrinks
<1>1. Positions'
  <2>1. \A s \in Scopes : \A x \in Functions : \A j, k \in Nat : At(s, j, x)' /\ At(s, k, x)' => j = k
    BY <1>0 DEF OnceInv, Positions, Items
  <2> QED
    BY <2>1 DEF Positions
<1>2. NotYetListed'
  <2> SUFFICES ASSUME NEW h \in Goroutines, pc'[h] = "append", loc'[h].item \in Functions
               PROVE  /\ \A j \in Nat : ~At(loc[h].s, j, loc[h].item)'
                      /\ loc'[h].item \notin Range(ran'[loc'[h].s])
    BY DEF NotYetListed
  <2>1. h # g /\ pc[h] = "append" /\ loc'[h] = loc[h]
    BY DEF Elsewhere
  <2>2. /\ \A j \in Nat : ~At(loc[h].s, j, loc[h].item)
        /\ loc[h].item \notin Range(ran[loc[h].s])
        /\ loc[h].s \in Scopes /\ loc[h].item \in Items
    BY <2>1 DEF OnceInv, NotYetListed, CallInv, CallAt, ScopeTypes
  <2>3. ASSUME NEW t \in Scopes, NEW y \in Items, t = loc'[h].s, y = loc'[h].item, NEW j \in Nat,
               ~At(t, j, y)
        PROVE  ~At(loc[h].s, j, loc[h].item)'
    BY <2>3, <1>0
  <2> QED
    BY <2>1, <2>2, <2>3
<1>3. LeftBehind'
  <2>1. ASSUME NEW h \in Goroutines, pc'[h] = "cleanup", NEW x \in Range(ran'[loc'[h].s]) \cap Functions,
               NEW j \in Nat, At(loc[h].s, j, x)'
        PROVE  j > loc'[h].i
    <3>1. pc[h] \in {"exit", "cleanup"} /\ loc'[h].s = loc[h].s /\ loc[h].s \in Scopes
          /\ (pc[h] = "cleanup" => loc'[h].i = loc[h].i)
      BY <2>1 DEF Elsewhere, CallInv, CallAt, ScopeTypes
    <3>2. pc[h] = "cleanup"
      BY <2>1, <3>1, RangeEmpty DEF OnceInv, LeftBehind
    <3>3. x \in Items
      BY <2>1, <3>1 DEF ScopeTypes, Range
    <3>4. At(loc[h].s, j, x)
      BY <2>1, <3>1, <3>3, <1>0
    <3> QED
      BY <2>1, <3>1, <3>2, <3>4 DEF OnceInv, LeftBehind
  <2>2. \A h \in Goroutines : pc'[h] = "exit" => ran'[loc'[h].s] = <<>>
    BY DEF Elsewhere, OnceInv, LeftBehind
  <2>3. \A s \in Scopes : s \in active' \/ s \notin entered' => ran'[s] = <<>>
    BY DEF OnceInv, LeftBehind
  <2> QED
    BY <2>1, <2>2, <2>3 DEF LeftBehind
<1>4. RanOnce'
  BY DEF OnceInv, RanOnce
<1>5. Belongs'
  <2>1. \A s \in Scopes : \A f \in Functions : \A j \in Nat : At(s, j, f)' => f \in Range(registered'[s])
    BY <1>0 DEF OnceInv, Belongs, Items
  <2>2. \A h \in Goroutines : loc'[h].item \in Functions =>
          /\ \A s \in Scopes : loc'[h].item \notin Range(registered'[s])
          /\ \A k \in Goroutines : loc'[k].item = loc'[h].item => k = h
    BY DEF Elsewhere, OnceInv, Belongs, Items
  <2> QED
    BY <2>1, <2>2 DEF OnceInv, Belongs
<1> QED
  BY <1>1, <1>2, <1>3, <1>4, <1>5 DEF OnceInv

(***************************************************************************)
(* OnExit reads s.cleanups, with a cleanup that the scope does not have.   *)
(***************************************************************************)
LEMMA AtBegin ==
  ASSUME ScopeTypes, NEW g \in Goroutines, NEW s \in Scopes, NEW x \in Items,
         BeginOnExit(g, s, x), cleanups' = cleanups, pc[g] # "append"
  PROVE  \A t \in Scopes, j \in Nat, y \in Items : At(t, j, y)' <=> At(t, j, y)
<1>0. /\ pc'[g] = "append" /\ loc'[g].s = s /\ loc'[g].seen = cleanups[s]
      /\ \A h \in Goroutines : h # g => pc'[h] = pc[h] /\ loc'[h] = loc[h]
  BY BeginOnExitEffect DEF Elsewhere
<1>1. ASSUME NEW t \in Scopes, NEW j \in Nat, NEW y \in Items, At(t, j, y)'
      PROVE  At(t, j, y)
  BY <1>0, <1>1 DEF At
<1>2. ASSUME NEW t \in Scopes, NEW j \in Nat, NEW y \in Items, At(t, j, y)
      PROVE  At(t, j, y)'
  BY <1>0, <1>2 DEF At
<1> QED
  BY <1>1, <1>2

LEMMA OnceBegin ==
  ASSUME OnceInv, ScopeTypes, CallInv,
         NEW g \in Goroutines, NEW s \in Scopes, NEW x \in Items,
         BeginOnExit(g, s, x), pc[g] # "append",
         x \in Functions => /\ \A j \in Nat : ~At(s, j, x)
                            /\ x \notin Range(ran[s])
                            /\ \A t \in Scopes : x \notin Range(registered[t])
                            /\ \A h \in Goroutines : loc[h].item # x,
         UNCHANGED <<entered, active, cleanups, ran, registered>>
  PROVE  OnceInv'
<1>a. \A t \in Scopes, j \in Nat, y \in Items : At(t, j, y)' => At(t, j, y)
  BY AtBegin
<1>0. /\ pc'[g] = "append" /\ loc'[g].s = s /\ loc'[g].item = x
      /\ \A h \in Goroutines : h # g => pc'[h] = pc[h] /\ loc'[h] = loc[h]
  BY BeginOnExitEffect DEF Elsewhere
<1>1. Positions'
  <2>1. \A t \in Scopes : \A y \in Functions : \A j, k \in Nat : At(t, j, y)' /\ At(t, k, y)' => j = k
    BY <1>a DEF OnceInv, Positions, Items
  <2> QED
    BY <2>1 DEF Positions
<1>2. NotYetListed'
  <2> SUFFICES ASSUME NEW h \in Goroutines, pc'[h] = "append", loc'[h].item \in Functions
               PROVE  /\ \A j \in Nat : ~At(loc[h].s, j, loc[h].item)'
                      /\ loc'[h].item \notin Range(ran'[loc'[h].s])
    BY DEF NotYetListed
  <2>1. /\ \A j \in Nat : ~At(loc'[h].s, j, loc'[h].item)
        /\ loc'[h].item \notin Range(ran[loc'[h].s])
        /\ loc'[h].s \in Scopes /\ loc'[h].item \in Items
    BY <1>0 DEF OnceInv, NotYetListed, CallInv, CallAt, ScopeTypes
  <2>3. ASSUME NEW t \in Scopes, NEW y \in Items, t = loc'[h].s, y = loc'[h].item, NEW j \in Nat,
               ~At(t, j, y)
        PROVE  ~At(loc[h].s, j, loc[h].item)'
    BY <2>3, <1>a
  <2> QED
    BY <2>1, <2>3
<1>3. LeftBehind'
  <2>1. ASSUME NEW h \in Goroutines, pc'[h] = "cleanup", NEW y \in Range(ran'[loc'[h].s]) \cap Functions,
               NEW j \in Nat, At(loc[h].s, j, y)'
        PROVE  j > loc'[h].i
    <3>1. pc[h] = "cleanup" /\ loc'[h] = loc[h] /\ loc[h].s \in Scopes
      BY <2>1, <1>0 DEF CallInv, CallAt, ScopeTypes
    <3>3. y \in Items
      BY <2>1, <3>1 DEF ScopeTypes, Range
    <3>4. At(loc[h].s, j, y)
      BY <2>1, <3>1, <3>3, <1>a
    <3> QED
      BY <2>1, <3>1, <3>4 DEF OnceInv, LeftBehind
  <2>2. \A h \in Goroutines : pc'[h] = "exit" => ran'[loc'[h].s] = <<>>
    BY <1>0 DEF OnceInv, LeftBehind
  <2>3. \A t \in Scopes : t \in active' \/ t \notin entered' => ran'[t] = <<>>
    BY DEF OnceInv, LeftBehind
  <2> QED
    BY <2>1, <2>2, <2>3 DEF LeftBehind
<1>4. RanOnce'
  BY DEF OnceInv, RanOnce
<1>5. Belongs'
  <2>1. \A t \in Scopes : \A f \in Functions : \A j \in Nat : At(t, j, f)' => f \in Range(registered'[t])
    BY <1>a DEF OnceInv, Belongs, Items
  <2>2. \A h \in Goroutines : loc'[h].item \in Functions =>
          /\ \A t \in Scopes : loc'[h].item \notin Range(registered'[t])
          /\ \A k \in Goroutines : loc'[k].item = loc'[h].item => k = h
    BY <1>0 DEF OnceInv, Belongs
  <2> QED
    BY <2>1, <2>2 DEF OnceInv, Belongs
<1> QED
  BY <1>1, <1>2, <1>3, <1>4, <1>5 DEF OnceInv

(***************************************************************************)
(* OnExit writes s.cleanups: the cleanup gets its place.                   *)
(***************************************************************************)
LEMMA AtAppended ==
  ASSUME ScopeTypes, CallInv, NEW g \in Goroutines, Appended(g)
  PROVE  LET s == loc[g].s
             x == loc[g].item
         IN \A t \in Scopes, j \in Nat, y \in Items :
              At(t, j, y)' => At(t, j, y) \/ (t = s /\ y = x /\ j = Len(loc[g].seen) + 1)
<1> DEFINE s == loc[g].s
           x == loc[g].item
<1>0. s \in Scopes /\ loc[g].seen \in Seq(Items) /\ pc[g] = "append"
  BY LocFields DEF CallInv, CallAt, ScopeTypes, Appended
<1>1. /\ pc'[g] # "append" /\ cleanups'[s] = Append(loc[g].seen, x)
      /\ \A t \in Scopes : t # s => cleanups'[t] = cleanups[t]
      /\ \A h \in Goroutines : h # g => pc'[h] = pc[h] /\ loc'[h] = loc[h]
  BY <1>0, AppendedEffect DEF Elsewhere
<1> SUFFICES ASSUME NEW t \in Scopes, NEW j \in Nat, NEW y \in Items, At(t, j, y)', ~At(t, j, y)
             PROVE  t = s /\ y = x /\ j = Len(loc[g].seen) + 1
  OBVIOUS
<1>2. ListedIn(cleanups'[t], j, y)
  BY <1>1 DEF At
<1>3. t = s
  BY <1>1, <1>2 DEF At
<1>4. ListedIn(Append(loc[g].seen, x), j, y) /\ ~ListedIn(loc[g].seen, j, y)
  BY <1>0, <1>1, <1>2, <1>3 DEF At
<1> QED
  BY <1>0, <1>3, <1>4 DEF ListedIn

LEMMA OnceAppended ==
  ASSUME OnceInv, ScopeTypes, CallInv, NEW g \in Goroutines, Appended(g)
  PROVE  OnceInv'
<1> DEFINE s == loc[g].s
           x == loc[g].item
           n == Len(loc[g].seen) + 1
<1>0. s \in Scopes /\ x \in Items /\ pc[g] = "append"
  BY DEF CallInv, CallAt, ScopeTypes, Appended
<1>1. /\ pc'[g] \in {"idle", "return"} /\ registered'[s] = Append(registered[s], x)
      /\ loc'[g].item \notin Functions
      /\ \A t \in Scopes : t # s => registered'[t] = registered[t]
      /\ \A h \in Goroutines : h # g => pc'[h] = pc[h] /\ loc'[h] = loc[h]
      /\ UNCHANGED <<entered, active, ran>>
  <2>1. /\ pc'[g] \in {"idle", "return"} /\ registered'[s] = Append(registered[s], x) /\ Elsewhere(g)
        /\ loc'[g] = Idle \/ (x \in Objects /\ loc'[g] = loc[g])
        /\ \A t \in Scopes : t # s => registered'[t] = registered[t]
        /\ UNCHANGED <<entered, active, ran>>
    BY <1>0, AppendedEffect
  <2>2. loc'[g].item \notin Functions
    BY <2>1, IdleFields, ScopeAssumption DEF Items
  <2> QED
    BY <2>1, <2>2 DEF Elsewhere
<1>2. \A t \in Scopes, j \in Nat, y \in Items : At(t, j, y)' => At(t, j, y) \/ (t = s /\ y = x /\ j = n)
  BY AtAppended
<1>3. x \in Functions => (\A j \in Nat : ~At(s, j, x)) /\ x \notin Range(ran[s])
  BY <1>0 DEF OnceInv, NotYetListed
<1>4. x \in Functions => \A h \in Goroutines : loc[h].item = x => h = g
  BY <1>0 DEF OnceInv, Belongs
<1>5. Range(registered'[s]) = Range(registered[s]) \cup {x}
  BY <1>0, <1>1, RangeAppend DEF ScopeTypes
<1>6. NoOne \notin Functions
  BY ScopeAssumption
<1> HIDE DEF s, x, n
<1>7. Positions'
  <2>1. \A t \in Scopes : \A y \in Functions : \A j, k \in Nat : At(t, j, y)' /\ At(t, k, y)' => j = k
    BY <1>2, <1>3 DEF OnceInv, Positions, Items
  <2> QED
    BY <2>1 DEF Positions
<1>8. NotYetListed'
  <2> SUFFICES ASSUME NEW h \in Goroutines, pc'[h] = "append", loc'[h].item \in Functions
               PROVE  /\ \A j \in Nat : ~At(loc[h].s, j, loc[h].item)'
                      /\ loc'[h].item \notin Range(ran'[loc'[h].s])
    BY DEF NotYetListed
  <2>1. /\ \A j \in Nat : ~At(loc'[h].s, j, loc'[h].item)
        /\ loc'[h].item \notin Range(ran[loc'[h].s])
        /\ loc'[h].s \in Scopes /\ loc'[h].item \in Items /\ loc'[h].item # x
    BY <1>1, <1>4 DEF OnceInv, NotYetListed, CallInv, CallAt, ScopeTypes
  <2>3. ASSUME NEW t \in Scopes, NEW y \in Items, t = loc'[h].s, y = loc'[h].item, NEW j \in Nat,
               ~At(t, j, y), y # x
        PROVE  ~At(loc[h].s, j, loc[h].item)'
    BY <2>3, <1>2
  <2> QED
    BY <2>1, <2>3, <1>1
<1>9. LeftBehind'
  <2>1. ASSUME NEW h \in Goroutines, pc'[h] = "cleanup", NEW y \in Range(ran'[loc'[h].s]) \cap Functions,
               NEW j \in Nat, At(loc[h].s, j, y)'
        PROVE  j > loc'[h].i
    <3>1. pc[h] = "cleanup" /\ loc'[h] = loc[h] /\ loc[h].s \in Scopes
      BY <2>1, <1>1 DEF CallInv, CallAt, ScopeTypes
    <3>3. y \in Items /\ y \in Range(ran[loc[h].s])
      BY <2>1, <1>1, <3>1 DEF ScopeTypes, Range
    <3>4. At(loc[h].s, j, y)
      BY <2>1, <3>1, <3>3, <1>2, <1>3
    <3> QED
      BY <2>1, <3>1, <3>3, <3>4 DEF OnceInv, LeftBehind
  <2>2. \A h \in Goroutines : pc'[h] = "exit" => ran'[loc'[h].s] = <<>>
    BY <1>1 DEF OnceInv, LeftBehind
  <2>3. \A t \in Scopes : t \in active' \/ t \notin entered' => ran'[t] = <<>>
    BY <1>1 DEF OnceInv, LeftBehind
  <2> QED
    BY <2>1, <2>2, <2>3 DEF LeftBehind
<1>10. RanOnce'
  BY <1>1 DEF OnceInv, RanOnce
<1>11. Belongs'
  <2>a. \A t \in Scopes : \A f \in Functions :
          f \in Range(registered'[t]) <=> f \in Range(registered[t]) \/ (t = s /\ f = x)
    BY <1>0, <1>1, <1>5
  <2>b. /\ \A t \in Scopes : \A f \in Functions : \A j \in Nat : At(t, j, f) => f \in Range(registered[t])
        /\ \A t, u \in Scopes : \A f \in Functions :
             f \in Range(registered[t]) /\ f \in Range(registered[u]) => t = u
        /\ \A h \in Goroutines : loc[h].item \in Functions =>
             /\ \A t \in Scopes : loc[h].item \notin Range(registered[t])
             /\ \A k \in Goroutines : loc[k].item = loc[h].item => k = h
    BY DEF OnceInv, Belongs
  <2>1. \A t \in Scopes : \A f \in Functions : \A j \in Nat : At(t, j, f)' => f \in Range(registered'[t])
    BY <1>2, <2>a, <2>b DEF Items
  <2>2. \A t \in Scopes : \A f \in Functions : f \in Range(ran'[t]) => f \in Range(registered'[t])
    BY <1>1, <1>5 DEF OnceInv, Belongs
  <2>3. x \in Functions => \A t \in Scopes : x \notin Range(registered[t])
    BY DEF OnceInv, Belongs, x
  <2>4. \A t, u \in Scopes : \A f \in Functions :
          f \in Range(registered'[t]) /\ f \in Range(registered'[u]) => t = u
    BY <2>a, <2>b, <2>3
  <2>5. \A h \in Goroutines : loc'[h].item \in Functions =>
          /\ \A t \in Scopes : loc'[h].item \notin Range(registered'[t])
          /\ \A k \in Goroutines : loc'[k].item = loc'[h].item => k = h
    BY <1>1, <1>4, <1>6, <2>a, <2>b
  <2> QED
    BY <2>1, <2>2, <2>4, <2>5 DEF Belongs
<1> QED
  BY <1>7, <1>8, <1>9, <1>10, <1>11 DEF OnceInv

(***************************************************************************)
(* The loop of Exit runs the cleanup it is at.                             *)
(***************************************************************************)
LEMMA AtRun ==
  ASSUME ScopeTypes, CallInv, NEW g \in Goroutines, RunCleanup(g)
  PROVE  /\ \A t \in Scopes, j \in Nat, y \in Items : At(t, j, y)' => At(t, j, y)
         /\ At(loc[g].s, loc[g].i, NextCleanup(g))
<1>0. loc[g].s \in Scopes /\ pc[g] = "cleanup"
  BY DEF CallInv, CallAt, ScopeTypes, RunCleanup
<1>1. pc' = pc /\ cleanups' = cleanups /\ Elsewhere(g)
  BY <1>0, RunCleanupEffect
<1>2. \A t \in Scopes, j \in Nat, y \in Items : At(t, j, y)' => At(t, j, y)
  BY <1>0, <1>1, AtShrinks
<1>3. ListedIn(cleanups[loc[g].s], loc[g].i, NextCleanup(g))
  BY DEF RunCleanup, ListedIn, NextCleanup
<1> QED
  BY <1>2, <1>3 DEF At

LEMMA OnceRun ==
  ASSUME OnceInv, ScopeTypes, CallInv, NEW g \in Goroutines, RunCleanup(g)
  PROVE  OnceInv'
<1> DEFINE s == loc[g].s
           x == NextCleanup(g)
           i == loc[g].i
<1>0. s \in Scopes /\ pc[g] = "cleanup" /\ s \in entered /\ s \notin active
  BY DEF CallInv, CallAt, ScopeTypes, RunCleanup, Exiting
<1>1. /\ pc' = pc /\ x \in Items /\ ran' = [ran EXCEPT ![s] = Append(@, x)] /\ i \in Nat
      /\ loc'[g].s = s /\ loc'[g].item = loc[g].item /\ loc'[g].i = i - 1
      /\ \A h \in Goroutines : h # g => pc'[h] = pc[h] /\ loc'[h] = loc[h]
      /\ UNCHANGED <<entered, active, registered>>
  BY <1>0, RunCleanupEffect, LocFields DEF Elsewhere
<1>2. /\ \A t \in Scopes, j \in Nat, y \in Items : At(t, j, y)' => At(t, j, y)
      /\ At(s, i, x)
  BY AtRun
<1>3. x \in Functions => x \notin Range(ran[s])
  <2> HAVE x \in Functions
  <2>1. \A y \in Range(ran[s]) \cap Functions : \A j \in Nat : At(s, j, y) => j > i
    BY <1>0 DEF OnceInv, LeftBehind
  <2> HIDE DEF i, s, x
  <2>2. ~(i > i)
    BY <1>1
  <2> QED
    BY <2>1, <2>2, <1>1, <1>2
<1>4. \A h \in Goroutines : pc[h] \in {"exit", "cleanup"} /\ loc[h].s = s => h = g
  BY <1>0 DEF CallInv, Exiting
<1>5. loc[g].item \notin Items
  BY <1>0 DEF CallInv, CallAt
<1> HIDE DEF s, x, i
<1>6. /\ ran[s] \in Seq(Items) /\ ran'[s] = Append(ran[s], x) /\ Range(ran'[s]) = Range(ran[s]) \cup {x}
      /\ \A t \in Scopes : t # s => ran'[t] = ran[t]
  BY <1>0, <1>1, RangeAppend DEF ScopeTypes
<1>a. \A t \in Scopes : \A y : y \in Range(ran'[t]) <=> y \in Range(ran[t]) \/ (t = s /\ y = x)
  BY <1>6
<1>7. Positions'
  <2>1. \A t \in Scopes : \A y \in Functions : \A j, k \in Nat : At(t, j, y)' /\ At(t, k, y)' => j = k
    BY <1>2 DEF OnceInv, Positions, Items
  <2> QED
    BY <2>1 DEF Positions
<1>8. NotYetListed'
  <2> SUFFICES ASSUME NEW h \in Goroutines, pc'[h] = "append", loc'[h].item \in Functions
               PROVE  /\ \A j \in Nat : ~At(loc[h].s, j, loc[h].item)'
                      /\ loc'[h].item \notin Range(ran'[loc'[h].s])
    BY DEF NotYetListed
  <2>0. h # g /\ loc'[h] = loc[h] /\ pc[h] = "append"
    BY <1>0, <1>1
  <2>1. /\ \A j \in Nat : ~At(loc'[h].s, j, loc'[h].item)
        /\ loc'[h].item \notin Range(ran[loc'[h].s])
        /\ loc'[h].s \in Scopes /\ loc'[h].item \in Items
    BY <2>0 DEF OnceInv, NotYetListed, CallInv, CallAt, ScopeTypes
  <2>2. ~(loc'[h].s = s /\ loc'[h].item = x)
    BY <1>1, <1>2, <2>1
  <2>3. ASSUME NEW t \in Scopes, NEW y \in Items, t = loc'[h].s, y = loc'[h].item, NEW j \in Nat,
               ~At(t, j, y)
        PROVE  ~At(loc[h].s, j, loc[h].item)'
    BY <2>3, <1>2
  <2> QED
    BY <2>1, <2>2, <2>3, <1>a
<1>9. LeftBehind'
  <2>1. ASSUME NEW h \in Goroutines, pc'[h] = "cleanup", NEW y \in Range(ran'[loc'[h].s]) \cap Functions,
               NEW j \in Nat, At(loc[h].s, j, y)'
        PROVE  j > loc'[h].i
    <3>1. pc[h] = "cleanup" /\ loc'[h].s = loc[h].s /\ loc[h].s \in Scopes /\ loc[h].i \in Nat
      BY <2>1, <1>0, <1>1, LocFields DEF CallInv, CallAt, ScopeTypes, s
    <3>2. loc'[h].i <= loc[h].i /\ (h = g => loc'[h].i < loc[h].i) /\ (h = g <=> loc[h].s = s)
      BY <1>0, <1>1, <1>4, <3>1 DEF s, i
    <3>3. y \in Range(ran[loc[h].s]) \/ (h = g /\ y = x)
      BY <2>1, <3>1, <3>2, <1>a
    <3>4. y \in Items
      BY <3>3, <3>1, <1>1 DEF ScopeTypes, Range
    <3>5. At(loc[h].s, j, y)
      BY <2>1, <3>1, <3>4, <1>2
    <3>6. CASE y \in Range(ran[loc[h].s])
      <4>1. j > loc[h].i
        BY <3>1, <3>5, <3>6 DEF OnceInv, LeftBehind
      <4>2. loc'[h].i \in Int
        BY <1>1, <3>1
      <4> QED
        BY <4>1, <4>2, <3>1, <3>2
    <3>7. CASE h = g /\ y = x
      <4>1. j = i
        BY <2>1, <3>5, <3>7, <1>0, <1>1, <1>2 DEF OnceInv, Positions, s
      <4> QED
        BY <4>1, <1>1, <3>7
    <3> QED
      BY <3>3, <3>6, <3>7
  <2>2. \A h \in Goroutines : pc'[h] = "exit" => ran'[loc'[h].s] = <<>>
    <3> SUFFICES ASSUME NEW h \in Goroutines, pc'[h] = "exit"
                 PROVE  ran'[loc'[h].s] = <<>>
      OBVIOUS
    <3>1. h # g /\ pc[h] = "exit" /\ loc'[h] = loc[h] /\ loc[h].s \in Scopes /\ loc[h].s # s
      BY <1>0, <1>1, <1>4 DEF CallInv, CallAt, ScopeTypes
    <3> QED
      BY <3>1, <1>6 DEF OnceInv, LeftBehind
  <2>3. \A t \in Scopes : t \in active' \/ t \notin entered' => ran'[t] = <<>>
    BY <1>0, <1>1, <1>6 DEF OnceInv, LeftBehind
  <2> QED
    BY <2>1, <2>2, <2>3 DEF LeftBehind
<1>10. RanOnce'
  <2> SUFFICES ASSUME NEW t \in Scopes, NEW j \in 1..Len(ran'[t]), NEW k \in 1..Len(ran'[t]),
                      ran'[t][j] = ran'[t][k], ran'[t][j] \in Functions
               PROVE  j = k
    BY DEF RanOnce
  <2>1. CASE t # s
    BY <2>1, <1>6 DEF OnceInv, RanOnce
  <2>2. CASE t = s
    <3>1. \A m \in 1..Len(ran[s]) : Append(ran[s], x)[m] = ran[s][m] /\ (x \in Functions => ran[s][m] # x)
      BY <1>6, <1>3 DEF Range
    <3>2. /\ Len(Append(ran[s], x)) = Len(ran[s]) + 1 /\ Append(ran[s], x)[Len(ran[s]) + 1] = x
          /\ Len(ran[s]) \in Nat
      BY <1>6
    <3>3. \A m, l \in 1..Len(ran[s]) : ran[s][m] = ran[s][l] /\ ran[s][m] \in Functions => m = l
      BY <1>0 DEF OnceInv, RanOnce
    <3> QED
      BY <2>2, <3>1, <3>2, <3>3, <1>6
  <2> QED
    BY <2>1, <2>2
<1>11. Belongs'
  <2>1. \A t \in Scopes : \A f \in Functions : \A j \in Nat : At(t, j, f)' => f \in Range(registered'[t])
    BY <1>1, <1>2 DEF OnceInv, Belongs, Items
  <2>2. x \in Functions => x \in Range(registered[s])
    BY <1>0, <1>1, <1>2 DEF OnceInv, Belongs
  <2>3. \A t \in Scopes : \A f \in Functions : f \in Range(ran'[t]) => f \in Range(registered'[t])
    BY <1>1, <1>a, <2>2 DEF OnceInv, Belongs
  <2>4. \A h \in Goroutines : loc'[h].item \in Functions =>
          /\ \A t \in Scopes : loc'[h].item \notin Range(registered'[t])
          /\ \A k \in Goroutines : loc'[k].item = loc'[h].item => k = h
    BY <1>1, <1>5 DEF OnceInv, Belongs, Items
  <2> QED
    BY <1>1, <2>1, <2>3, <2>4 DEF OnceInv, Belongs
<1> QED
  BY <1>7, <1>8, <1>9, <1>10, <1>11 DEF OnceInv

LEMMA OnceStep ==
  ASSUME ScopeTypes, BlockTypes, CallInv, OnceInv, [Next]_svars
  PROVE  OnceInv'
<1>0. \A g \in Goroutines : pc[g] # "append" => loc[g].item \notin Functions
  BY ScopeAssumption DEF CallInv, CallAt, Items
<1>a. \A g \in Goroutines : pc[g] # "idle" => loc[g].s \in Scopes
  BY DEF CallInv, CallAt, ScopeTypes
<1>e. Idle.item \notin Functions /\ NoOne \notin Functions
  BY IdleFields, ScopeAssumption
<1>b. \A s \in active : ran[s] = <<>>
  BY DEF OnceInv, LeftBehind, ScopeTypes
<1>1. ASSUME NEW g \in Goroutines, NEW s \in Scopes, EnterScope(g, s) PROVE OnceInv'
  BY <1>0, <1>1, EnterEffect, OnceQuiet DEF EnterScope, hist
<1>2. ASSUME NEW g \in Goroutines, NEW s \in Scopes, Starts(g, s) PROVE OnceInv'
  BY <1>2, StartsEffect, OnceQuiet, <1>e DEF hist
<1>3. ASSUME NEW g \in Goroutines, NEW s \in Scopes, Exit(g, s) PROVE OnceInv'
  BY <1>b, <1>3, ExitEffect, OnceQuiet, <1>e DEF hist
<1>4. ASSUME NEW g \in Goroutines, NEW s \in Scopes, NEW f \in Functions, OnExit(g, s, f)
      PROVE OnceInv'
  <2>1. /\ f \in Items /\ BeginOnExit(g, s, f) /\ pc[g] = "idle"
        /\ \A t \in Scopes : f \notin Range(registered[t])
        /\ \A h \in Goroutines : loc[h].item # f
        /\ UNCHANGED <<entered, active, cleanups, ran, registered>>
    BY <1>4 DEF OnExit, Items, hist
  <2>2. (\A j \in Nat : ~At(s, j, f)) /\ f \notin Range(ran[s])
    BY <2>1 DEF OnceInv, Belongs
  <2> QED
    BY <2>1, <2>2, OnceBegin
<1>5. ASSUME NEW g \in Goroutines, RegisterPooled(g) PROVE OnceInv'
  BY <1>5, RegisterCall, OnceBegin DEF hist
<1>12. ASSUME NEW g \in Goroutines, NEW o \in Objects, GetPooled(g, o) PROVE OnceInv'
  <2>1. loc[g].s \in Scopes /\ o \notin Functions
    BY <1>12, <1>a, ScopeAssumption DEF GetPooled
  <2> QED
    BY <1>12, <2>1, GetEffect, OnceQuiet DEF hist
<1>6. ASSUME NEW g \in Goroutines, ArenaAlloc(g) PROVE OnceInv'
  BY <1>0, <1>6, ArenaAllocEffect, OnceQuiet
<1>7. ASSUME NEW g \in Goroutines, Ends(g) PROVE OnceInv'
  BY <1>7, EndsEffect, OnceQuiet, <1>e DEF hist
<1>8. ASSUME NEW g \in Goroutines, TrackUsed(g) PROVE OnceInv'
  BY <1>0, <1>8, TrackUsedEffect, OnceQuiet DEF hist
<1>9. ASSUME NEW g \in Goroutines, RecordScopeExit(g) PROVE OnceInv'
  <2>1. loc[g].s \in Scopes
    BY <1>9, <1>a DEF RecordScopeExit
  <2> QED
    BY <1>0, <1>9, <2>1, RecordScopeExitEffect, OnceQuiet DEF hist
<1>10. ASSUME NEW g \in Goroutines, CleanupsDone(g) PROVE OnceInv'
  <2>1. \A s \in Scopes : cleanups'[s] = cleanups[s] \/ cleanups'[s] = <<>>
    BY <1>10, CleanupsDoneEffect DEF ScopeTypes
  <2> QED
    BY <1>0, <1>10, <2>1, CleanupsDoneEffect, OnceQuiet DEF hist
<1>11. CASE Outside
  <2>1. UNCHANGED <<entered, active, cleanups, pc, loc, ran, registered>>
    BY <1>11 DEF Outside, hist
  <2>2. Positions'
    BY <2>1 DEF OnceInv, Positions, At
  <2>3. NotYetListed'
    BY <2>1 DEF OnceInv, NotYetListed, At
  <2>4. LeftBehind' /\ RanOnce'
    BY <2>1 DEF OnceInv, LeftBehind, RanOnce, At
  <2>5. Belongs'
    BY <2>1 DEF OnceInv, Belongs, At
  <2> QED
    BY <2>2, <2>3, <2>4, <2>5 DEF OnceInv
<1> QED
  BY <1>1, <1>2, <1>3, <1>4, <1>5, <1>6, <1>7, <1>8, <1>9, <1>10, <1>11, <1>12, OnceAppended, OnceRun, NextCases

LEMMA NotEnteredStep ==
  ASSUME ScopeTypes, CallInv, NotEntered, [Next]_svars
  PROVE  NotEntered'
<1>a. \A g \in Goroutines : pc[g] # "idle" => loc[g].s \in Scopes /\ loc[g].s \in entered
  BY DEF CallInv, CallAt, ScopeTypes
<1>1. ASSUME entered \subseteq entered', UNCHANGED <<cleanups, registered>> PROVE NotEntered'
  BY <1>1 DEF NotEntered
<1>2. ASSUME NEW g \in Goroutines, Appended(g) PROVE NotEntered'
  <2>1. loc[g].s \in Scopes /\ loc[g].s \in entered
    BY <1>2, <1>a DEF Appended
  <2>2. /\ \A t \in Scopes : t # loc[g].s => cleanups'[t] = cleanups[t] /\ registered'[t] = registered[t]
        /\ entered' = entered
    BY <1>2, <2>1, AppendedEffect
  <2> QED
    BY <2>1, <2>2 DEF NotEntered
<1>3. ASSUME NEW g \in Goroutines, CleanupsDone(g) PROVE NotEntered'
  BY <1>3 DEF CleanupsDone, NotEntered, ScopeTypes, hist
<1>4. ASSUME NEW g \in Goroutines, NEW s \in Scopes,
             \/ EnterScope(g, s) \/ Starts(g, s) \/ Exit(g, s)
             \/ \E f \in Functions : OnExit(g, s, f)
      PROVE NotEntered'
  BY <1>1, <1>4 DEF EnterScope, Starts, TryAlloc, AllocPooled, Exit, OnExit, hist
<1>5. ASSUME NEW g \in Goroutines,
             \/ (\E o \in Objects : GetPooled(g, o)) \/ RegisterPooled(g)
             \/ ArenaAlloc(g) \/ Ends(g) \/ TrackUsed(g) \/ RecordScopeExit(g) \/ RunCleanup(g)
      PROVE NotEntered'
  BY <1>1, <1>5, EndsEffect DEF GetPooled, RegisterPooled, ArenaAlloc, TrackUsed, RecordScopeExit, RunCleanup, hist
<1>6. CASE Outside
  BY <1>1, <1>6 DEF Outside, hist
<1> QED
  BY <1>2, <1>3, <1>4, <1>5, <1>6, NextCases

----------------------------------------------------------------------------
(* A map or channel belongs to one scope *)

OwnedOnce == PoolOnly /\ FlyingOnly /\ ScopeOnly

LEMMA ToRunShrinks ==
  ASSUME ScopeTypes, NEW g \in Goroutines, Elsewhere(g), active' \subseteq active,
         pc'[g] \in {"exit", "cleanup"} =>
           \/ loc'[g].s \in active
           \/ /\ loc'[g].s = loc[g].s
              /\ \/ pc[g] = "exit"
                 \/ pc[g] = "cleanup" /\ pc'[g] = "cleanup" /\ loc'[g].i \in Nat /\ loc'[g].i <= loc[g].i
  PROVE  \A s \in Scopes, j \in Nat : ToRun(s, j)' => ToRun(s, j)
<1> SUFFICES ASSUME NEW s \in Scopes, NEW j \in Nat, ToRun(s, j)', s \notin active
             PROVE  ToRun(s, j)
  BY DEF ToRun
<1>1. PICK h \in Goroutines : /\ loc'[h].s = s
                              /\ pc'[h] = "exit" \/ (pc'[h] = "cleanup" /\ j <= loc'[h].i)
  BY DEF ToRun
<1>2. loc[h].i \in Nat
  BY LocFields
<1>3. CASE h # g
  BY <1>1, <1>3 DEF ToRun, Elsewhere
<1>4. CASE h = g /\ pc[g] = "exit"
  BY <1>1, <1>4 DEF ToRun
<1>5. CASE h = g /\ pc[g] = "cleanup" /\ pc'[g] = "cleanup"
  <2>1. j <= loc[h].i /\ loc[h].s = s
    BY <1>1, <1>2, <1>5
  <2> QED
    BY <1>5, <2>1 DEF ToRun
<1> QED
  BY <1>1, <1>3, <1>4, <1>5

LEMMA OwnShrinks ==
  ASSUME ScopeTypes, CallInv, OwnedOnce, NEW X \in SUBSET Objects,
         \A o \in X : /\ \A s \in Scopes : o \notin lent'[s] /\ ~Runnable(s, o)'
                      /\ \A h \in Goroutines : ~Carries(h, o)',
         pooled' \cup fresh' \subseteq pooled \cup fresh \cup X,
         \A s \in Scopes, o \in Objects : o \notin X => (o \in lent'[s] <=> o \in lent[s]),
         \A s \in Scopes, j \in Nat, o \in Objects :
           At(s, j, o)' /\ ToRun(s, j)' => At(s, j, o) /\ ToRun(s, j),
         \A h \in Goroutines, o \in Objects : Carries(h, o)' => Carries(h, o) /\ loc'[h].s = loc[h].s
  PROVE  OwnedOnce'
<1>0. pooled \subseteq Objects /\ fresh \subseteq Objects /\ X \subseteq Objects
  BY DEF ScopeTypes
<1>a. \A s \in Scopes, o \in Objects : Runnable(s, o)' => Runnable(s, o)
  BY DEF Runnable
<1>1. PoolOnly'
  <2> SUFFICES ASSUME NEW o \in pooled' \cup fresh'
               PROVE  /\ \A s \in Scopes : o \notin lent'[s]
                      /\ \A h \in Goroutines : ~Carries(h, o)'
    BY DEF PoolOnly
  <2>1. CASE o \in X
    BY <2>1
  <2>2. CASE o \notin X
    <3>1. o \in pooled \cup fresh /\ o \in Objects
      BY <2>2, <1>0
    <3> QED
      BY <2>2, <3>1 DEF OwnedOnce, PoolOnly
  <2> QED
    BY <2>1, <2>2
<1>2. FlyingOnly'
  <2> SUFFICES ASSUME NEW h \in Goroutines, NEW o \in Objects, Carries(h, o)'
               PROVE  /\ o \in lent'[loc'[h].s]
                      /\ \A s \in Scopes : ~Runnable(s, o)'
                      /\ \A g \in Goroutines : Carries(g, o)' => g = h
    BY DEF FlyingOnly
  <2>0. Carries(h, o) /\ loc'[h].s = loc[h].s /\ o \notin X
    OBVIOUS
  <2>1. loc[h].s \in Scopes
    BY <2>0 DEF Carries, CallInv, CallAt, ScopeTypes
  <2>2. /\ o \in lent[loc[h].s] /\ \A s \in Scopes : ~Runnable(s, o)
        /\ \A g \in Goroutines : Carries(g, o) => g = h
    BY <2>0 DEF OwnedOnce, FlyingOnly
  <2> QED
    BY <2>0, <2>1, <2>2, <1>a
<1>3. ScopeOnly'
  <2> SUFFICES ASSUME NEW o \in Objects, NEW s \in Scopes
               PROVE  /\ Runnable(s, o)' => o \in lent'[s]
                      /\ \A t \in Scopes : o \in lent'[s] /\ o \in lent'[t] => s = t
                      /\ \A j, k \in Nat :
                           At(s, j, o)' /\ ToRun(s, j)' /\ At(s, k, o)' /\ ToRun(s, k)' => j = k
    BY DEF ScopeOnly
  <2>1. /\ Runnable(s, o) => o \in lent[s]
        /\ \A t \in Scopes : o \in lent[s] /\ o \in lent[t] => s = t
        /\ \A j, k \in Nat : At(s, j, o) /\ ToRun(s, j) /\ At(s, k, o) /\ ToRun(s, k) => j = k
    BY DEF OwnedOnce, ScopeOnly
  <2> QED
    BY <2>1, <1>a
<1> QED
  BY <1>1, <1>2, <1>3 DEF OwnedOnce

(***************************************************************************)
(* The steps that leave maps and channels alone.                           *)
(***************************************************************************)
LEMMA OwnQuiet ==
  ASSUME ScopeTypes, CallInv, OwnedOnce, NEW g \in Goroutines, Elsewhere(g), active' \subseteq active,
         pc'[g] \notin {"register", "append"},
         \A s \in Scopes : cleanups'[s] = cleanups[s] \/ cleanups'[s] = <<>>,
         pc'[g] \in {"exit", "cleanup"} =>
           \/ loc'[g].s \in active
           \/ /\ loc'[g].s = loc[g].s
              /\ \/ pc[g] = "exit"
                 \/ pc[g] = "cleanup" /\ pc'[g] = "cleanup" /\ loc'[g].i \in Nat /\ loc'[g].i <= loc[g].i,
         UNCHANGED <<pooled, fresh, lent>>
  PROVE  OwnedOnce'
<1>1. \A s \in Scopes, j \in Nat : ToRun(s, j)' => ToRun(s, j)
  BY ToRunShrinks
<1>2. \A s \in Scopes, j \in Nat, x \in Items : At(s, j, x)' => At(s, j, x)
  BY AtShrinks
<1>3. \A s \in Scopes, j \in Nat, o \in Objects :
        At(s, j, o)' /\ ToRun(s, j)' => At(s, j, o) /\ ToRun(s, j)
  BY <1>1, <1>2 DEF Items
<1>4. \A h \in Goroutines, o \in Objects : Carries(h, o)' => Carries(h, o) /\ loc'[h].s = loc[h].s
  BY DEF Elsewhere, Carries
<1>5. {} \in SUBSET Objects /\ pooled' \cup fresh' \subseteq pooled \cup fresh \cup {}
  OBVIOUS
<1> QED
  BY <1>3, <1>4, <1>5, OwnShrinks

(***************************************************************************)
(* OnExit reads s.cleanups, for a function or for what AllocMap took.      *)
(***************************************************************************)
LEMMA OwnBegin ==
  ASSUME ScopeTypes, CallInv, OwnedOnce, NEW g \in Goroutines, NEW s \in Scopes, NEW x \in Items,
         BeginOnExit(g, s, x), pc[g] # "append",
         x \in Objects => pc[g] = "register" /\ loc[g].s = s /\ loc[g].item = x,
         UNCHANGED <<active, cleanups, pooled, fresh, lent>>
  PROVE  OwnedOnce'
<1>0. /\ pc'[g] = "append" /\ loc'[g].item = x /\ loc'[g].s = s /\ Elsewhere(g)
      /\ \A h \in Goroutines : h # g => pc'[h] = pc[h] /\ loc'[h] = loc[h]
  BY BeginOnExitEffect DEF Elsewhere
<1>1. \A t \in Scopes, j \in Nat, y \in Items : At(t, j, y)' => At(t, j, y)
  BY AtBegin
<1>2. \A t \in Scopes, j \in Nat : ToRun(t, j)' => ToRun(t, j)
  BY <1>0, ToRunShrinks
<1>3. \A t \in Scopes, j \in Nat, o \in Objects :
        At(t, j, o)' /\ ToRun(t, j)' => At(t, j, o) /\ ToRun(t, j)
  BY <1>1, <1>2 DEF Items
<1>4. \A h \in Goroutines, o \in Objects : Carries(h, o)' => Carries(h, o) /\ loc'[h].s = loc[h].s
  BY <1>0 DEF Carries
<1>5. {} \in SUBSET Objects /\ pooled' \cup fresh' \subseteq pooled \cup fresh \cup {}
  OBVIOUS
<1> QED
  BY <1>3, <1>4, <1>5, OwnShrinks

(***************************************************************************)
(* pool.Get takes an object that no scope has.                             *)
(***************************************************************************)
LEMMA OwnGet ==
  ASSUME ScopeTypes, CallInv, OwnedOnce, NEW g \in Goroutines, NEW o \in Objects, GetPooled(g, o)
  PROVE  OwnedOnce'
<1> SUFFICES ASSUME NEW s, s = loc[g].s PROVE OwnedOnce'
  OBVIOUS
<1>0. s \in Scopes /\ o \in Items
  BY DEF GetPooled, CallInv, CallAt, ScopeTypes, Items
<1>1. /\ pc[g] = "get" /\ pc'[g] = "register" /\ o \in pooled \cup fresh
      /\ loc'[g].s = s /\ loc'[g].item = o /\ Elsewhere(g)
      /\ pooled' = pooled \ {o} /\ fresh' = fresh \ {o}
      /\ lent'[s] = lent[s] \cup {o} /\ \A t \in Scopes : t # s => lent'[t] = lent[t]
      /\ \A h \in Goroutines : h # g => pc'[h] = pc[h] /\ loc'[h] = loc[h]
      /\ UNCHANGED <<active, cleanups>>
  BY <1>0, GetEffect DEF Elsewhere
<1>2. /\ \A t \in Scopes, j \in Nat : ToRun(t, j)' => ToRun(t, j)
      /\ \A t \in Scopes, j \in Nat, y \in Items : At(t, j, y)' => At(t, j, y)
  BY <1>1, ToRunShrinks, AtShrinks
<1>3. \A t \in Scopes, p \in Objects : Runnable(t, p)' => Runnable(t, p)
  BY <1>2 DEF Runnable, Items
<1>4. /\ \A p \in pooled \cup fresh : /\ \A t \in Scopes : p \notin lent[t]
                                      /\ \A h \in Goroutines : ~Carries(h, p)
      /\ pooled \cup fresh \subseteq Objects
  BY DEF OwnedOnce, PoolOnly, ScopeTypes
<1>5. \A h \in Goroutines : \A p : Carries(h, p)' <=> (h = g /\ p = o) \/ (h # g /\ Carries(h, p))
  BY <1>1 DEF Carries
<1>6. \A t \in Scopes : \A p : p \in lent'[t] <=> p \in lent[t] \/ (t = s /\ p = o)
  BY <1>1
<1>7. \A t \in Scopes : ~Runnable(t, o) /\ o \notin lent[t]
  BY <1>1, <1>4 DEF OwnedOnce, ScopeOnly
<1>8. PoolOnly'
  <2>1. \A p \in pooled' \cup fresh' : /\ \A t \in Scopes : p \notin lent'[t]
                                       /\ \A h \in Goroutines : ~Carries(h, p)'
    BY <1>1, <1>4, <1>5, <1>6
  <2> QED
    BY <2>1 DEF PoolOnly
<1>9. FlyingOnly'
  <2> SUFFICES ASSUME NEW h \in Goroutines, NEW p \in Objects, Carries(h, p)'
               PROVE  /\ p \in lent'[loc'[h].s]
                      /\ \A t \in Scopes : ~Runnable(t, p)'
                      /\ \A k \in Goroutines : Carries(k, p)' => k = h
    BY DEF FlyingOnly
  <2>1. CASE h = g
    BY <2>1, <1>0, <1>1, <1>3, <1>4, <1>5, <1>6, <1>7
  <2>2. CASE h # g
    <3>1. Carries(h, p) /\ p # o /\ loc'[h] = loc[h] /\ loc[h].s \in Scopes
      BY <2>2, <1>1, <1>4, <1>5 DEF Carries, CallInv, CallAt, ScopeTypes
    <3>2. /\ p \in lent[loc[h].s] /\ \A t \in Scopes : ~Runnable(t, p)
          /\ \A k \in Goroutines : Carries(k, p) => k = h
      BY <3>1 DEF OwnedOnce, FlyingOnly
    <3> QED
      BY <3>1, <3>2, <1>3, <1>5, <1>6
  <2> QED
    BY <2>1, <2>2
<1>10. ScopeOnly'
  <2> SUFFICES ASSUME NEW p \in Objects, NEW t \in Scopes
               PROVE  /\ Runnable(t, p)' => p \in lent'[t]
                      /\ \A u \in Scopes : p \in lent'[t] /\ p \in lent'[u] => t = u
                      /\ \A j, k \in Nat :
                           At(t, j, p)' /\ ToRun(t, j)' /\ At(t, k, p)' /\ ToRun(t, k)' => j = k
    BY DEF ScopeOnly
  <2>1. /\ Runnable(t, p) => p \in lent[t]
        /\ \A u \in Scopes : p \in lent[t] /\ p \in lent[u] => t = u
        /\ \A j, k \in Nat : At(t, j, p) /\ ToRun(t, j) /\ At(t, k, p) /\ ToRun(t, k) => j = k
    BY DEF OwnedOnce, ScopeOnly
  <2>2. \A u \in Scopes : p \in lent'[t] /\ p \in lent'[u] => t = u
    BY <2>1, <1>6, <1>7
  <2>3. \A j, k \in Nat :
          At(t, j, p)' /\ ToRun(t, j)' /\ At(t, k, p)' /\ ToRun(t, k)' => j = k
    BY <2>1, <1>2 DEF Items
  <2> QED
    BY <2>1, <2>2, <2>3, <1>3, <1>6
<1> QED
  BY <1>8, <1>9, <1>10 DEF OwnedOnce

(***************************************************************************)
(* The write of OnExit gives what AllocMap took its place in the cleanups. *)
(***************************************************************************)
LEMMA OwnAppended ==
  ASSUME ScopeTypes, CallInv, OwnedOnce, NEW g \in Goroutines, Appended(g)
  PROVE  OwnedOnce'
<1> SUFFICES ASSUME NEW s, NEW x, NEW n, s = loc[g].s, x = loc[g].item, n = Len(loc[g].seen) + 1
             PROVE OwnedOnce'
  OBVIOUS
<1>0. s \in Scopes /\ x \in Items /\ pc[g] = "append"
  BY DEF CallInv, CallAt, ScopeTypes, Appended
<1>1. /\ pc'[g] \in {"idle", "return"} /\ Elsewhere(g)
      /\ \A h \in Goroutines : h # g => pc'[h] = pc[h] /\ loc'[h] = loc[h]
      /\ UNCHANGED <<active, pooled, fresh, lent>>
  BY <1>0, AppendedEffect DEF Elsewhere, pools
<1>2. \A t \in Scopes, j \in Nat, y \in Items :
        At(t, j, y)' => At(t, j, y) \/ (t = s /\ y = x /\ j = n)
  BY AtAppended
<1>3. \A t \in Scopes, j \in Nat : ToRun(t, j)' => ToRun(t, j)
  BY <1>1, ToRunShrinks
<1>4. \A t \in Scopes, j \in Nat, o \in Objects :
        At(t, j, o)' /\ ToRun(t, j)' =>
          (At(t, j, o) /\ ToRun(t, j)) \/ (t = s /\ o = x /\ j = n)
  BY <1>2, <1>3 DEF Items
<1>5. \A t \in Scopes, o \in Objects : Runnable(t, o)' => Runnable(t, o) \/ (t = s /\ o = x)
  BY <1>4 DEF Runnable
<1>6. \A h \in Goroutines : \A o : Carries(h, o)' => h # g /\ Carries(h, o) /\ loc'[h] = loc[h]
  BY <1>1 DEF Carries
<1>7. x \in Objects => /\ x \in lent[s]
                       /\ \A t \in Scopes : ~Runnable(t, x)
                       /\ \A k \in Goroutines : Carries(k, x) => k = g
  <2>1. Carries(g, x)
    BY <1>0 DEF Carries
  <2> QED
    BY <2>1 DEF OwnedOnce, FlyingOnly
<1>8. PoolOnly'
  BY <1>1, <1>6 DEF OwnedOnce, PoolOnly
<1>9. FlyingOnly'
  <2> SUFFICES ASSUME NEW h \in Goroutines, NEW o \in Objects, Carries(h, o)'
               PROVE  /\ o \in lent'[loc'[h].s]
                      /\ \A t \in Scopes : ~Runnable(t, o)'
                      /\ \A k \in Goroutines : Carries(k, o)' => k = h
    BY DEF FlyingOnly
  <2>1. h # g /\ Carries(h, o) /\ loc'[h] = loc[h] /\ o # x
    BY <1>6, <1>7
  <2>2. /\ o \in lent[loc[h].s] /\ \A t \in Scopes : ~Runnable(t, o)
        /\ \A k \in Goroutines : Carries(k, o) => k = h
    BY <2>1 DEF OwnedOnce, FlyingOnly
  <2> QED
    BY <2>1, <2>2, <1>1, <1>5, <1>6
<1>10. ScopeOnly'
  <2> SUFFICES ASSUME NEW o \in Objects, NEW t \in Scopes
               PROVE  /\ Runnable(t, o)' => o \in lent'[t]
                      /\ \A u \in Scopes : o \in lent'[t] /\ o \in lent'[u] => t = u
                      /\ \A j, k \in Nat :
                           At(t, j, o)' /\ ToRun(t, j)' /\ At(t, k, o)' /\ ToRun(t, k)' => j = k
    BY DEF ScopeOnly
  <2>1. /\ Runnable(t, o) => o \in lent[t]
        /\ \A u \in Scopes : o \in lent[t] /\ o \in lent[u] => t = u
        /\ \A j, k \in Nat : At(t, j, o) /\ ToRun(t, j) /\ At(t, k, o) /\ ToRun(t, k) => j = k
    BY DEF OwnedOnce, ScopeOnly
  <2>2. Runnable(t, o)' => o \in lent'[t]
    BY <2>1, <1>1, <1>5, <1>7
  <2>3. ASSUME NEW j \in Nat, NEW k \in Nat,
               At(t, j, o)', ToRun(t, j)', At(t, k, o)', ToRun(t, k)'
        PROVE  j = k
    <3>1. CASE o # x
      BY <3>1, <2>1, <2>3, <1>4
    <3>2. CASE o = x
      <4>1. \A m \in Nat : ~(At(t, m, o) /\ ToRun(t, m))
        BY <3>2, <1>7 DEF Runnable
      <4> QED
        BY <4>1, <2>3, <1>4
    <3> QED
      BY <3>1, <3>2
  <2> QED
    BY <2>1, <2>2, <2>3, <1>1
<1> QED
  BY <1>8, <1>9, <1>10 DEF OwnedOnce

(***************************************************************************)
(* The loop of Exit gives an object back from its one place in the         *)
(* cleanups, and has then left that place behind.                          *)
(***************************************************************************)
LEMMA OwnRun ==
  ASSUME ScopeTypes, CallInv, OwnedOnce, NEW g \in Goroutines, RunCleanup(g)
  PROVE  OwnedOnce'
<1> SUFFICES ASSUME NEW s, NEW x, NEW i, s = loc[g].s, x = NextCleanup(g), i = loc[g].i
             PROVE  OwnedOnce'
  OBVIOUS
<1>0. s \in Scopes /\ pc[g] = "cleanup" /\ s \notin active
  BY DEF CallInv, CallAt, ScopeTypes, RunCleanup, Exiting
<1>1. /\ pc' = pc /\ x \in Items /\ lent' = [lent EXCEPT ![s] = @ \ {x}] /\ i \in Nat /\ Elsewhere(g)
      /\ loc'[g].s = s /\ loc'[g].item = loc[g].item /\ loc'[g].i = i - 1 /\ i \in 1..Len(cleanups[s])
      /\ \A h \in Goroutines : h # g => pc'[h] = pc[h] /\ loc'[h] = loc[h]
      /\ pooled' \subseteq pooled \cup {x} /\ (x \notin Objects => pooled' = pooled)
      /\ UNCHANGED <<active, fresh>>
  BY <1>0, RunCleanupEffect, LocFields DEF Elsewhere
<1>2. /\ \A t \in Scopes, j \in Nat, y \in Items : At(t, j, y)' => At(t, j, y)
      /\ At(s, i, x)
  BY AtRun
<1>3. i - 1 \in Nat /\ i - 1 <= i /\ ~(i <= i - 1)
  BY <1>0, <1>1 DEF ScopeTypes
<1>4. \A t \in Scopes, j \in Nat : ToRun(t, j)' => ToRun(t, j)
  BY <1>0, <1>1, <1>3, ToRunShrinks
<1>5. \A h \in Goroutines : pc[h] \in {"exit", "cleanup"} /\ loc[h].s = s => h = g
  BY <1>0 DEF CallInv, Exiting
<1>6. ToRun(s, i) /\ ~ToRun(s, i)'
  <2>1. ToRun(s, i)
    BY <1>0, <1>1, <1>3 DEF ToRun
  <2>2. ASSUME NEW h \in Goroutines, loc'[h].s = s, pc'[h] = "exit" \/ (pc'[h] = "cleanup" /\ i <= loc'[h].i)
        PROVE FALSE
    BY <2>2, <1>0, <1>1, <1>3, <1>5
  <2> QED
    BY <2>1, <2>2, <1>0, <1>1 DEF ToRun
<1>7. \A t \in Scopes, j \in Nat, o \in Objects :
        At(t, j, o)' /\ ToRun(t, j)' => At(t, j, o) /\ ToRun(t, j)
  BY <1>2, <1>4 DEF Items
<1>8. \A t \in Scopes : \A o : o \in lent'[t] <=> o \in lent[t] /\ ~(t = s /\ o = x)
  BY <1>0, <1>1 DEF ScopeTypes
<1>9. x \in Objects => /\ \A t \in Scopes : x \notin lent'[t] /\ ~Runnable(t, x)'
                       /\ \A h \in Goroutines : ~Carries(h, x)'
  <2> SUFFICES ASSUME x \in Objects
               PROVE  /\ \A t \in Scopes : x \notin lent'[t] /\ ~Runnable(t, x)'
                      /\ \A h \in Goroutines : ~Carries(h, x)'
    OBVIOUS
  <2>1. Runnable(s, x)
    BY <1>1, <1>2, <1>6 DEF Runnable
  <2>2. \A t \in Scopes : t # s => x \notin lent[t] /\ ~Runnable(t, x)
    BY <1>0, <2>1 DEF OwnedOnce, ScopeOnly
  <2>3. \A j \in Nat : At(s, j, x)' /\ ToRun(s, j)' => j = i
    BY <1>0, <1>1, <1>2, <1>6, <1>7 DEF OwnedOnce, ScopeOnly
  <2>4. ~Runnable(s, x)'
    BY <2>3, <1>6 DEF Runnable
  <2>5. \A h \in Goroutines : ~Carries(h, x)
    BY <1>0, <2>1 DEF OwnedOnce, FlyingOnly
  <2>6. \A t \in Scopes : t # s => ~Runnable(t, x)'
    BY <2>2, <1>7 DEF Runnable
  <2>7. \A h \in Goroutines : ~Carries(h, x)'
    BY <1>1, <2>5 DEF Carries
  <2> QED
    BY <2>2, <2>4, <2>6, <2>7, <1>8
<1>10. {x} \cap Objects \in SUBSET Objects
       /\ pooled' \cup fresh' \subseteq pooled \cup fresh \cup ({x} \cap Objects)
  BY <1>1
<1>11. \A o \in {x} \cap Objects : /\ \A t \in Scopes : o \notin lent'[t] /\ ~Runnable(t, o)'
                                   /\ \A h \in Goroutines : ~Carries(h, o)'
  BY <1>9
<1>12. \A h \in Goroutines, o \in Objects : Carries(h, o)' => Carries(h, o) /\ loc'[h].s = loc[h].s
  BY <1>1 DEF Carries
<1>13. \A t \in Scopes, o \in Objects : o \notin {x} \cap Objects => (o \in lent'[t] <=> o \in lent[t])
  BY <1>8
<1> QED
  BY <1>7, <1>10, <1>11, <1>12, <1>13, OwnShrinks

LEMMA OwnEnter ==
  ASSUME ScopeTypes, CallInv, NotEntered, OwnedOnce,
         NEW g \in Goroutines, NEW s \in Scopes, EnterScope(g, s)
  PROVE  OwnedOnce'
<1>0. /\ s \notin entered /\ active' = active \cup {s} /\ pc' = pc /\ loc' = loc /\ cleanups' = cleanups
      /\ UNCHANGED <<pooled, fresh, lent>>
  BY EnterEffect DEF pools
<1>1. \A j \in Nat, x \in Items : ~At(s, j, x)
  <2>1. cleanups[s] = <<>> /\ \A h \in Goroutines : pc[h] = "append" => loc[h].s # s
    BY <1>0 DEF NotEntered, CallInv, CallAt
  <2> QED
    BY <2>1 DEF At, ListedIn
<1>2. \A t \in Scopes, j \in Nat, x \in Items : At(t, j, x)' => At(t, j, x) /\ t # s
  BY <1>0, <1>1 DEF At
<1>3. \A t \in Scopes, j \in Nat : ToRun(t, j)' => ToRun(t, j) \/ t = s
  BY <1>0 DEF ToRun
<1>4. \A t \in Scopes, j \in Nat, o \in Objects :
        At(t, j, o)' /\ ToRun(t, j)' => At(t, j, o) /\ ToRun(t, j)
  BY <1>2, <1>3 DEF Items
<1>5. {} \in SUBSET Objects /\ pooled' \cup fresh' \subseteq pooled \cup fresh \cup {}
  BY <1>0
<1>6. \A h \in Goroutines, o \in Objects : Carries(h, o)' => Carries(h, o) /\ loc'[h].s = loc[h].s
  BY <1>0 DEF Carries
<1> QED
  BY <1>0, <1>4, <1>5, <1>6, OwnShrinks

LEMMA CleanStep ==
  ASSUME ScopeTypes, CallInv, OwnedOnce, HeldInv, PooledClean, [Next]_svars
  PROVE  PooledClean'
<1>1. ASSUME NEW s \in Scopes, NEW o \in Objects, Fill(s, o) \/ CloseChannel(s, o)
      PROVE  PooledClean'
  <2>1. /\ s \in active /\ o \in held[s] /\ pooled' = pooled
        /\ filled' \cup shut' = filled \cup shut \cup {o}
    BY <1>1 DEF Fill, CloseChannel
  <2>2. o \in lent[s]
    BY <2>1 DEF HeldInv, HeldAt
  <2>3. o \notin pooled
    BY <2>2 DEF OwnedOnce, PoolOnly
  <2> QED
    BY <2>1, <2>3 DEF PooledClean
<1>2. ASSUME NEW g \in Goroutines, RunCleanup(g) PROVE PooledClean'
  <2> SUFFICES ASSUME NEW x, x = NextCleanup(g) PROVE PooledClean'
    OBVIOUS
  <2>0. loc[g].s \in Scopes
    BY <1>2 DEF CallInv, CallAt, ScopeTypes, RunCleanup
  <2>1. /\ filled' \subseteq filled /\ pooled' \subseteq pooled \cup {x}
        /\ x \in Objects => x \notin filled' /\ (x \in pooled' => x \in pooled \/ x \notin shut)
        /\ x \notin Objects => pooled' = pooled
        /\ shut' = shut
    BY <1>2, <2>0, RunCleanupEffect
  <2> QED
    BY <2>1 DEF PooledClean
<1>3. ASSUME pooled' \subseteq pooled, UNCHANGED <<filled, shut>> PROVE PooledClean'
  BY <1>3 DEF PooledClean
<1>4. ASSUME NEW g \in Goroutines, Step(g), ~RunCleanup(g) PROVE PooledClean'
  <2>1. pooled' \subseteq pooled /\ UNCHANGED <<filled, shut>>
    BY <1>4 DEF Step, EnterScope, TryAlloc, Exit, OnExit, AllocPooled, GetPooled, RegisterPooled,
       ReturnPooled, ArenaAlloc, ArenaFull, TrackUsed, TrackBlock, Appended, RecordScopeExit,
       CleanupPanics, CleanupsDone, Poison, pools
  <2> QED
    BY <1>3, <2>1
<1>5. CASE UNCHANGED svars
  BY <1>3, <1>5 DEF svars, pools
<1> QED
  BY <1>1, <1>2, <1>4, <1>5 DEF Next

LEMMA OwnStep ==
  ASSUME ScopeTypes, BlockTypes, CallInv, NotEntered, OwnInv, HeldInv, [Next]_svars
  PROVE  OwnInv'
<1>0. OwnedOnce /\ PooledClean
  BY DEF OwnInv, OwnedOnce
<1>a. \A g \in Goroutines : pc[g] # "idle" => loc[g].s \in Scopes
  BY DEF CallInv, CallAt, ScopeTypes
<1>b. Functions \cap Objects = {}
  BY ScopeAssumption
<1>1. ASSUME NEW g \in Goroutines, NEW s \in Scopes, Starts(g, s) PROVE OwnedOnce'
  BY <1>0, <1>1, StartsEffect, OwnQuiet DEF pools
<1>2. ASSUME NEW g \in Goroutines, NEW s \in Scopes, Exit(g, s) PROVE OwnedOnce'
  <2>1. active' \subseteq active
    BY <1>2, ExitEffect
  <2> QED
    BY <1>0, <1>2, <2>1, ExitEffect, OwnQuiet DEF pools
<1>3. ASSUME NEW g \in Goroutines, NEW s \in Scopes, NEW f \in Functions, OnExit(g, s, f)
      PROVE OwnedOnce'
  <2>1. /\ BeginOnExit(g, s, f) /\ pc[g] = "idle" /\ f \in Items /\ f \notin Objects
        /\ UNCHANGED <<active, cleanups, lent, pooled, fresh>>
    BY <1>3, <1>b DEF OnExit, Items, pools
  <2> QED
    BY <1>0, <2>1, OwnBegin
<1>4. ASSUME NEW g \in Goroutines, RegisterPooled(g) PROVE OwnedOnce'
  BY <1>0, <1>4, RegisterCall, OwnBegin DEF pools
<1>5. ASSUME NEW g \in Goroutines, ArenaAlloc(g) PROVE OwnedOnce'
  BY <1>0, <1>5, ArenaAllocEffect, OwnQuiet DEF pools
<1>6. ASSUME NEW g \in Goroutines, Ends(g) PROVE OwnedOnce'
  BY <1>0, <1>6, EndsEffect, OwnQuiet
<1>7. ASSUME NEW g \in Goroutines, TrackUsed(g) PROVE OwnedOnce'
  BY <1>0, <1>7, TrackUsedEffect, OwnQuiet DEF pools
<1>8. ASSUME NEW g \in Goroutines, RecordScopeExit(g) PROVE OwnedOnce'
  <2>1. loc[g].s \in Scopes
    BY <1>8, <1>a DEF RecordScopeExit
  <2> QED
    BY <1>0, <1>8, <2>1, RecordScopeExitEffect, OwnQuiet DEF pools
<1>9. ASSUME NEW g \in Goroutines, CleanupsDone(g) PROVE OwnedOnce'
  <2>1. \A s \in Scopes : cleanups'[s] = cleanups[s] \/ cleanups'[s] = <<>>
    BY <1>9, CleanupsDoneEffect DEF ScopeTypes
  <2> QED
    BY <1>0, <1>9, <2>1, CleanupsDoneEffect, OwnQuiet DEF pools
<1>10. ASSUME Outside PROVE OwnedOnce'
  <2>1. UNCHANGED <<active, cleanups, pc, loc, pooled, fresh, lent>>
    BY <1>10 DEF Outside
  <2>2. \A s \in Scopes, j \in Nat, o \in Objects :
          At(s, j, o)' /\ ToRun(s, j)' => At(s, j, o) /\ ToRun(s, j)
    BY <2>1 DEF ToRun, At
  <2>3. \A h \in Goroutines, o \in Objects : Carries(h, o)' => Carries(h, o) /\ loc'[h].s = loc[h].s
    BY <2>1 DEF Carries
  <2>4. {} \in SUBSET Objects /\ pooled' \cup fresh' \subseteq pooled \cup fresh \cup {}
    BY <2>1
  <2> QED
    BY <1>0, <2>1, <2>2, <2>3, <2>4, OwnShrinks
<1>11. OwnedOnce'
  BY <1>0, <1>1, <1>2, <1>3, <1>4, <1>5, <1>6, <1>7, <1>8, <1>9, <1>10,
     OwnEnter, OwnGet, OwnAppended, OwnRun, NextCases
<1>12. PooledClean'
  BY <1>0, CleanStep
<1> QED
  BY <1>11, <1>12 DEF OwnInv, OwnedOnce

----------------------------------------------------------------------------
(* What clients got is not given back behind their backs *)

(***************************************************************************)
(* The steps that give nothing to clients and take nothing from them.      *)
(***************************************************************************)
LEMMA HeldKept ==
  ASSUME ScopeTypes, HeldInv, messy \subseteq messy', held' = held,
         entered \ active \subseteq entered' \ active',
         \A s \in Scopes : lent[s] \subseteq lent'[s],
         \A h \in Goroutines : pc'[h] = "return" => pc[h] = "return" /\ loc'[h] = loc[h]
  PROVE  HeldInv'
<1> SUFFICES ASSUME NEW s \in Scopes, s \notin messy' \cap (entered' \ active') PROVE HeldAt(s)'
  BY DEF HeldInv
<1>1. HeldAt(s) /\ lent[s] \subseteq lent'[s]
  BY DEF HeldInv
<1>2. held'[s] \subseteq lent'[s]
  BY <1>1 DEF HeldAt
<1>3. \A h \in Goroutines : loc'[h].s = s /\ pc'[h] = "return" => loc'[h].item \in lent'[s]
  BY <1>1 DEF HeldAt
<1> QED
  BY <1>2, <1>3 DEF HeldAt

LEMMA HeldStep ==
  ASSUME ScopeTypes, BlockTypes, CallInv, OwnInv, HeldInv, OrderlyInv, [Next]_svars
  PROVE  HeldInv'
<1>a. \A g \in Goroutines : pc[g] # "idle" => loc[g].s \in Scopes
  BY DEF CallInv, CallAt, ScopeTypes
<1>b. ASSUME NEW g \in Goroutines, Elsewhere(g), pc'[g] # "return", messy \subseteq messy',
             held' = held, UNCHANGED <<entered, active>>,
             lent' = lent \/ \A s \in Scopes : lent[s] \subseteq lent'[s]
      PROVE  HeldInv'
  BY <1>b, HeldKept DEF Elsewhere
<1>1. ASSUME NEW g \in Goroutines, NEW s \in Scopes, EnterScope(g, s) PROVE HeldInv'
  <2>1. /\ s \notin entered /\ entered' = entered \cup {s} /\ active' = active \cup {s}
        /\ pc' = pc /\ loc' = loc /\ UNCHANGED <<held, lent, messy>>
    BY <1>1, EnterEffect DEF pools
  <2> QED
    BY <2>1, HeldKept
<1>2. ASSUME NEW g \in Goroutines, NEW s \in Scopes, Starts(g, s) PROVE HeldInv'
  BY <1>b, <1>2, StartsEffect DEF pools
<1>3. ASSUME NEW g \in Goroutines, NEW s \in Scopes, Exit(g, s) PROVE HeldInv'
  <2>1. /\ pc'[g] = "exit" /\ Elsewhere(g) /\ messy \subseteq messy' /\ UNCHANGED <<entered, held, lent>>
        /\ entered \ active \subseteq entered' \ active'
    BY <1>3, ExitEffect DEF pools
  <2> QED
    BY <2>1, HeldKept DEF Elsewhere
<1>4. ASSUME NEW g \in Goroutines, NEW s \in Scopes, NEW x \in Items, BeginOnExit(g, s, x),
             UNCHANGED <<entered, active, pools>>
      PROVE HeldInv'
  BY <1>b, <1>4, BeginOnExitEffect DEF pools
<1>5. ASSUME NEW g \in Goroutines, NEW s \in Scopes, NEW f \in Functions, OnExit(g, s, f) PROVE HeldInv'
  BY <1>4, <1>5 DEF OnExit, Items
<1>6. ASSUME NEW g \in Goroutines, RegisterPooled(g) PROVE HeldInv'
  BY <1>4, <1>6, RegisterCall
<1>7. ASSUME NEW g \in Goroutines, NEW o \in Objects, GetPooled(g, o) PROVE HeldInv'
  <2>1. loc[g].s \in Scopes
    BY <1>a, <1>7 DEF GetPooled
  <2>2. \A s \in Scopes : lent[s] \subseteq lent'[s]
    BY <1>7, <2>1, GetEffect
  <2> QED
    BY <1>b, <1>7, <2>1, <2>2, GetEffect
<1>8. ASSUME NEW g \in Goroutines, ArenaAlloc(g) PROVE HeldInv'
  BY <1>b, <1>8, ArenaAllocEffect DEF pools
<1>9. ASSUME NEW g \in Goroutines, TrackUsed(g) PROVE HeldInv'
  BY <1>b, <1>9, TrackUsedEffect DEF pools
<1>10. ASSUME NEW g \in Goroutines, RecordScopeExit(g) PROVE HeldInv'
  <2>1. loc[g].s \in Scopes
    BY <1>a, <1>10 DEF RecordScopeExit
  <2> QED
    BY <1>b, <1>10, <2>1, RecordScopeExitEffect DEF pools
<1>11. ASSUME NEW g \in Goroutines, CleanupsDone(g) PROVE HeldInv'
  BY <1>b, <1>11, CleanupsDoneEffect DEF pools
<1>12. ASSUME NEW g \in Goroutines, Ends(g) PROVE HeldInv'
  <2>1. CASE held' = held
    BY <1>b, <1>12, <2>1, EndsEffect
  <2>2. CASE ReturnPooled(g)
    <3> SUFFICES ASSUME NEW s \in Scopes, s \notin messy' \cap (entered' \ active') PROVE HeldAt(s)'
      BY DEF HeldInv
    <3>1. /\ pc[g] = "return" /\ held' = [held EXCEPT ![loc[g].s] = @ \cup {loc[g].item}]
          /\ pc'[g] = "idle" /\ Elsewhere(g) /\ UNCHANGED <<entered, active, lent, messy>>
      BY <1>12, <2>2, EndsEffect DEF ReturnPooled
    <3>2. HeldAt(s)
      BY <3>1 DEF HeldInv
    <3>3. held'[s] \subseteq lent'[s]
      BY <3>1, <3>2 DEF HeldAt, ScopeTypes
    <3>4. \A h \in Goroutines : loc'[h].s = s /\ pc'[h] = "return" => loc'[h].item \in lent'[s]
      BY <3>1, <3>2 DEF HeldAt, Elsewhere
    <3> QED
      BY <3>3, <3>4 DEF HeldAt
  <2>3. held' = held \/ ReturnPooled(g)
    BY <1>12 DEF Ends, ArenaFull, TrackBlock, CleanupPanics, Poison, pools
  <2> QED
    BY <2>1, <2>2, <2>3
<1>13. ASSUME NEW g \in Goroutines, Appended(g) PROVE HeldInv'
  <2>0. pc[g] = "append" /\ loc[g].s \in Scopes
    BY <1>a, <1>13 DEF Appended
  <2>1. /\ Elsewhere(g) /\ UNCHANGED <<entered, active, lent, held, messy>>
        /\ \/ pc'[g] = "idle"
           \/ loc[g].item \in Objects /\ pc'[g] = "return" /\ loc'[g] = loc[g]
    BY <1>13, <2>0, AppendedEffect DEF pools
  <2>2. CASE pc'[g] = "idle"
    BY <1>b, <2>1, <2>2
  <2>3. CASE loc[g].item \in Objects /\ pc'[g] = "return" /\ loc'[g] = loc[g]
    <3> SUFFICES ASSUME NEW s \in Scopes, s \notin messy' \cap (entered' \ active') PROVE HeldAt(s)'
      BY DEF HeldInv
    <3>1. HeldAt(s)
      BY <2>1 DEF HeldInv
    <3>2. loc[g].item \in lent[loc[g].s]
      BY <2>0, <2>3 DEF OwnInv, FlyingOnly, Carries
    <3>3. \A h \in Goroutines : loc'[h].s = s /\ pc'[h] = "return" => loc'[h].item \in lent'[s]
      BY <2>1, <2>3, <3>1, <3>2 DEF HeldAt, Elsewhere
    <3>4. held'[s] \subseteq lent'[s]
      BY <2>1, <3>1 DEF HeldAt
    <3> QED
      BY <3>3, <3>4 DEF HeldAt
  <2> QED
    BY <2>1, <2>2, <2>3
<1>14. ASSUME NEW g \in Goroutines, RunCleanup(g) PROVE HeldInv'
  <2> SUFFICES ASSUME NEW s \in Scopes, s \notin messy' \cap (entered' \ active'), NEW r, r = loc[g].s,
                      NEW x, x = NextCleanup(g)
               PROVE HeldAt(s)'
    BY DEF HeldInv
  <2>0. r \in Scopes /\ r \in entered /\ r \notin active
    BY <1>14 DEF RunCleanup, CallInv, CallAt, ScopeTypes, Exiting
  <2>1. /\ lent' = [lent EXCEPT ![r] = @ \ {x}] /\ held' = [held EXCEPT ![r] = @ \ {x}]
        /\ pc' = pc /\ Elsewhere(g) /\ pc[g] = "cleanup" /\ UNCHANGED <<entered, active, messy>>
    BY <1>14, <2>0, RunCleanupEffect
  <2>2. HeldAt(s)
    BY <2>1 DEF HeldInv
  <2>3. held'[s] \subseteq lent'[s]
    BY <2>1, <2>2 DEF HeldAt, ScopeTypes
  <2>4. \A h \in Goroutines : pc'[h] = "return" => pc[h] = "return" /\ loc'[h] = loc[h]
    BY <2>1 DEF Elsewhere
  <2>5. CASE s = r
    <3>1. s \notin messy
      BY <2>0, <2>1, <2>5
    <3>2. \A h \in Goroutines : ~(loc[h].s = s /\ pc[h] = "return")
      BY <2>0, <2>5, <3>1 DEF OrderlyInv, OrderlyAt, OnScope, Calling
    <3> QED
      BY <2>3, <2>4, <3>2 DEF HeldAt
  <2>6. CASE s # r
    <3>1. lent'[s] = lent[s]
      BY <2>1, <2>6 DEF ScopeTypes
    <3> QED
      BY <2>2, <2>3, <2>4, <3>1 DEF HeldAt
  <2> QED
    BY <2>5, <2>6
<1>15. ASSUME Outside PROVE HeldInv'
  <2>1. UNCHANGED <<entered, active, lent, held, messy, pc, loc>>
    BY <1>15 DEF Outside
  <2> QED
    BY <2>1, HeldKept
<1> QED
  BY <1>1, <1>2, <1>3, <1>5, <1>6, <1>7, <1>8, <1>9, <1>10, <1>11, <1>12, <1>13, <1>14, <1>15, NextCases

----------------------------------------------------------------------------
(* Cleanups run in reverse *)

(***************************************************************************)
(* What another goroutine is at, on a scope whose lists stay as they are.  *)
(***************************************************************************)
LEMMA OrderlyElsewhere ==
  ASSUME NEW g \in Goroutines, Elsewhere(g), NEW t \in Scopes, OrderlyAt(t),
         loc[g].s # t, loc'[g].s # t, t \in active' <=> t \in active, t \in entered' <=> t \in entered,
         cleanups'[t] = cleanups[t], ran'[t] = ran[t], registered'[t] = registered[t]
  PROVE  OrderlyAt(t)'
<1>1. \A h \in Goroutines, L \in SUBSET Labels : OnScope(h, t, L)' <=> OnScope(h, t, L) /\ h # g
  BY DEF OnScope, Elsewhere
<1>2. \A h \in Goroutines, L \in SUBSET Labels : OnScope(h, t, L) => loc'[h] = loc[h] /\ h # g
  BY DEF OnScope, Elsewhere
<1>3. \A i : RanDown(t, i)' <=> RanDown(t, i)
  BY DEF RanDown
<1>4. {"exit"} \in SUBSET Labels /\ {"cleanup"} \in SUBSET Labels /\ {"append"} \in SUBSET Labels
      /\ Calling \in SUBSET Labels /\ {"exit", "cleanup"} \in SUBSET Labels
  BY DEF Labels, Allocating, Calling
<1>5. ASSUME NEW h \in Goroutines
      PROVE  /\ OnScope(h, t, {"exit"})' => cleanups'[t] = registered'[t]
             /\ OnScope(h, t, {"cleanup"})' => cleanups'[t] = registered'[t] /\ RanDown(t, loc[h].i)'
             /\ OnScope(h, t, {"append"})' =>
                  /\ t \in active' /\ loc'[h].seen = cleanups'[t]
                  /\ \A k \in Goroutines : OnScope(k, t, {"append"})' => k = h
             /\ OnScope(h, t, Calling)' => t \in active'
  <2>1. OnScope(h, t, {"exit"})' => cleanups'[t] = registered'[t]
    BY <1>1, <1>4 DEF OrderlyAt
  <2>2. ASSUME OnScope(h, t, {"cleanup"})' PROVE cleanups'[t] = registered'[t] /\ RanDown(t, loc[h].i)'
    <3>1. OnScope(h, t, {"cleanup"}) /\ loc'[h] = loc[h]
      BY <1>1, <1>2, <1>4, <2>2
    <3>2. cleanups[t] = registered[t] /\ RanDown(t, loc[h].i)
      BY <3>1 DEF OrderlyAt
    <3> QED
      BY <3>1, <3>2 DEF RanDown
  <2>3. OnScope(h, t, {"append"})' =>
          /\ t \in active' /\ loc'[h].seen = cleanups'[t]
          /\ \A k \in Goroutines : OnScope(k, t, {"append"})' => k = h
    BY <1>1, <1>2, <1>4 DEF OrderlyAt
  <2>4. OnScope(h, t, Calling)' => t \in active'
    BY <1>1, <1>4 DEF OrderlyAt
  <2> QED
    BY <2>1, <2>2, <2>3, <2>4
<1>6. t \in entered' \ active' /\ (\A h \in Goroutines : ~OnScope(h, t, {"exit", "cleanup"})') => RanDown(t, 0)'
  <2>1. (\A h \in Goroutines : ~OnScope(h, t, {"exit", "cleanup"})') =>
          \A h \in Goroutines : ~OnScope(h, t, {"exit", "cleanup"})
    BY <1>1, <1>2, <1>4
  <2> QED
    BY <1>3, <2>1 DEF OrderlyAt
<1>7. t \in active' => cleanups'[t] = registered'[t]
  BY DEF OrderlyAt
<1> QED
  BY <1>5, <1>6, <1>7 DEF OrderlyAt

(***************************************************************************)
(* On the scope of the call that g is in.                                  *)
(***************************************************************************)
LEMMA OrderlyEnter ==
  ASSUME ScopeTypes, CallInv, NotEntered, NEW g \in Goroutines, NEW s \in Scopes, EnterScope(g, s)
  PROVE  OrderlyAt(s)'
<1>1. /\ s \notin entered /\ s \in active' /\ pc' = pc /\ loc' = loc
      /\ cleanups' = cleanups /\ registered' = registered
  BY EnterEffect DEF hist
<1>2. cleanups[s] = registered[s]
  BY <1>1 DEF NotEntered
<1>3. \A h \in Goroutines : loc[h].s # s
  BY <1>1, IdleFields DEF CallInv, CallAt
<1>4. \A h \in Goroutines : loc'[h].s # s
  BY <1>1, <1>3
<1> QED
  BY <1>1, <1>2, <1>4 DEF OrderlyAt, OnScope

LEMMA OrderlyCall ==
  ASSUME ScopeTypes, NEW g \in Goroutines, Elsewhere(g), NEW s \in Scopes, OrderlyAt(s),
         s \in active,
         pc[g] # "append", pc'[g] \in Calling \cup {"idle"},
         UNCHANGED <<active, cleanups, registered>>,
         \A h \in Goroutines : pc[h] \in Exiting => loc[h].s # s
  PROVE  OrderlyAt(s)'
<1>1. cleanups'[s] = registered'[s] /\ s \in active'
  BY DEF OrderlyAt
<1>2. ASSUME NEW h \in Goroutines
      PROVE  /\ OnScope(h, s, {"cleanup"})' => FALSE
             /\ OnScope(h, s, {"append"})' =>
                  /\ s \in active' /\ loc'[h].seen = cleanups'[s]
                  /\ \A k \in Goroutines : OnScope(k, s, {"append"})' => k = h
  BY DEF OnScope, Elsewhere, OrderlyAt, Exiting, Calling
<1> QED
  BY <1>1, <1>2 DEF OrderlyAt

LEMMA OrderlyExit ==
  ASSUME ScopeTypes, CallInv, NEW g \in Goroutines, NEW s \in Scopes, Exit(g, s),
         OrderlyAt(s), s \notin messy'
  PROVE  OrderlyAt(s)'
<1>1. /\ s \in active /\ pc'[g] = "exit" /\ loc'[g].s = s /\ Elsewhere(g)
      /\ UNCHANGED <<cleanups, registered>>
      /\ ~Busy(g, s, Allocating)
  BY ExitEffect DEF hist
<1>2. cleanups'[s] = registered'[s]
  BY <1>1 DEF OrderlyAt
<1>3. \A h \in Goroutines : pc[h] \in Exiting => loc[h].s # s
  BY <1>1 DEF CallInv, CallAt
<1>4. ASSUME NEW h \in Goroutines
      PROVE  /\ ~OnScope(h, s, {"cleanup"})' /\ ~OnScope(h, s, {"append"})'
             /\ ~OnScope(h, s, Calling)'
  BY <1>1, <1>3 DEF OnScope, Elsewhere, Exiting, Busy, Allocating, Calling
<1>5. OnScope(g, s, {"exit", "cleanup"})'
  BY <1>1 DEF OnScope
<1> QED
  BY <1>2, <1>4, <1>5 DEF OrderlyAt

LEMMA OrderlyBegin ==
  ASSUME ScopeTypes, CallInv, NEW g \in Goroutines, NEW s \in Scopes, NEW x \in Items,
         BeginOnExit(g, s, x), OrderlyAt(s), s \notin messy', UNCHANGED <<active, cleanups, registered>>
  PROVE  OrderlyAt(s)'
<1>1. /\ pc'[g] = "append" /\ loc'[g].s = s /\ loc'[g].seen = cleanups[s] /\ Elsewhere(g)
      /\ s \in active /\ ~Busy(g, s, {"append"})
  BY BeginOnExitEffect
<1>2. cleanups'[s] = registered'[s]
  BY <1>1 DEF OrderlyAt
<1>3. \A h \in Goroutines : pc[h] \in Exiting => loc[h].s # s
  BY <1>1 DEF CallInv, CallAt
<1>4. ASSUME NEW h \in Goroutines
      PROVE  /\ ~OnScope(h, s, {"cleanup"})'
             /\ OnScope(h, s, {"append"})' => h = g
  BY <1>1, <1>3 DEF OnScope, Elsewhere, Exiting, Busy
<1> QED
  BY <1>1, <1>2, <1>4 DEF OrderlyAt

LEMMA OrderlyAppended ==
  ASSUME ScopeTypes, CallInv, NEW g \in Goroutines, NEW s \in Scopes, Appended(g), s = loc[g].s,
         OrderlyAt(s)
  PROVE  OrderlyAt(s)'
<1>0. pc[g] = "append" /\ OnScope(g, s, {"append"})
  BY DEF Appended, OnScope
<1>1. /\ pc'[g] \in {"idle", "return"} /\ Elsewhere(g) /\ active' = active
      /\ cleanups'[s] = Append(loc[g].seen, loc[g].item)
      /\ registered'[s] = Append(registered[s], loc[g].item)
  BY <1>0, AppendedEffect
<1>2. s \in active /\ loc[g].seen = cleanups[s] /\ cleanups[s] = registered[s]
      /\ \A h \in Goroutines : OnScope(h, s, {"append"}) => h = g
  BY <1>0 DEF OrderlyAt
<1>3. cleanups'[s] = registered'[s] /\ s \in active'
  BY <1>1, <1>2
<1>4. \A h \in Goroutines : pc[h] \in Exiting => loc[h].s # s
  BY <1>2 DEF CallInv, CallAt
<1>5. ASSUME NEW h \in Goroutines
      PROVE  ~OnScope(h, s, {"cleanup"})' /\ ~OnScope(h, s, {"append"})'
  BY <1>1, <1>2, <1>4 DEF OnScope, Elsewhere, Exiting
<1> QED
  BY <1>3, <1>5 DEF OrderlyAt

LEMMA OrderlyRecord ==
  ASSUME ScopeTypes, CallInv, OnceInv, NEW g \in Goroutines, NEW s \in Scopes,
         RecordScopeExit(g), s = loc[g].s, OrderlyAt(s)
  PROVE  OrderlyAt(s)'
<1>1. /\ pc[g] = "exit" /\ pc'[g] = "cleanup" /\ loc'[g].s = s /\ loc'[g].i = Len(cleanups[s])
      /\ Elsewhere(g) /\ UNCHANGED <<entered, active, cleanups, ran, registered>>
  BY RecordScopeExitEffect DEF hist
<1>2. cleanups[s] = registered[s] /\ registered[s] \in Seq(Items) /\ ran[s] = <<>> /\ s \notin active
  BY <1>1 DEF OrderlyAt, OnScope, ScopeTypes, OnceInv, LeftBehind, CallInv, CallAt, Exiting
<1>3. RanDown(s, loc[g].i)'
  <2>1. Len(registered[s]) \in Nat /\ Len(ran[s]) = 0
    BY <1>2
  <2> QED
    BY <1>1, <1>2, <2>1 DEF RanDown
<1>4. \A h \in Goroutines : pc[h] \in Exiting /\ loc[h].s = s => h = g
  BY <1>1 DEF CallInv, Exiting
<1>5. ASSUME NEW h \in Goroutines
      PROVE  /\ ~OnScope(h, s, {"append"})' /\ ~OnScope(h, s, Calling)'
             /\ OnScope(h, s, {"cleanup"})' => h = g
  BY <1>1, <1>2, <1>4 DEF OnScope, Elsewhere, Exiting, OrderlyAt, Calling
<1>6. OnScope(g, s, {"exit", "cleanup"})'
  BY <1>1 DEF OnScope
<1> QED
  BY <1>1, <1>2, <1>3, <1>5, <1>6 DEF OrderlyAt

LEMMA OrderlyRun ==
  ASSUME ScopeTypes, CallInv, NEW g \in Goroutines, NEW s \in Scopes,
         RunCleanup(g), s = loc[g].s, OrderlyAt(s)
  PROVE  OrderlyAt(s)'
<1> SUFFICES ASSUME NEW x, NEW i, x = NextCleanup(g), i = loc[g].i PROVE OrderlyAt(s)'
  OBVIOUS
<1>1. /\ pc[g] = "cleanup" /\ pc' = pc /\ loc'[g].s = s /\ loc'[g].i = i - 1 /\ Elsewhere(g)
      /\ i \in 1..Len(cleanups[s]) /\ x = cleanups[s][i]
      /\ ran' = [ran EXCEPT ![s] = Append(@, x)]
      /\ UNCHANGED <<entered, active, cleanups, registered>>
  BY RunCleanupEffect
<1>2. /\ cleanups[s] = registered[s] /\ registered[s] \in Seq(Items) /\ ran[s] \in Seq(Items)
      /\ s \notin active /\ RanDown(s, i) /\ ran'[s] = Append(ran[s], x)
  BY <1>1 DEF OrderlyAt, OnScope, ScopeTypes, CallInv, CallAt, Exiting
<1>3. RanDown(s, loc[g].i)'
  <2> DEFINE N == Len(registered[s])
             m == Len(ran[s])
  <2>1. N \in Nat /\ m \in Nat /\ m = N - i /\ i \in 1..N
    BY <1>1, <1>2 DEF RanDown
  <2>2. \A k \in 1..m : ran[s][k] = registered[s][N + 1 - k]
    BY <1>2 DEF RanDown
  <2>3. /\ Len(ran'[s]) = m + 1 /\ ran'[s][m + 1] = registered[s][i]
        /\ \A k \in 1..m : ran'[s][k] = ran[s][k]
    BY <1>1, <1>2
  <2> HIDE DEF N, m
  <2>4. \A k \in 1..(m + 1) : ran'[s][k] = registered[s][N + 1 - k]
    <3> SUFFICES ASSUME NEW k \in 1..(m + 1) PROVE ran'[s][k] = registered[s][N + 1 - k]
      OBVIOUS
    <3>1. CASE k \in 1..m
      BY <3>1, <2>2, <2>3
    <3>2. CASE k = m + 1
      <4>1. N + 1 - k = i
        BY <3>2, <2>1
      <4> QED
        BY <4>1, <3>2, <2>3
    <3> QED
      BY <2>1, <3>1, <3>2
  <2>5. i - 1 \in Nat /\ m + 1 = N - (i - 1)
    BY <2>1
  <2> QED
    BY <1>1, <2>3, <2>4, <2>5 DEF RanDown, N
<1>4. \A h \in Goroutines : pc[h] \in Exiting /\ loc[h].s = s => h = g
  BY <1>1 DEF CallInv, Exiting
<1>5. ASSUME NEW h \in Goroutines
      PROVE  /\ ~OnScope(h, s, {"append"})' /\ ~OnScope(h, s, Calling)'
             /\ OnScope(h, s, {"cleanup"})' => h = g
  BY <1>1, <1>2, <1>4 DEF OnScope, Elsewhere, Exiting, OrderlyAt, Calling
<1>6. OnScope(g, s, {"exit", "cleanup"})'
  BY <1>1 DEF OnScope
<1> QED
  BY <1>1, <1>2, <1>3, <1>5, <1>6 DEF OrderlyAt

(***************************************************************************)
(* CleanupsDone, and the end of Exit.                                      *)
(***************************************************************************)
LEMMA OrderlyDone ==
  ASSUME ScopeTypes, CallInv, NEW g \in Goroutines, NEW s \in Scopes, s = loc[g].s, OrderlyAt(s),
         Elsewhere(g), pc'[g] \in {"poison", "idle"},
         (pc[g] = "cleanup" /\ loc[g].i = 0) \/ pc[g] = "poison",
         UNCHANGED <<entered, active, ran, registered>>
  PROVE  OrderlyAt(s)'
<1>1. s \notin active /\ s \in entered
  BY DEF CallInv, CallAt, Exiting
<1>2. \A h \in Goroutines : pc[h] \in Exiting /\ loc[h].s = s => h = g
  BY DEF CallInv, Exiting
<1>3. RanDown(s, 0)
  <2>1. CASE pc[g] = "cleanup" /\ loc[g].i = 0
    BY <2>1 DEF OrderlyAt, OnScope
  <2>2. CASE pc[g] = "poison"
    <3>1. \A h \in Goroutines : ~OnScope(h, s, {"exit", "cleanup"})
      BY <2>2, <1>2 DEF OnScope, Exiting
    <3> QED
      BY <1>1, <3>1 DEF OrderlyAt
  <2> QED
    BY <2>1, <2>2
<1>4. RanDown(s, 0)'
  BY <1>3 DEF RanDown
<1>5. ASSUME NEW h \in Goroutines
      PROVE  /\ ~OnScope(h, s, {"append"})' /\ ~OnScope(h, s, Calling)'
             /\ ~OnScope(h, s, {"cleanup"})' /\ ~OnScope(h, s, {"exit"})'
  BY <1>1, <1>2 DEF OnScope, Elsewhere, Exiting, OrderlyAt, Calling
<1> QED
  BY <1>1, <1>4, <1>5 DEF OrderlyAt

LEMMA OrderlyStep ==
  ASSUME ScopeTypes, BlockTypes, CallInv, NotEntered, OnceInv, OrderlyInv, [Next]_svars
  PROVE  OrderlyInv'
<1> SUFFICES ASSUME NEW t \in Scopes, t \notin messy' PROVE OrderlyAt(t)'
  BY DEF OrderlyInv
<1>a. ASSUME messy \subseteq messy' PROVE OrderlyAt(t)
  BY <1>a DEF OrderlyInv
<1>b. \A g \in Goroutines : pc[g] = "idle" => loc[g].s # t
  BY IdleFields DEF CallInv, CallAt
<1>c. \A g \in Goroutines : pc[g] # "idle" => loc[g].s \in Scopes
  BY DEF CallInv, CallAt, ScopeTypes
<1>d. t \in active => \A h \in Goroutines : pc[h] \in Exiting => loc[h].s # t
  BY DEF CallInv, CallAt
<1>1. ASSUME NEW g \in Goroutines, NEW s \in Scopes, EnterScope(g, s) PROVE OrderlyAt(t)'
  <2>1. OrderlyAt(t) /\ loc'[g].s # t /\ loc[g].s # t
    BY <1>1, <1>a, <1>b, EnterEffect DEF EnterScope
  <2>2. CASE t # s
    <3>1. /\ Elsewhere(g) /\ (t \in active' <=> t \in active) /\ (t \in entered' <=> t \in entered)
          /\ cleanups'[t] = cleanups[t] /\ ran'[t] = ran[t] /\ registered'[t] = registered[t]
      BY <1>1, <2>2, EnterEffect DEF hist
    <3> QED
      BY <2>1, <3>1, OrderlyElsewhere
  <2> QED
    BY <1>1, <2>2, OrderlyEnter
<1>2. ASSUME NEW g \in Goroutines, NEW s \in Scopes, Starts(g, s) PROVE OrderlyAt(t)'
  <2>1. /\ pc[g] = "idle" /\ pc'[g] \in {"alloc", "get"} /\ s \in active /\ loc'[g].s = s /\ Elsewhere(g)
        /\ UNCHANGED <<entered, active, cleanups, ran, registered, messy>>
    BY <1>2, StartsEffect DEF hist
  <2>2. CASE t # s
    BY <1>a, <1>b, <2>1, <2>2, OrderlyElsewhere
  <2>3. CASE t = s
    BY <1>a, <1>d, <2>1, <2>3, OrderlyCall DEF Calling
  <2> QED
    BY <2>2, <2>3
<1>3. ASSUME NEW g \in Goroutines, NEW s \in Scopes, Exit(g, s) PROVE OrderlyAt(t)'
  <2>1. /\ pc[g] = "idle" /\ active' = active \ {s} /\ loc'[g].s = s /\ Elsewhere(g)
        /\ messy \subseteq messy' /\ UNCHANGED <<entered, cleanups, ran, registered>>
    BY <1>3, ExitEffect DEF hist
  <2>2. CASE t # s
    <3>1. t \in active' <=> t \in active
      BY <2>1, <2>2
    <3> QED
      BY <1>a, <1>b, <2>1, <2>2, <3>1, OrderlyElsewhere
  <2>3. CASE t = s
    BY <1>3, <1>a, <2>1, <2>3, OrderlyExit
  <2> QED
    BY <2>2, <2>3
<1>4. ASSUME NEW g \in Goroutines, NEW s \in Scopes, NEW x \in Items, BeginOnExit(g, s, x),
             pc[g] = "idle" \/ loc[g].s = s, UNCHANGED <<entered, active, cleanups, ran, registered>>
      PROVE OrderlyAt(t)'
  <2>1. loc'[g].s = s /\ Elsewhere(g) /\ messy \subseteq messy'
    BY <1>4, BeginOnExitEffect
  <2>2. CASE t # s
    BY <1>4, <1>a, <1>b, <2>1, <2>2, OrderlyElsewhere
  <2>3. CASE t = s
    BY <1>4, <1>a, <2>1, <2>3, OrderlyBegin
  <2> QED
    BY <2>2, <2>3
<1>5. ASSUME NEW g \in Goroutines, NEW s \in Scopes,
             \E f \in Functions : OnExit(g, s, f)
      PROVE OrderlyAt(t)'
  BY <1>4, <1>5 DEF OnExit, Items, hist
<1>14. ASSUME NEW g \in Goroutines, RegisterPooled(g) PROVE OrderlyAt(t)'
  BY <1>4, <1>14, RegisterCall DEF hist
<1>6. ASSUME NEW g \in Goroutines, pc[g] \in Calling,
             pc'[g] \in Calling \cup {"idle"}, loc'[g].s = loc[g].s \/ loc'[g] = Idle, Elsewhere(g),
             UNCHANGED <<entered, active, cleanups, ran, registered, messy>>
      PROVE OrderlyAt(t)'
  <2>1. CASE t # loc[g].s
    <3>1. loc'[g].s # t
      BY <1>6, <2>1, IdleFields
    <3> QED
      BY <1>a, <1>6, <2>1, <3>1, OrderlyElsewhere
  <2>2. CASE t = loc[g].s
    <3>1. OrderlyAt(t) /\ OnScope(g, t, Calling)
      BY <1>a, <1>6, <2>2 DEF OnScope
    <3>2. t \in active
      BY <3>1 DEF OrderlyAt
    <3> QED
      BY <1>d, <1>6, <2>2, <3>1, <3>2, OrderlyCall DEF Calling
  <2> QED
    BY <2>1, <2>2
<1>7. ASSUME NEW g \in Goroutines, ArenaAlloc(g) \/ TrackUsed(g) PROVE OrderlyAt(t)'
  BY <1>6, <1>7, ArenaAllocEffect, TrackUsedEffect DEF hist, Calling
<1>15. ASSUME NEW g \in Goroutines, NEW o \in Objects, GetPooled(g, o) PROVE OrderlyAt(t)'
  <2>1. loc[g].s \in Scopes
    BY <1>15, <1>c DEF GetPooled
  <2> QED
    BY <1>6, <1>15, <2>1, GetEffect DEF hist, Calling
<1>8. ASSUME NEW g \in Goroutines, Ends(g) PROVE OrderlyAt(t)'
  <2>1. /\ pc'[g] = "idle" /\ loc'[g] = Idle /\ Elsewhere(g)
        /\ UNCHANGED <<entered, active, cleanups, ran, registered, messy>>
    BY <1>8, EndsEffect DEF hist
  <2>2. OrderlyAt(t)
    BY <2>1, <1>a
  <2>3. CASE pc[g] \in {"alloc", "track", "return"}
    BY <1>6, <2>1, <2>3 DEF Calling
  <2>4. CASE t # loc[g].s
    BY <2>1, <2>2, <2>4, OrderlyElsewhere, IdleFields
  <2>5. CASE t = loc[g].s /\ pc[g] = "poison"
    BY <2>1, <2>2, <2>5, OrderlyDone
  <2>6. CASE t = loc[g].s /\ pc[g] = "cleanup"
    <3>1. loc[g].i > Len(cleanups[t])
      BY <1>8, <2>6 DEF Ends, ArenaFull, TrackBlock, ReturnPooled, CleanupPanics, Poison
    <3>2. cleanups[t] = registered[t] /\ RanDown(t, loc[g].i)
      BY <2>2, <2>6 DEF OrderlyAt, OnScope
    <3>3. Len(ran[t]) \in Nat /\ Len(registered[t]) \in Nat
      BY DEF ScopeTypes
    <3> QED
      BY <3>1, <3>2, <3>3 DEF RanDown
  <2> QED
    BY <1>8, <2>3, <2>4, <2>5, <2>6, EndsEffect
<1>9. ASSUME NEW g \in Goroutines, Appended(g) PROVE OrderlyAt(t)'
  <2>0. loc[g].s \in Scopes
    BY <1>9, <1>c DEF Appended
  <2>1. /\ loc'[g] \in {Idle, loc[g]} /\ Elsewhere(g) /\ messy' = messy /\ UNCHANGED <<active, entered, ran>>
        /\ \A u \in Scopes : u # loc[g].s => cleanups'[u] = cleanups[u] /\ registered'[u] = registered[u]
    BY <1>9, <2>0, AppendedEffect
  <2>2. CASE t # loc[g].s
    <3>1. loc'[g].s # t
      BY <2>1, <2>2, IdleFields
    <3> QED
      BY <1>a, <2>1, <2>2, <3>1, OrderlyElsewhere
  <2>3. CASE t = loc[g].s
    BY <1>9, <1>a, <2>1, <2>3, OrderlyAppended
  <2> QED
    BY <2>2, <2>3
<1>10. ASSUME NEW g \in Goroutines, RecordScopeExit(g) PROVE OrderlyAt(t)'
  <2>0. loc[g].s \in Scopes
    BY <1>10, <1>c DEF RecordScopeExit
  <2>1. /\ loc'[g].s = loc[g].s /\ Elsewhere(g)
        /\ UNCHANGED <<entered, active, cleanups, ran, registered, messy>>
    BY <1>10, <2>0, RecordScopeExitEffect DEF hist
  <2>2. CASE t # loc[g].s
    BY <1>a, <2>1, <2>2, OrderlyElsewhere
  <2>3. CASE t = loc[g].s
    BY <1>10, <1>a, <2>1, <2>3, OrderlyRecord
  <2> QED
    BY <2>2, <2>3
<1>11. ASSUME NEW g \in Goroutines, RunCleanup(g) PROVE OrderlyAt(t)'
  <2>0. loc[g].s \in Scopes
    BY <1>11, <1>c DEF RunCleanup
  <2>1. /\ loc'[g].s = loc[g].s /\ Elsewhere(g) /\ (t # loc[g].s => ran'[t] = ran[t])
        /\ UNCHANGED <<entered, active, cleanups, registered, messy>>
    BY <1>11, <2>0, RunCleanupEffect DEF ScopeTypes
  <2>2. CASE t # loc[g].s
    BY <1>a, <2>1, <2>2, OrderlyElsewhere
  <2>3. CASE t = loc[g].s
    BY <1>11, <1>a, <2>1, <2>3, OrderlyRun
  <2> QED
    BY <2>2, <2>3
<1>12. ASSUME NEW g \in Goroutines, CleanupsDone(g) PROVE OrderlyAt(t)'
  <2>1. /\ loc' = loc /\ Elsewhere(g) /\ (t # loc[g].s => cleanups'[t] = cleanups[t])
        /\ pc[g] = "cleanup" /\ loc[g].i = 0 /\ pc'[g] = "poison"
        /\ UNCHANGED <<entered, active, ran, registered, messy>>
    BY <1>12, CleanupsDoneEffect DEF ScopeTypes, hist
  <2>2. CASE t # loc[g].s
    BY <1>a, <2>1, <2>2, OrderlyElsewhere
  <2>3. CASE t = loc[g].s
    BY <1>12, <1>a, <2>1, <2>3, OrderlyDone
  <2> QED
    BY <2>2, <2>3
<1>13. CASE Outside
  <2>1. UNCHANGED <<entered, active, cleanups, pc, loc, ran, registered, messy>>
    BY <1>13 DEF Outside, hist
  <2>2. OrderlyAt(t)
    BY <2>1, <1>a
  <2> QED
    BY <2>1, <2>2 DEF OrderlyAt, RanDown, OnScope
<1> QED
  BY <1>1, <1>2, <1>3, <1>5, <1>7, <1>8, <1>9, <1>10, <1>11, <1>12, <1>13, <1>14, <1>15, NextCases

----------------------------------------------------------------------------
(* The memory of a scope is poisoned *)

LEMMA PoisonKept ==
  ASSUME NEW g \in Goroutines, Elsewhere(g), NEW t \in Scopes, PoisonAt(t),
         poisoned \subseteq poisoned', owned'[t] = owned[t], allocs[t] \subseteq allocs'[t],
         t \in active => t \in active' \/ OnScope(g, t, Exiting)',
         OnScope(g, t, Exiting) => OnScope(g, t, Exiting)',
         OnScope(g, t, {"count", "track"}) =>
           \/ OnScope(g, t, {"count", "track"})' /\ loc'[g].buf = loc[g].buf
           \/ loc[g].buf \in allocs'[t] /\ t \in active'
  PROVE  PoisonAt(t)'
<1> SUFFICES ASSUME NEW b \in owned[t], b \notin poisoned'
             PROVE  \/ /\ b \in allocs'[t]
                       /\ t \in active' \/ \E h \in Goroutines : OnScope(h, t, Exiting)'
                    \/ \E h \in Goroutines : OnScope(h, t, {"count", "track"})' /\ loc'[h].buf = b
  BY DEF PoisonAt
<1>1. CASE b \in allocs[t] /\ t \in active
  BY <1>1
<1>2. ASSUME b \in allocs[t], NEW h \in Goroutines, OnScope(h, t, Exiting)
      PROVE  b \in allocs'[t] /\ OnScope(h, t, Exiting)'
  BY <1>2 DEF OnScope, Elsewhere
<1>3. ASSUME NEW h \in Goroutines, OnScope(h, t, {"count", "track"}), loc[h].buf = b
      PROVE  \/ b \in allocs'[t] /\ t \in active'
             \/ OnScope(h, t, {"count", "track"})' /\ loc'[h].buf = b
  BY <1>3 DEF OnScope, Elsewhere
<1> QED
  BY <1>1, <1>2, <1>3 DEF PoisonAt

LEMMA PoisonStep ==
  ASSUME ScopeTypes, BlockTypes, CallInv, OrderlyInv, PoisonInv, [Next]_svars
  PROVE  PoisonInv'
<1> SUFFICES ASSUME NEW t \in Scopes, t \notin messy' PROVE PoisonAt(t)'
  BY DEF PoisonInv
<1>a. ASSUME messy \subseteq messy' PROVE PoisonAt(t) /\ OrderlyAt(t)
  BY <1>a DEF PoisonInv, OrderlyInv
<1>b. \A g \in Goroutines : pc[g] = "idle" => loc[g].s # t
  BY IdleFields DEF CallInv, CallAt
<1>c. \A g \in Goroutines : pc[g] # "idle" => loc[g].s \in Scopes
  BY DEF CallInv, CallAt, ScopeTypes
\* g has no block of t that is not in t's list.
<1>d. ASSUME NEW g \in Goroutines, Elsewhere(g), messy \subseteq messy',
             pc[g] \in {"idle", "append", "alloc", "get", "register", "return"},
             UNCHANGED <<poisoned, owned, allocs>>,
             t \in active => t \in active' \/ OnScope(g, t, Exiting)'
      PROVE  PoisonAt(t)'
  BY <1>a, <1>d, PoisonKept DEF OnScope, Exiting
<1>1. ASSUME NEW g \in Goroutines, NEW s \in Scopes, EnterScope(g, s) PROVE PoisonAt(t)'
  BY <1>1, <1>d, EnterEffect DEF EnterScope, hist
<1>2. ASSUME NEW g \in Goroutines, NEW s \in Scopes, Starts(g, s) PROVE PoisonAt(t)'
  BY <1>2, <1>d, StartsEffect DEF hist
<1>3. ASSUME NEW g \in Goroutines, NEW s \in Scopes, Exit(g, s) PROVE PoisonAt(t)'
  <2>1. t \in active => t \in active' \/ OnScope(g, t, Exiting)'
    BY <1>3, ExitEffect DEF OnScope, Exiting
  <2>2. pc[g] = "idle" /\ Elsewhere(g) /\ messy \subseteq messy' /\ UNCHANGED <<poisoned, owned, allocs>>
    BY <1>3, ExitEffect DEF hist
  <2> QED
    BY <1>d, <2>1, <2>2
<1>4. ASSUME NEW g \in Goroutines, NEW s \in Scopes, NEW x \in Items, BeginOnExit(g, s, x),
             pc[g] \in {"idle", "register"}, UNCHANGED <<active, poisoned, owned, allocs>>
      PROVE PoisonAt(t)'
  <2>1. Elsewhere(g) /\ messy \subseteq messy'
    BY <1>4, BeginOnExitEffect
  <2> QED
    BY <1>4, <1>d, <2>1
<1>5. ASSUME NEW g \in Goroutines, NEW s \in Scopes,
             \E f \in Functions : OnExit(g, s, f)
      PROVE PoisonAt(t)'
  BY <1>4, <1>5 DEF OnExit, Items, hist
<1>16. ASSUME NEW g \in Goroutines, RegisterPooled(g) PROVE PoisonAt(t)'
  BY <1>4, <1>16, RegisterCall DEF hist
<1>17. ASSUME NEW g \in Goroutines, NEW o \in Objects, GetPooled(g, o) PROVE PoisonAt(t)'
  <2>1. loc[g].s \in Scopes
    BY <1>17, <1>c DEF GetPooled
  <2> QED
    BY <1>17, <1>d, <2>1, GetEffect DEF hist
<1>18. ASSUME NEW g \in Goroutines, ReturnPooled(g) PROVE PoisonAt(t)'
  BY <1>18, <1>d, FinishEffect DEF ReturnPooled, hist
<1>6. ASSUME NEW g \in Goroutines, ArenaAlloc(g) PROVE PoisonAt(t)'
  <2>1. /\ pc[g] = "alloc" /\ pc'[g] = "count" /\ loc'[g].s = loc[g].s /\ loc'[g].buf = made + 1
        /\ Elsewhere(g) /\ owned' = [owned EXCEPT ![loc[g].s] = @ \cup {made + 1}]
        /\ UNCHANGED <<active, poisoned, allocs, messy>>
    BY <1>6, ArenaAllocEffect
  <2>2. owned \in [Scopes -> SUBSET (1..made)] /\ PoisonAt(t)
    BY <1>a, <2>1 DEF BlockTypes
  <2>3. CASE t # loc[g].s
    <3>1. owned'[t] = owned[t]
      BY <2>1, <2>2, <2>3
    <3> QED
      BY <2>1, <2>2, <2>3, <3>1, PoisonKept DEF OnScope
  <2>4. CASE t = loc[g].s
    <3>1. owned'[t] = owned[t] \cup {made + 1}
      BY <2>1, <2>2, <2>4
    <3>2. OnScope(g, t, {"count", "track"})' /\ loc'[g].buf = made + 1
      BY <2>1, <2>4 DEF OnScope
    <3>3. ASSUME NEW b \in owned[t], b \notin poisoned'
          PROVE  \/ /\ b \in allocs'[t]
                    /\ t \in active' \/ \E h \in Goroutines : OnScope(h, t, Exiting)'
                 \/ \E h \in Goroutines : OnScope(h, t, {"count", "track"})' /\ loc'[h].buf = b
      <4>1. \A h \in Goroutines : OnScope(h, t, Exiting) => OnScope(h, t, Exiting)'
        BY <2>1 DEF OnScope, Elsewhere, Exiting
      <4>2. \A h \in Goroutines : OnScope(h, t, {"count", "track"}) =>
                                    OnScope(h, t, {"count", "track"})' /\ loc'[h] = loc[h]
        BY <2>1 DEF OnScope, Elsewhere
      <4> QED
        BY <2>1, <2>2, <3>3, <4>1, <4>2 DEF PoisonAt
    <3> QED
      BY <3>1, <3>2, <3>3 DEF PoisonAt
  <2> QED
    BY <2>3, <2>4
<1>7. ASSUME NEW g \in Goroutines, TrackUsed(g) PROVE PoisonAt(t)'
  BY <1>7, <1>a, TrackUsedEffect, PoisonKept DEF hist, OnScope, Exiting
<1>8. ASSUME NEW g \in Goroutines, ArenaFull(g) PROVE PoisonAt(t)'
  BY <1>8, <1>d, FinishEffect DEF ArenaFull, hist
<1>9. ASSUME NEW g \in Goroutines, TrackBlock(g) PROVE PoisonAt(t)'
  <2>1. /\ pc[g] = "track" /\ pc'[g] = "idle" /\ Elsewhere(g) /\ loc[g].s \in Scopes
        /\ allocs' = [allocs EXCEPT ![loc[g].s] = @ \cup {loc[g].buf}]
        /\ UNCHANGED <<active, poisoned, owned, messy>>
    BY <1>9, <1>c, FinishEffect DEF TrackBlock, hist
  <2>2. allocs[t] \subseteq allocs'[t] /\ (t = loc[g].s => loc[g].buf \in allocs'[t])
    BY <2>1 DEF BlockTypes
  <2>3. OnScope(g, t, {"count", "track"}) => t \in active
    BY <1>a, <2>1 DEF OrderlyAt, OnScope, Calling
  <2> QED
    BY <1>a, <2>1, <2>2, <2>3, PoisonKept DEF OnScope, Exiting
<1>10. ASSUME NEW g \in Goroutines, CleanupPanics(g) PROVE PoisonAt(t)'
  <2>1. /\ pc[g] = "cleanup" /\ loc[g].i > Len(cleanups[loc[g].s]) /\ Elsewhere(g)
        /\ UNCHANGED <<active, poisoned, allocs, owned, messy>>
    BY <1>10, FinishEffect DEF CleanupPanics, hist
  <2>2. t # loc[g].s
    <3> SUFFICES ASSUME t = loc[g].s PROVE FALSE
      OBVIOUS
    <3>2. cleanups[t] = registered[t] /\ RanDown(t, loc[g].i)
      BY <1>a, <2>1 DEF OrderlyAt, OnScope
    <3>3. Len(ran[t]) \in Nat /\ Len(registered[t]) \in Nat
      BY DEF ScopeTypes
    <3> QED
      BY <2>1, <3>2, <3>3 DEF RanDown
  <2> QED
    BY <1>a, <2>1, <2>2, PoisonKept DEF OnScope
<1>11. ASSUME NEW g \in Goroutines, Poison(g) PROVE PoisonAt(t)'
  <2>1. /\ pc[g] = "poison" /\ Elsewhere(g) /\ loc[g].s \in Scopes
        /\ poisoned' = poisoned \cup allocs[loc[g].s]
        /\ allocs' = [allocs EXCEPT ![loc[g].s] = {}]
        /\ UNCHANGED <<active, owned, messy>>
    BY <1>11, <1>c, FinishEffect DEF Poison, hist
  <2>2. CASE t # loc[g].s
    <3>1. allocs'[t] = allocs[t]
      BY <2>1, <2>2 DEF BlockTypes
    <3> QED
      BY <1>a, <2>1, <2>2, <3>1, PoisonKept DEF OnScope
  <2>3. CASE t = loc[g].s
    <3>1. \A h \in Goroutines : OnScope(h, t, {"count", "track"}) =>
                                  OnScope(h, t, {"count", "track"})' /\ loc'[h] = loc[h]
      BY <2>1 DEF OnScope, Elsewhere
    <3> QED
      BY <1>a, <2>1, <2>3, <3>1 DEF PoisonAt
  <2> QED
    BY <2>2, <2>3
<1>12. ASSUME NEW g \in Goroutines, Appended(g) PROVE PoisonAt(t)'
  <2>1. loc[g].s \in Scopes /\ pc[g] = "append"
    BY <1>12, <1>c DEF Appended
  <2> QED
    BY <1>12, <1>d, <2>1, AppendedEffect
<1>13. ASSUME NEW g \in Goroutines, pc[g] \in Exiting, pc'[g] \in Exiting, loc'[g].s = loc[g].s,
              Elsewhere(g), UNCHANGED <<active, poisoned, allocs, owned, messy>>
       PROVE  PoisonAt(t)'
  BY <1>13, <1>a, PoisonKept DEF OnScope, Exiting
<1>14. ASSUME NEW g \in Goroutines, RecordScopeExit(g) \/ RunCleanup(g) \/ CleanupsDone(g)
       PROVE  PoisonAt(t)'
  <2>1. loc[g].s \in Scopes
    BY <1>14, <1>c DEF RecordScopeExit, RunCleanup, CleanupsDone
  <2> QED
    BY <1>14, <1>13, <2>1, RecordScopeExitEffect, RunCleanupEffect, CleanupsDoneEffect DEF hist, Exiting
<1>15. CASE Outside
  <2>1. UNCHANGED <<active, poisoned, allocs, owned, pc, loc, messy>>
    BY <1>15 DEF Outside, hist
  <2> QED
    BY <2>1, <1>a DEF PoisonAt, OnScope
<1> QED
  BY <1>1, <1>2, <1>3, <1>5, <1>6, <1>7, <1>8, <1>9, <1>10, <1>11, <1>12, <1>14, <1>15, <1>16, <1>17, <1>18,
     NextCases DEF Ends

----------------------------------------------------------------------------
(* The metrics *)

LEMMA LeavingSame ==
  ASSUME NEW g \in Goroutines, Elsewhere(g), pc[g] # "exit", pc'[g] # "exit"
  PROVE  Leaving' = Leaving
<1>1. \A s \in Scopes, h \in Goroutines : OnScope(h, s, {"exit"})' <=> OnScope(h, s, {"exit"})
  BY DEF OnScope, Elsewhere
<1> QED
  BY <1>1 DEF Leaving

LEMMA LeavingExit ==
  ASSUME ScopeTypes, CallInv, NEW g \in Goroutines, NEW s \in Scopes, Exit(g, s)
  PROVE  Leaving' = Leaving \cup {s} /\ s \notin Leaving
<1>1. /\ pc[g] = "idle" /\ pc'[g] = "exit" /\ s \in active /\ loc'[g].s = s /\ Elsewhere(g)
  BY ExitEffect
<1>2. \A t \in Scopes : (\E h \in Goroutines : OnScope(h, t, {"exit"})') <=>
                        (\E h \in Goroutines : OnScope(h, t, {"exit"})) \/ t = s
  BY <1>1 DEF OnScope, Elsewhere
<1>3. s \notin Leaving
  BY <1>1 DEF Leaving, OnScope, CallInv, CallAt, Exiting
<1> QED
  BY <1>2, <1>3 DEF Leaving

LEMMA LeavingRecord ==
  ASSUME ScopeTypes, CallInv, NEW g \in Goroutines, NEW s \in Scopes, RecordScopeExit(g), s = loc[g].s
  PROVE  Leaving' = Leaving \ {s} /\ s \in Leaving
<1>1. pc[g] = "exit" /\ pc'[g] = "cleanup" /\ Elsewhere(g)
  BY RecordScopeExitEffect
<1>2. \A h \in Goroutines : pc[h] \in Exiting /\ loc[h].s = s => h = g
  BY <1>1 DEF CallInv, Exiting
<1>3. \A t \in Scopes : (\E h \in Goroutines : OnScope(h, t, {"exit"})') <=>
                        (\E h \in Goroutines : OnScope(h, t, {"exit"})) /\ t # s
  BY <1>1, <1>2 DEF OnScope, Elsewhere, Exiting
<1>4. s \in Leaving
  BY <1>1 DEF Leaving, OnScope
<1> QED
  BY <1>3, <1>4 DEF Leaving

LEMMA CountStep ==
  ASSUME ScopeTypes, BlockTypes, CallInv, CountInv, [Next]_svars
  PROVE  CountInv'
<1>0. /\ IsFiniteSet(active) /\ IsFiniteSet(Leaving)
      /\ metrics.scopes = Cardinality(active) + Cardinality(Leaving)
  BY DEF CountInv
<1>a. Cardinality(active) \in Nat /\ Cardinality(Leaving) \in Nat
  BY <1>0, FS_CardinalityType
<1>c. \A g \in Goroutines : pc[g] # "idle" => loc[g].s \in Scopes
  BY DEF CallInv, CallAt, ScopeTypes
<1>d. ASSUME Leaving' = Leaving, active' = active, metrics' = metrics PROVE CountInv'
  BY <1>0, <1>d DEF CountInv
<1>1. ASSUME NEW g \in Goroutines, NEW s \in Scopes, EnterScope(g, s) PROVE CountInv'
  <2>1. /\ active' = active \cup {s} /\ s \notin active /\ Elsewhere(g) /\ pc[g] = "idle" /\ pc' = pc
        /\ metrics' = [metrics EXCEPT !.scopes = @ + 1]
    BY <1>1, EnterEffect DEF EnterScope, ScopeTypes
  <2>2. Leaving' = Leaving
    BY <2>1, LeavingSame
  <2>3. metrics'.scopes = metrics.scopes + 1
    BY <2>1 DEF BlockTypes
  <2>4. IsFiniteSet(active') /\ Cardinality(active') = Cardinality(active) + 1
    BY <1>0, <2>1, FS_AddElement
  <2> QED
    BY <1>0, <1>a, <2>2, <2>3, <2>4 DEF CountInv
<1>2. ASSUME NEW g \in Goroutines, NEW s \in Scopes, Exit(g, s) PROVE CountInv'
  <2>1. active' = active \ {s} /\ s \in active /\ metrics' = metrics
    BY <1>2, ExitEffect
  <2>2. Leaving' = Leaving \cup {s} /\ s \notin Leaving
    BY <1>2, LeavingExit
  <2>3. IsFiniteSet(active') /\ Cardinality(active') = Cardinality(active) - 1
    BY <1>0, <2>1, FS_RemoveElement
  <2>4. IsFiniteSet(Leaving') /\ Cardinality(Leaving') = Cardinality(Leaving) + 1
    BY <1>0, <2>2, FS_AddElement
  <2> QED
    BY <1>0, <1>a, <2>1, <2>3, <2>4 DEF CountInv
<1>3. ASSUME NEW g \in Goroutines, RecordScopeExit(g) PROVE CountInv'
  <2> SUFFICES ASSUME NEW s, s = loc[g].s PROVE CountInv'
    OBVIOUS
  <2>0. s \in Scopes
    BY <1>3, <1>c DEF RecordScopeExit
  <2>1. active' = active /\ metrics'.scopes = metrics.scopes - 1
    BY <1>3 DEF RecordScopeExit
  <2>2. Leaving' = Leaving \ {s} /\ s \in Leaving
    BY <1>3, <2>0, LeavingRecord
  <2>3. IsFiniteSet(Leaving') /\ Cardinality(Leaving') = Cardinality(Leaving) - 1
    BY <1>0, <2>2, FS_RemoveElement
  <2> QED
    BY <1>0, <1>a, <2>1, <2>3 DEF CountInv
<1>4. ASSUME NEW g \in Goroutines, NEW s \in Scopes, Starts(g, s) \/ \E f \in Functions : OnExit(g, s, f)
      PROVE CountInv'
  <2>1. active' = active /\ metrics' = metrics /\ pc[g] = "idle"
    BY <1>4, StartsEffect DEF OnExit
  <2>2. Elsewhere(g) /\ pc'[g] # "exit"
    BY <1>4, StartsEffect, BeginOnExitEffect DEF OnExit, Items
  <2> QED
    BY <1>d, <2>1, <2>2, LeavingSame
<1>5. ASSUME NEW g \in Goroutines,
             \/ (\E o \in Objects : GetPooled(g, o)) \/ RegisterPooled(g)
             \/ ArenaAlloc(g) \/ Ends(g) \/ TrackUsed(g) \/ Appended(g) \/ RunCleanup(g) \/ CleanupsDone(g)
      PROVE CountInv'
  <2>0. pc[g] \in Labels \ {"idle", "exit"}
    BY <1>5, EndsEffect, LocFields
       DEF GetPooled, RegisterPooled, ArenaAlloc, TrackUsed, Appended, RunCleanup, CleanupsDone
  <2>1. loc[g].s \in Scopes
    BY <1>c, <2>0
  <2>2. active' = active /\ metrics' = metrics
    BY <1>5, EndsEffect
       DEF GetPooled, RegisterPooled, ArenaAlloc, TrackUsed, Appended, RunCleanup, CleanupsDone
  <2>3. Elsewhere(g) /\ pc'[g] # "exit"
    <3>1. CASE ArenaAlloc(g) BY <3>1, ArenaAllocEffect
    <3>2. CASE Ends(g) BY <3>2, EndsEffect
    <3>3. CASE TrackUsed(g) BY <3>3, TrackUsedEffect
    <3>4. CASE Appended(g) BY <3>4, <2>1, AppendedEffect
    <3>5. CASE RunCleanup(g) BY <3>5, <2>0, <2>1, RunCleanupEffect
    <3>6. CASE CleanupsDone(g) BY <3>6, CleanupsDoneEffect
    <3>7. CASE \E o \in Objects : GetPooled(g, o) BY <3>7, <2>1, GetEffect
    <3>8. CASE RegisterPooled(g) BY <3>8, RegisterCall, BeginOnExitEffect
    <3> QED BY <1>5, <3>1, <3>2, <3>3, <3>4, <3>5, <3>6, <3>7, <3>8
  <2> QED
    BY <1>d, <2>0, <2>2, <2>3, LeavingSame
<1>6. CASE Outside
  <2>1. UNCHANGED <<active, metrics, pc, loc>>
    BY <1>6 DEF Outside
  <2>2. Leaving' = Leaving
    BY <2>1 DEF Leaving, OnScope
  <2> QED
    BY <1>d, <2>1, <2>2
<1> QED
  BY <1>1, <1>2, <1>3, <1>4, <1>5, <1>6, NextCases

BlocksApart ==
  /\ \A s, t \in Scopes : s # t => owned[s] \cap owned[t] = {}
  /\ \A g, h \in Goroutines :
       pc[g] = "count" => /\ loc[g].buf \in owned[loc[g].s]
                          /\ pc[h] = "count" /\ loc[h].buf = loc[g].buf => g = h
  /\ \A s \in Scopes : used[s] = Cardinality(owned[s] \ Uncounted(s))

BytesCounted == messy = {} => metrics.bypassed = Cardinality(Bypassed)

LEMMA ApartQuiet ==
  ASSUME BlocksApart, NEW g \in Goroutines, Elsewhere(g), pc[g] # "count", pc'[g] # "count",
         UNCHANGED <<owned, used>>
  PROVE  BlocksApart'
<1>1. \A s \in Scopes, h \in Goroutines : OnScope(h, s, {"count"})' <=> OnScope(h, s, {"count"})
  BY DEF OnScope, Elsewhere
<1>2. \A s \in Scopes, h \in Goroutines : OnScope(h, s, {"count"}) => loc'[h] = loc[h]
  BY DEF OnScope, Elsewhere
<1>3. \A s \in Scopes : Uncounted(s)' = Uncounted(s)
  BY <1>1, <1>2 DEF Uncounted
<1>4. \A h \in Goroutines : pc'[h] = "count" => pc[h] = "count" /\ loc'[h] = loc[h]
  BY DEF Elsewhere
<1>5. \A h, k \in Goroutines :
        pc'[h] = "count" => /\ loc'[h].buf \in owned'[loc'[h].s]
                            /\ pc'[k] = "count" /\ loc'[k].buf = loc'[h].buf => h = k
  BY <1>4 DEF BlocksApart
<1>6. \A s \in Scopes : used'[s] = Cardinality(owned'[s] \ Uncounted(s)')
  BY <1>3 DEF BlocksApart
<1> QED
  BY <1>5, <1>6 DEF BlocksApart

LEMMA ApartAlloc ==
  ASSUME ScopeTypes, BlockTypes, CallInv, BlocksApart, NEW g \in Goroutines, ArenaAlloc(g)
  PROVE  BlocksApart'
<1> SUFFICES ASSUME NEW s, NEW n, s = loc[g].s, n = made + 1 PROVE BlocksApart'
  OBVIOUS
<1>0. s \in Scopes
  BY DEF CallInv, CallAt, ScopeTypes, ArenaAlloc
<1>1. /\ pc[g] = "alloc" /\ pc'[g] = "count" /\ loc'[g].s = s /\ loc'[g].buf = n
      /\ \A h \in Goroutines : h # g => pc'[h] = pc[h] /\ loc'[h] = loc[h]
      /\ owned' = [owned EXCEPT ![s] = @ \cup {n}] /\ used' = used
  BY ArenaAllocEffect DEF Elsewhere
<1>2. \A t \in Scopes : n \notin owned[t]
  BY DEF BlockTypes
<1>3. /\ owned'[s] = owned[s] \cup {n} /\ \A t \in Scopes : t # s => owned'[t] = owned[t]
      /\ owned \in [Scopes -> SUBSET (1..made)]
  BY <1>0, <1>1 DEF BlockTypes
<1>4. \A t, u \in Scopes : t # u => owned'[t] \cap owned'[u] = {}
  BY <1>2, <1>3 DEF BlocksApart
<1>a. \A h \in Goroutines : pc[h] = "count" => loc[h].s \in Scopes /\ loc[h].buf \in owned[loc[h].s]
  BY DEF BlocksApart, CallInv, CallAt, ScopeTypes
<1>5. \A h, k \in Goroutines :
        pc'[h] = "count" => /\ loc'[h].buf \in owned'[loc'[h].s]
                            /\ pc'[k] = "count" /\ loc'[k].buf = loc'[h].buf => h = k
  <2> SUFFICES ASSUME NEW h \in Goroutines, pc'[h] = "count"
               PROVE  /\ loc'[h].buf \in owned'[loc'[h].s]
                      /\ \A k \in Goroutines : pc'[k] = "count" /\ loc'[k].buf = loc'[h].buf => h = k
    OBVIOUS
  <2>1. CASE h = g
    BY <2>1, <1>0, <1>1, <1>2, <1>3, <1>a
  <2>2. CASE h # g
    <3>1. pc[h] = "count" /\ loc'[h] = loc[h] /\ loc[h].buf # n
      BY <2>2, <1>1, <1>2, <1>a
    <3>2. loc'[h].buf \in owned'[loc'[h].s]
      BY <3>1, <1>3, <1>a
    <3> QED
      BY <3>1, <3>2, <1>1 DEF BlocksApart
  <2> QED
    BY <2>1, <2>2
<1>6. \A t \in Scopes : owned'[t] \ Uncounted(t)' = owned[t] \ Uncounted(t)
  <2> SUFFICES ASSUME NEW t \in Scopes, NEW b
               PROVE  b \in owned'[t] \ Uncounted(t)' <=> b \in owned[t] \ Uncounted(t)
    OBVIOUS
  <2>1. CASE b = n
    <3>1. b \notin owned[t] /\ (b \in owned'[t] => t = s)
      BY <2>1, <1>2, <1>3
    <3>2. t = s => OnScope(g, t, {"count"})' /\ loc'[g].buf = b
      BY <2>1, <1>1 DEF OnScope
    <3> QED
      BY <3>1, <3>2 DEF Uncounted
  <2>2. CASE b # n
    <3>1. b \in owned'[t] <=> b \in owned[t]
      BY <2>2, <1>3
    <3>2. \A h \in Goroutines : OnScope(h, t, {"count"})' /\ loc'[h].buf = b
                                  <=> OnScope(h, t, {"count"}) /\ loc[h].buf = b
      BY <2>2, <1>1 DEF OnScope
    <3> QED
      BY <3>1, <3>2 DEF Uncounted
  <2> QED
    BY <2>1, <2>2
<1>7. \A t \in Scopes : used'[t] = Cardinality(owned'[t] \ Uncounted(t)')
  BY <1>1, <1>6 DEF BlocksApart
<1> QED
  BY <1>4, <1>5, <1>7 DEF BlocksApart

LEMMA ApartTrack ==
  ASSUME ScopeTypes, BlockTypes, CallInv, BlocksApart, NEW g \in Goroutines, TrackUsed(g)
  PROVE  BlocksApart'
<1> SUFFICES ASSUME NEW s, NEW n, s = loc[g].s, n = loc[g].buf PROVE BlocksApart'
  OBVIOUS
<1>0. s \in Scopes
  BY DEF CallInv, CallAt, ScopeTypes, TrackUsed
<1>1. /\ pc[g] = "count" /\ pc'[g] = "track" /\ loc' = loc
      /\ \A h \in Goroutines : h # g => pc'[h] = pc[h] /\ loc'[h] = loc[h]
      /\ owned' = owned /\ used' = [used EXCEPT ![s] = @ + 1]
  BY TrackUsedEffect DEF Elsewhere, hist
<1>2. n \in owned[s] /\ \A h \in Goroutines : pc[h] = "count" /\ loc[h].buf = n => h = g
  BY <1>1 DEF BlocksApart
<1>3. \A t \in Scopes : t # s => n \notin owned[t]
  BY <1>0, <1>2 DEF BlocksApart
<1>4. \A h, k \in Goroutines :
        pc'[h] = "count" => /\ loc'[h].buf \in owned'[loc'[h].s]
                            /\ pc'[k] = "count" /\ loc'[k].buf = loc'[h].buf => h = k
  <2>1. \A h \in Goroutines : pc'[h] = "count" => pc[h] = "count" /\ loc'[h] = loc[h]
    BY <1>1
  <2> QED
    BY <1>1, <2>1 DEF BlocksApart
<1>5. ASSUME NEW t \in Scopes, NEW b \in owned[t], b # n
      PROVE  b \in Uncounted(t)' <=> b \in Uncounted(t)
  <2>1. \A h \in Goroutines : OnScope(h, t, {"count"})' /\ loc'[h].buf = b
                                <=> OnScope(h, t, {"count"}) /\ loc[h].buf = b
    BY <1>1, <1>5 DEF OnScope
  <2> QED
    BY <2>1, <1>1 DEF Uncounted
<1>6. n \in Uncounted(s) /\ n \notin Uncounted(s)'
  <2>1. OnScope(g, s, {"count"})
    BY <1>1 DEF OnScope
  <2>2. \A h \in Goroutines : ~(OnScope(h, s, {"count"})' /\ loc'[h].buf = n)
    BY <1>1, <1>2 DEF OnScope
  <2> QED
    BY <1>2, <2>1, <2>2 DEF Uncounted
<1>7. \A t \in Scopes : t # s => owned'[t] \ Uncounted(t)' = owned[t] \ Uncounted(t)
  BY <1>1, <1>3, <1>5
<1>8. owned'[s] \ Uncounted(s)' = (owned[s] \ Uncounted(s)) \cup {n}
  BY <1>0, <1>1, <1>2, <1>5, <1>6
<1>9. IsFiniteSet(owned[s] \ Uncounted(s))
  <2>1. made \in Nat /\ owned[s] \ Uncounted(s) \in SUBSET (1..made)
    BY <1>0 DEF BlockTypes
  <2>2. IsFiniteSet(1..made)
    BY <2>1, FS_Interval
  <2> QED
    BY <2>1, <2>2, FS_Subset
<1>10. Cardinality((owned[s] \ Uncounted(s)) \cup {n}) = Cardinality(owned[s] \ Uncounted(s)) + 1
  BY <1>6, <1>9, FS_AddElement
<1>11. used'[s] = used[s] + 1 /\ \A t \in Scopes : t # s => used'[t] = used[t]
  BY <1>0, <1>1 DEF BlockTypes
<1>12. \A t \in Scopes : used'[t] = Cardinality(owned'[t] \ Uncounted(t)')
  <2>1. \A t \in Scopes : used[t] = Cardinality(owned[t] \ Uncounted(t))
    BY DEF BlocksApart
  <2>2. used'[s] = Cardinality(owned'[s] \ Uncounted(s)')
    BY <1>0, <1>8, <1>10, <1>11, <2>1
  <2>3. \A t \in Scopes : t # s => used'[t] = Cardinality(owned'[t] \ Uncounted(t)')
    BY <1>7, <1>11, <2>1
  <2> QED
    BY <2>2, <2>3
<1> QED
  BY <1>1, <1>4, <1>12 DEF BlocksApart

Gone == (entered \ active) \ Leaving

LEMMA CountedRecord ==
  ASSUME ScopeTypes, BlockTypes, CallInv, OrderlyInv, BlocksApart, BytesCounted,
         NEW g \in Goroutines, RecordScopeExit(g)
  PROVE  BytesCounted'
<1> SUFFICES ASSUME NEW s, s = loc[g].s, messy' = {} PROVE metrics'.bypassed = Cardinality(Bypassed')
  BY DEF BytesCounted
<1>0. s \in Scopes /\ s \in entered /\ s \notin active /\ pc[g] = "exit"
  BY DEF CallInv, CallAt, ScopeTypes, RecordScopeExit, Exiting
<1>1. /\ UNCHANGED <<entered, active, owned, messy>>
      /\ metrics'.bypassed = metrics.bypassed + used[s]
  BY DEF RecordScopeExit, hist
<1>2. Leaving' = Leaving \ {s} /\ s \in Leaving
  BY <1>0, LeavingRecord
<1>3. Gone' = Gone \cup {s} /\ s \notin Gone
  BY <1>0, <1>1, <1>2 DEF Gone
<1>4. Bypassed' = Bypassed \cup owned[s]
  BY <1>1, <1>3 DEF Bypassed, Gone
<1>5. Bypassed \cap owned[s] = {}
  <2>1. \A t \in Gone : t \in Scopes /\ t # s
    BY <1>3 DEF Gone, ScopeTypes
  <2> QED
    BY <1>0, <2>1 DEF Bypassed, Gone, BlocksApart
<1>6. IsFiniteSet(Bypassed) /\ IsFiniteSet(owned[s])
  <2>1. made \in Nat /\ \A t \in Scopes : owned[t] \subseteq 1..made
    BY DEF BlockTypes
  <2>2. Bypassed \in SUBSET (1..made) /\ owned[s] \in SUBSET (1..made)
    BY <1>0, <2>1 DEF Bypassed, ScopeTypes
  <2>3. IsFiniteSet(1..made)
    BY <2>1, FS_Interval
  <2> QED
    BY <2>2, <2>3, FS_Subset
<1>7. Cardinality(Bypassed') = Cardinality(Bypassed) + Cardinality(owned[s])
  <2>1. Cardinality(Bypassed \cup owned[s]) =
          Cardinality(Bypassed) + Cardinality(owned[s]) - Cardinality(Bypassed \cap owned[s])
    BY <1>6, FS_Union
  <2>2. Cardinality(Bypassed) \in Nat /\ Cardinality(owned[s]) \in Nat
    BY <1>6, FS_CardinalityType
  <2>3. Cardinality(Bypassed \cap owned[s]) = 0
    BY <1>5, FS_EmptySet
  <2> QED
    BY <1>4, <2>1, <2>2, <2>3
<1>8. used[s] = Cardinality(owned[s])
  <2>1. OrderlyAt(s)
    BY <1>0, <1>1 DEF OrderlyInv
  <2>2. \A h \in Goroutines : ~OnScope(h, s, {"count"})
    BY <1>0, <2>1 DEF OrderlyAt, OnScope, Calling
  <2>3. Uncounted(s) = {}
    BY <2>2 DEF Uncounted
  <2>4. owned[s] \ Uncounted(s) = owned[s]
    BY <2>3
  <2> QED
    BY <1>0, <2>4 DEF BlocksApart
<1> QED
  BY <1>1, <1>7, <1>8 DEF BytesCounted

LEMMA CountedQuiet ==
  ASSUME BytesCounted, messy \subseteq messy', Gone' = Gone, metrics'.bypassed = metrics.bypassed,
         messy = {} => \A t \in Gone : owned'[t] = owned[t]
  PROVE  BytesCounted'
<1> SUFFICES ASSUME messy' = {} PROVE metrics'.bypassed = Cardinality(Bypassed')
  BY DEF BytesCounted
<1>1. Bypassed = UNION {owned[t] : t \in Gone} /\ Bypassed' = UNION {owned'[t] : t \in Gone'}
  BY DEF Bypassed, Gone
<1>2. messy = {}
  OBVIOUS
<1>3. Bypassed' = Bypassed
  BY <1>1, <1>2
<1> QED
  BY <1>2, <1>3 DEF BytesCounted

LEMMA BytesStep ==
  ASSUME ScopeTypes, BlockTypes, CallInv, OrderlyInv, BytesInv, [Next]_svars
  PROVE  BytesInv'
<1>0. BlocksApart /\ BytesCounted
  BY DEF BytesInv, BlocksApart, BytesCounted
<1>c. \A g \in Goroutines : pc[g] # "idle" => loc[g].s \in Scopes
  BY DEF CallInv, CallAt, ScopeTypes
<1>d. ASSUME NEW g \in Goroutines, Elsewhere(g), pc[g] \notin {"count", "exit"},
             pc'[g] \notin {"count", "exit"}, entered' \ active' = entered \ active,
             messy \subseteq messy', UNCHANGED <<owned, used>>, metrics'.bypassed = metrics.bypassed
      PROVE  BlocksApart' /\ BytesCounted'
  <2>1. BlocksApart'
    BY <1>0, <1>d, ApartQuiet
  <2>2. Leaving' = Leaving
    BY <1>d, LeavingSame
  <2>3. Gone' = Gone
    BY <1>d, <2>2 DEF Gone
  <2> QED
    BY <1>0, <1>d, <2>1, <2>3, CountedQuiet
<1>1. ASSUME NEW g \in Goroutines, NEW s \in Scopes, EnterScope(g, s) PROVE BlocksApart' /\ BytesCounted'
  <2>1. /\ Elsewhere(g) /\ pc[g] = "idle" /\ pc' = pc /\ UNCHANGED <<owned, used, messy>>
        /\ entered' \ active' = entered \ active
    BY <1>1, EnterEffect DEF EnterScope, hist, ScopeTypes
  <2>2. metrics'.bypassed = metrics.bypassed
    BY <1>1, EnterEffect DEF BlockTypes
  <2> QED
    BY <1>d, <2>1, <2>2
<1>2. ASSUME NEW g \in Goroutines, NEW s \in Scopes,
             Starts(g, s) \/ \E f \in Functions : OnExit(g, s, f)
      PROVE BlocksApart' /\ BytesCounted'
  <2>1. UNCHANGED <<entered, active, metrics, owned, used>> /\ pc[g] = "idle"
    BY <1>2, StartsEffect DEF OnExit, hist
  <2>2. Elsewhere(g) /\ pc'[g] \notin {"exit", "count"} /\ messy \subseteq messy'
    <3>1. CASE Starts(g, s)
      BY <3>1, StartsEffect
    <3>2. ASSUME NEW x \in Items, BeginOnExit(g, s, x)
          PROVE  Elsewhere(g) /\ pc'[g] \notin {"exit", "count"} /\ messy \subseteq messy'
      BY <3>2, BeginOnExitEffect
    <3> QED
      BY <1>2, <3>1, <3>2 DEF OnExit, Items
  <2> QED
    BY <1>d, <2>1, <2>2
<1>3. ASSUME NEW g \in Goroutines, NEW s \in Scopes, Exit(g, s) PROVE BlocksApart' /\ BytesCounted'
  <2>1. /\ Elsewhere(g) /\ pc[g] = "idle" /\ pc'[g] = "exit" /\ active' = active \ {s} /\ s \in active
        /\ messy \subseteq messy' /\ UNCHANGED <<entered, owned, used, metrics>>
    BY <1>3, ExitEffect DEF hist
  <2>2. Leaving' = Leaving \cup {s}
    BY <1>3, LeavingExit
  <2>3. Gone' = Gone
    BY <2>1, <2>2 DEF Gone
  <2>4. BlocksApart'
    BY <1>0, <2>1, ApartQuiet
  <2> QED
    BY <1>0, <2>1, <2>3, <2>4, CountedQuiet
<1>4. ASSUME NEW g \in Goroutines, ArenaAlloc(g) PROVE BlocksApart' /\ BytesCounted'
  <2>1. /\ Elsewhere(g) /\ pc[g] = "alloc" /\ pc'[g] = "count"
        /\ owned' = [owned EXCEPT ![loc[g].s] = @ \cup {made + 1}]
        /\ UNCHANGED <<entered, active, metrics, messy>>
    BY <1>4, ArenaAllocEffect
  <2>2. Leaving' = Leaving
    BY <2>1, LeavingSame
  <2>3. Gone' = Gone
    BY <2>1, <2>2 DEF Gone
  <2>4. messy = {} => loc[g].s \in active
    <3> SUFFICES ASSUME messy = {} PROVE loc[g].s \in active
      OBVIOUS
    <3>1. loc[g].s \in Scopes /\ OrderlyAt(loc[g].s)
      BY <1>c, <2>1 DEF OrderlyInv
    <3> QED
      BY <2>1, <3>1 DEF OrderlyAt, OnScope, Calling
  <2>5. messy = {} => \A t \in Gone : owned'[t] = owned[t]
    BY <2>1, <2>4 DEF Gone, BlockTypes, ScopeTypes
  <2>6. BlocksApart'
    BY <1>0, <1>4, ApartAlloc
  <2> QED
    BY <1>0, <2>1, <2>3, <2>5, <2>6, CountedQuiet
<1>5. ASSUME NEW g \in Goroutines, TrackUsed(g) PROVE BlocksApart' /\ BytesCounted'
  <2>1. /\ Elsewhere(g) /\ pc[g] = "count" /\ pc'[g] = "track"
        /\ UNCHANGED <<entered, active, metrics, messy, owned>>
    BY <1>5, TrackUsedEffect DEF hist
  <2>2. Leaving' = Leaving
    BY <2>1, LeavingSame
  <2>3. Gone' = Gone
    BY <2>1, <2>2 DEF Gone
  <2>4. BlocksApart'
    BY <1>0, <1>5, ApartTrack
  <2> QED
    BY <1>0, <2>1, <2>3, <2>4, CountedQuiet
<1>6. ASSUME NEW g \in Goroutines, RecordScopeExit(g) PROVE BlocksApart' /\ BytesCounted'
  <2>0. loc[g].s \in Scopes
    BY <1>6, <1>c DEF RecordScopeExit
  <2>1. Elsewhere(g) /\ pc[g] = "exit" /\ pc'[g] = "cleanup" /\ UNCHANGED <<owned, used>>
    BY <1>6, <2>0, RecordScopeExitEffect DEF hist
  <2>2. BlocksApart'
    BY <1>0, <2>1, ApartQuiet
  <2> QED
    BY <1>0, <1>6, <2>2, CountedRecord
<1>7. ASSUME NEW g \in Goroutines,
             \/ (\E o \in Objects : GetPooled(g, o)) \/ RegisterPooled(g)
             \/ Ends(g) \/ Appended(g) \/ RunCleanup(g) \/ CleanupsDone(g)
      PROVE BlocksApart' /\ BytesCounted'
  <2>0. pc[g] \in Labels \ {"idle", "exit", "count"}
    BY <1>7, EndsEffect, LocFields DEF GetPooled, RegisterPooled, Appended, RunCleanup, CleanupsDone
  <2>1. loc[g].s \in Scopes
    BY <1>c, <2>0
  <2>2. UNCHANGED <<entered, active, metrics, owned, used>>
    BY <1>7, EndsEffect DEF GetPooled, RegisterPooled, Appended, RunCleanup, CleanupsDone, hist
  <2>3. Elsewhere(g) /\ pc'[g] \notin {"exit", "count"} /\ messy \subseteq messy'
    <3>1. CASE Ends(g) BY <3>1, EndsEffect
    <3>2. CASE Appended(g) BY <3>2, <2>1, AppendedEffect
    <3>3. CASE RunCleanup(g) BY <3>3, <2>0, <2>1, RunCleanupEffect
    <3>4. CASE CleanupsDone(g) BY <3>4, CleanupsDoneEffect
    <3>5. CASE \E o \in Objects : GetPooled(g, o) BY <3>5, <2>1, GetEffect
    <3>6. CASE RegisterPooled(g) BY <3>6, RegisterCall, BeginOnExitEffect
    <3> QED BY <1>7, <3>1, <3>2, <3>3, <3>4, <3>5, <3>6
  <2> QED
    BY <1>d, <2>0, <2>2, <2>3
<1>8. ASSUME Outside PROVE BlocksApart' /\ BytesCounted'
  <2>1. UNCHANGED <<entered, active, metrics, owned, used, messy, pc, loc>>
    BY <1>8 DEF Outside, hist
  <2> QED
    BY <1>0, <2>1 DEF BlocksApart, BytesCounted, Uncounted, Bypassed, Leaving, OnScope
<1>9. BlocksApart' /\ BytesCounted'
  BY <1>1, <1>2, <1>3, <1>4, <1>5, <1>6, <1>7, <1>8, NextCases
<1> QED
  BY <1>9 DEF BytesInv, BlocksApart, BytesCounted

----------------------------------------------------------------------------
(* The theorems *)

(***************************************************************************)
(* What holds between any two steps.                                       *)
(***************************************************************************)
ScopeInv ==
  /\ ScopeTypes /\ BlockTypes /\ CallInv /\ NotEntered
  /\ OnceInv /\ OwnInv /\ HeldInv /\ OrderlyInv /\ PoisonInv /\ CountInv /\ BytesInv

LEMMA InvInit == Init => ScopeInv
<1> SUFFICES ASSUME Init PROVE ScopeInv
  OBVIOUS
<1>1. /\ \A g \in Goroutines : pc[g] = "idle" /\ loc[g] = Idle
      /\ \A s \in Scopes : /\ cleanups[s] = <<>> /\ registered[s] = <<>> /\ ran[s] = <<>>
                           /\ owned[s] = {} /\ lent[s] = {} /\ held[s] = {} /\ used[s] = 0
      /\ entered = {} /\ active = {} /\ pooled = {} /\ fresh = Objects /\ messy = {}
      /\ metrics.scopes = 0 /\ metrics.bypassed = 0
  BY DEF Init
<1>2. \A g \in Goroutines : loc[g].s = NoOne /\ loc[g].item = NoOne
  BY <1>1, IdleFields
<1>3. CallInv /\ NotEntered
  BY <1>1, <1>2, IdleFields DEF CallInv, CallAt, NotEntered, Exiting
<1>4. \A s \in Scopes : \A j \in Nat : \A x : ~At(s, j, x)
  BY <1>1 DEF At, ListedIn
<1>5. OnceInv
  <2>1. Positions
    BY <1>4 DEF Positions
  <2>2. NotYetListed /\ LeftBehind /\ RanOnce
    BY <1>1 DEF NotYetListed, LeftBehind, RanOnce
  <2>3. \A s \in Scopes : Range(ran[s]) = {} /\ Range(registered[s]) = {}
    BY <1>1, RangeEmpty
  <2>4. \A h \in Goroutines : loc[h].item \notin Functions
    BY <1>2, ScopeAssumption
  <2>5. Belongs
    BY <1>4, <2>3, <2>4 DEF Belongs, Items
  <2> QED
    BY <2>1, <2>2, <2>5 DEF OnceInv
<1>6. OwnInv
  <2>1. \A s \in Scopes, o \in Objects : ~Runnable(s, o)
    BY <1>4 DEF Runnable
  <2>2. \A h \in Goroutines : \A o : ~Carries(h, o)
    BY <1>1 DEF Carries
  <2>3. PoolOnly
    BY <1>1, <2>1, <2>2 DEF PoolOnly
  <2>4. FlyingOnly /\ ScopeOnly
    BY <1>1, <1>4, <2>1, <2>2 DEF FlyingOnly, ScopeOnly
  <2> QED
    BY <1>1, <2>3, <2>4 DEF OwnInv, PooledClean
<1>7. OrderlyInv /\ PoisonInv
  BY <1>1 DEF OrderlyInv, OrderlyAt, PoisonInv, PoisonAt, OnScope, Calling
<1>8. Leaving = {}
  BY <1>1 DEF Leaving, OnScope
<1>9. CountInv
  BY <1>1, <1>8, FS_EmptySet DEF CountInv
<1>10. BytesInv
  <2>1. Bypassed = {} /\ \A s \in Scopes : owned[s] \ Uncounted(s) = {}
    BY <1>1 DEF Bypassed
  <2>2. metrics.bypassed = Cardinality(Bypassed)
    BY <1>1, <2>1, FS_EmptySet
  <2>3. \A s \in Scopes : used[s] = Cardinality(owned[s] \ Uncounted(s))
    BY <1>1, <2>1, FS_EmptySet
  <2> QED
    BY <1>1, <2>2, <2>3 DEF BytesInv
<1>11. HeldInv
  BY <1>1 DEF HeldInv, HeldAt
<1> QED
  BY TypesInit, <1>3, <1>5, <1>6, <1>7, <1>9, <1>10, <1>11 DEF ScopeInv

LEMMA InvStep == ScopeInv /\ [Next]_svars => ScopeInv'
  BY TypesStep, BlocksStep, CallStep, NotEnteredStep, OnceStep, OwnStep, HeldStep, OrderlyStep, PoisonStep,
     CountStep, BytesStep DEF ScopeInv

LEMMA ScopeInvariant == Spec => []ScopeInv
  BY InvInit, InvStep, PTL DEF Spec

(***************************************************************************)
(* Exit runs every cleanup of a scope nobody raced on, in reverse, and no  *)
(* cleanup runs twice whatever calls race (OnExit, AllocMap, AllocChan,    *)
(* Exit).                                                                  *)
(***************************************************************************)
THEOREM ScopeRunsCleanups == Spec => []CleanupsExact
<1>1. ScopeInv => CleanupsReversed
  <2> SUFFICES ASSUME ScopeInv, NEW s \in Scopes \ messy, Settled(s)
               PROVE  ran[s] = Reverse(registered[s])
    BY DEF CleanupsReversed
  <2>1. RanDown(s, 0)
    BY DEF ScopeInv, OrderlyInv, OrderlyAt, OnScope, Settled
  <2>2. ran[s] \in Seq(Items) /\ registered[s] \in Seq(Items)
    BY DEF ScopeInv, ScopeTypes
  <2>3. /\ Len(ran[s]) = Len(registered[s]) /\ Len(registered[s]) \in Nat
        /\ \A k \in 1..Len(ran[s]) : ran[s][k] = registered[s][Len(registered[s]) + 1 - k]
    BY <2>1, <2>2 DEF RanDown
  <2>4. \A k \in 1..Len(ran[s]) : ran[s][k] = registered[s][(Len(registered[s]) - k) + 1]
    BY <2>3
  <2>5. ran[s] = [k \in 1..Len(registered[s]) |-> registered[s][(Len(registered[s]) - k) + 1]]
    <3>1. ran[s] = [k \in 1..Len(ran[s]) |-> ran[s][k]]
      BY <2>2
    <3> QED
      BY <2>3, <2>4, <3>1
  <2> QED
    BY <2>5 DEF Reverse
<1>2. ScopeInv => CleanupsOnce
  <2> SUFFICES ASSUME ScopeInv, NEW s \in Scopes, NEW t \in Scopes,
                      NEW i \in DOMAIN ran[s], NEW j \in DOMAIN ran[t],
                      ran[s][i] = ran[t][j], ran[s][i] \in Functions
               PROVE  s = t /\ i = j
    BY DEF CleanupsOnce
  <2>1. ran[s][i] \in Range(ran[s]) /\ ran[s][i] \in Range(ran[t])
    BY DEF Range
  <2>2. s = t
    BY <2>1 DEF ScopeInv, OnceInv, Belongs
  <2>3. i \in 1..Len(ran[s]) /\ j \in 1..Len(ran[s])
    BY <2>2 DEF ScopeInv, ScopeTypes
  <2> QED
    BY <2>2, <2>3 DEF ScopeInv, OnceInv, RanOnce
<1>3. ScopeInv => CleanupsExact
  BY <1>1, <1>2 DEF CleanupsExact
<1> QED
  BY <1>3, ScopeInvariant, PTL

(***************************************************************************)
(* Exit poisons all memory of a scope nobody raced on, and what AllocMap   *)
(* and AllocChan take from the pools is empty and open.                    *)
(***************************************************************************)
THEOREM ScopeLeavesNothing == Spec => []ExitCleans
<1>1. ScopeInv => ExitPoisons
  <2> SUFFICES ASSUME ScopeInv, NEW s \in Scopes \ messy, Settled(s)
               PROVE  owned[s] \subseteq poisoned
    BY DEF ExitPoisons
  <2>1. PoisonAt(s)
    BY DEF ScopeInv, PoisonInv
  <2> QED
    BY <2>1 DEF PoisonAt, OnScope, Settled
<1>2. ScopeInv => ExitCleans
  BY <1>1 DEF ScopeInv, OwnInv, ExitCleans
<1> QED
  BY <1>2, ScopeInvariant, PTL

(***************************************************************************)
(* While no call is under way, GlobalMetrics has the number of active      *)
(* scopes, and the bytes of the exited ones if no calls raced.             *)
(***************************************************************************)
THEOREM ScopesCounted == Spec => []MetricsExact
<1>1. ScopeInv => MetricsExact
  <2> SUFFICES ASSUME ScopeInv, \A g \in Goroutines : pc[g] = "idle"
               PROVE  /\ metrics.scopes = Cardinality(active)
                      /\ messy = {} =>
                           metrics.bypassed = Cardinality(UNION {owned[s] : s \in entered \ active})
    BY DEF MetricsExact
  <2>1. Leaving = {}
    BY DEF Leaving, OnScope
  <2>2. metrics.scopes = Cardinality(active) + 0 /\ Cardinality(active) \in Nat
    BY <2>1, FS_EmptySet, FS_CardinalityType DEF ScopeInv, CountInv
  <2>3. Bypassed = UNION {owned[s] : s \in entered \ active}
    BY <2>1 DEF Bypassed
  <2> QED
    BY <2>2, <2>3 DEF ScopeInv, BytesInv
<1> QED
  BY <1>1, ScopeInvariant, PTL

(***************************************************************************)
(* The loans of a scope are what was taken through it: what clients got,   *)
(* where it counts, is not yet given back.                                 *)
(***************************************************************************)
LEMMA LeasedIsLent == ScopeInv => \A s \in Scopes : Leased(s) = lent[s]
<1> SUFFICES ASSUME ScopeInv, NEW s \in Scopes PROVE Leased(s) = lent[s]
  OBVIOUS
<1>1. CASE s \in messy \ active
  BY <1>1 DEF Leased
<1>2. CASE s \notin messy \ active
  <2>1. held[s] \subseteq lent[s]
    BY <1>2 DEF ScopeInv, HeldInv, HeldAt
  <2> QED
    BY <1>2, <2>1 DEF Leased
<1> QED
  BY <1>1, <1>2

Loans == {p \in Scopes \X Objects : p[2] \in Leased(p[1])}

LEMMA LendingStep == ScopeInv /\ ScopeInv' /\ [Next]_svars => [Lend!LendNext]_(Lend!lvars)
<1> SUFFICES ASSUME ScopeInv, ScopeInv', [Next]_svars PROVE [Lend!LendNext]_(Lend!lvars)
  OBVIOUS
<1>0. /\ ScopeTypes /\ CallInv /\ OwnInv /\ lent \in [Scopes -> SUBSET Objects]
      /\ \A g \in Goroutines : pc[g] # "idle" => loc[g].s \in Scopes
  BY DEF ScopeInv, ScopeTypes, CallInv, CallAt
<1>a. /\ \A s \in Scopes : Leased(s) = lent[s]
      /\ \A s \in Scopes : Leased(s)' = lent'[s]
  <2>1. \A s \in Scopes : Leased(s) = lent[s]
    BY LeasedIsLent
  <2>2. (\A s \in Scopes : Leased(s) = lent[s])'
    BY LeasedIsLent, PTL
  <2> QED
    BY <2>1, <2>2
<1>b. /\ Loans = {p \in Scopes \X Objects : p[2] \in lent[p[1]]}
      /\ Loans' = {p \in Scopes \X Objects : p[2] \in lent'[p[1]]}
  BY <1>a DEF Loans
<1>1. ASSUME UNCHANGED lent PROVE UNCHANGED Lend!lvars
  <2>1. Loans' = Loans
    BY <1>1, <1>b
  <2> QED
    BY <2>1 DEF Lend!lvars, Loans
<1>2. ASSUME NEW g \in Goroutines, NEW o \in Objects, GetPooled(g, o) PROVE [Lend!LendNext]_(Lend!lvars)
  <2> SUFFICES ASSUME NEW s, s = loc[g].s PROVE [Lend!LendNext]_(Lend!lvars)
    OBVIOUS
  <2>1. s \in Scopes
    BY <1>0, <1>2 DEF GetPooled
  <2>2. /\ lent'[s] = lent[s] \cup {o} /\ \A t \in Scopes : t # s => lent'[t] = lent[t]
        /\ o \in pooled \cup fresh
    BY <1>0, <1>2, <2>1, GetEffect
  <2>3. \A t \in Scopes : <<t, o>> \notin Loans
    BY <1>0, <1>b, <2>2 DEF OwnInv, PoolOnly
  <2>4. Loans' = Loans \cup {<<s, o>>}
    <3>1. ASSUME NEW t \in Scopes, NEW x \in Objects
          PROVE  x \in lent'[t] <=> x \in lent[t] \/ <<t, x>> = <<s, o>>
      BY <2>1, <2>2
    <3> QED
      BY <3>1, <1>b, <2>1
  <2>5. Lend!Lend(s, o)
    BY <2>1, <2>3, <2>4 DEF Lend!Lend, Loans
  <2> QED
    BY <2>1, <2>5 DEF Lend!LendNext
<1>3. ASSUME NEW g \in Goroutines, RunCleanup(g) PROVE [Lend!LendNext]_(Lend!lvars)
  <2> SUFFICES ASSUME NEW s, NEW x, s = loc[g].s, x = NextCleanup(g) PROVE [Lend!LendNext]_(Lend!lvars)
    OBVIOUS
  <2>1. s \in Scopes
    BY <1>0, <1>3 DEF RunCleanup
  <2>2. lent' = [lent EXCEPT ![s] = @ \ {x}]
    BY <1>0, <1>3, <2>1, RunCleanupEffect
  <2>3. CASE x \notin lent[s]
    <3>1. lent' = lent
      BY <1>0, <2>1, <2>2, <2>3
    <3> QED
      BY <1>1, <3>1
  <2>4. CASE x \in lent[s]
    <3>1. x \in Objects
      BY <1>0, <2>1, <2>4
    <3>2. Loans' = Loans \ {<<s, x>>}
      <4>1. ASSUME NEW t \in Scopes, NEW o \in Objects
            PROVE  o \in lent'[t] <=> o \in lent[t] /\ <<t, o>> # <<s, x>>
        BY <1>0, <2>1, <2>2
      <4> QED
        BY <4>1, <1>b
    <3>3. <<s, x>> \in Loans
      BY <1>b, <2>1, <2>4, <3>1
    <3>4. Lend!GiveBack(s, x)
      BY <3>2, <3>3 DEF Lend!GiveBack, Loans
    <3> QED
      BY <2>1, <3>1, <3>4 DEF Lend!LendNext
  <2> QED
    BY <2>3, <2>4
<1>4. ASSUME NEW g \in Goroutines, Step(g), ~RunCleanup(g), ~\E o \in Objects : GetPooled(g, o)
      PROVE lent' = lent
  BY <1>4 DEF Step, EnterScope, TryAlloc, Exit, OnExit, AllocPooled, RegisterPooled, ReturnPooled,
     ArenaAlloc, ArenaFull, TrackUsed, TrackBlock, Appended, RecordScopeExit, CleanupPanics,
     CleanupsDone, Poison, pools
<1>5. ASSUME NEW s \in Scopes, NEW o \in Objects, Fill(s, o) \/ CloseChannel(s, o) PROVE lent' = lent
  BY <1>5 DEF Fill, CloseChannel
<1>6. CASE UNCHANGED svars
  BY <1>1, <1>6 DEF svars, pools
<1> QED
  BY <1>1, <1>2, <1>3, <1>4, <1>5, <1>6 DEF Next

(***************************************************************************)
(* Maps and channels are lent: from pool.Get until its cleanup gives it    *)
(* back an object is in the hands of one scope, through all races of       *)
(* AllocMap, AllocChan, OnExit and Exit; so is what clients got, as long   *)
(* as their scope is active, and after its exit too if no calls raced.     *)
(***************************************************************************)
THEOREM ScopeImplementsLending == Spec => ImplementsLending
<1>1. Init => Lend!LendInit
  <2>1. ASSUME Init PROVE {p \in Scopes \X Objects : p[2] \in Leased(p[1])} = {}
    <3>1. \A s \in Scopes : Leased(s) = {}
      BY <2>1 DEF Init, Leased
    <3> QED
      BY <3>1
  <2> QED
    BY <2>1 DEF Lend!LendInit
<1> QED
  BY <1>1, ScopeInvariant, LendingStep, PTL DEF Spec, ImplementsLending, Lend!LendSpec
=============================================================================
